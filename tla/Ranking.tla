------------------------------ MODULE Ranking ------------------------------
(***************************************************************************)
(* How a search orders what it found: scoreLexicalMatch of                 *)
(* search/lexical-score.ts, the reciprocal-rank fusion of                  *)
(* search/retrieve-memory.ts and scoreSearchResult and rankCandidates of   *)
(* search/rank-results.ts. Pure operators on rows, no state.               *)
(*                                                                         *)
(* A row is a hydrated memory record: [id, org, scopeType, scopeId,        *)
(* memoryType, sourceType, updatedAt, archived, text]; updatedAt counts    *)
(* days. A text stands for the title, content and summary of a version of  *)
(* the record and says what a query finds in it:                           *)
(*   terms, of   how many of the query's distinct terms it contains        *)
(*   occurs      how often, all terms together                             *)
(*   phrase      it contains the whole query                               *)
(*   headline    a term is in its title or summary                         *)
(*   entities    the share of the query's entities it mentions, in 40ths   *)
(*   fts         the full-text rank Postgres gives it, 0 for no match      *)
(*   generic, prefix   what looksGeneric and the context pack look for     *)
(*   chunks      the similarity of each of its chunks' vectors, in 40ths   *)
(*                                                                         *)
(* Similarities and lexical scores are multiples of 1/Unit; totals are     *)
(* counted in multiples of 1/Scale. The code computes in floating point;   *)
(* the model in rationals that these two numbers make integers.            *)
(***************************************************************************)
EXTENDS VectorStore

CONSTANT Scale

ASSUME ScaleAssumption == Scale \in Nat \ {0}

Unit == 40

AtMost(bound, n) == IF n > bound THEN bound ELSE n
AtLeast(bound, n) == IF n < bound THEN bound ELSE n

-----------------------------------------------------------------------------
(* Scores of one row *)

(* scoreLexicalMatch: coverage of the query's terms, a bonus each for the
   phrase, the frequency (at most 8 occurrences), a headline and entities. *)
LexicalScore(text) ==
    IF text.terms = 0 /\ text.entities = 0
    THEN 0
    ELSE AtMost(Unit, (20 * text.terms) \div text.of
                        + (IF text.phrase THEN 8 ELSE 0)
                        + AtMost(8, text.occurs)
                        + (IF text.headline THEN 4 ELSE 0)
                        + (8 * text.entities) \div Unit)

(* fusedSourceScore: the clamped raw score times (60 + 1) / (60 + rank). *)
FusedScore(raw, rank) ==
    AtMost(Unit, AtLeast(0, raw)) * ((Scale * 61) \div (Unit * (60 + rank)))

(* A position by descending score among the entries of a map, which keeps
   insertion order among equals: a stable sort and rankMap. *)
RankOf(ids, score, id) ==
    LET at(x) == CHOOSE i \in DOMAIN ids : ids[i] = x
    IN  1 + Cardinality({i \in DOMAIN ids :
                            \/ score[ids[i]] > score[id]
                            \/ /\ score[ids[i]] = score[id]
                               /\ i < at(id)})

ScopeScore(row) == IF row.scopeType = "project" THEN 1000 ELSE 0

MemoryTypeWeight(type) ==
    CASE type = "decision" -> 120 [] type = "summary" -> 70 [] type = "fact" -> 45

SourceTypeWeight(type) ==
    CASE type = "decision" -> 30 [] type = "document" -> 15 [] type = "conversation" -> 0

LooksGeneric(row) ==
    /\ row.memoryType # "decision"
    /\ row.sourceType = "conversation" \/ row.text.generic

MetadataScore(row) ==
    MemoryTypeWeight(row.memoryType) + SourceTypeWeight(row.sourceType)
        - (IF LooksGeneric(row) THEN 35 ELSE 0)

RecencyScore(row, newest) ==
    AtLeast(0, 25 - AtLeast(0, newest - row.updatedAt))

(* Mutant: the vector's share is left out of the total. *)
TotalWithoutVector(row, newest, vector, lexical) ==
    (ScopeScore(row) + MetadataScore(row) + RecencyScore(row, newest)) * Scale + 50 * lexical

(* scoreSearchResult's total; vector and lexical are fused scores, 0 where
   the row was not found by that source. *)
TotalScore(row, newest, vector, lexical) ==
    (ScopeScore(row) + MetadataScore(row) + RecencyScore(row, newest)) * Scale
        + 50 * vector + 50 * lexical

-----------------------------------------------------------------------------
(* Ranking what a search found *)

(* uniqueMemoryRecordIds and maxVectorScoresByRecordId. *)
HitIds(hits) ==
    LET places == InOrder({i \in DOMAIN hits :
                              \A j \in 1 .. i - 1 : hits[j].record # hits[i].record})
    IN  [k \in DOMAIN places |-> hits[places[k]].record]

BestScore(hits) ==
    [id \in {hits[i].record : i \in DOMAIN hits} |->
        LET scores == {hits[i].score : i \in {j \in DOMAIN hits : hits[j].record = id}}
        IN  CHOOSE s \in scores : \A t \in scores : s >= t]

(* scoreLexicalRecords: the rows of the repository's search that match at all. *)
LexicalIds(rows) ==
    LET matching == Selected(rows, LAMBDA r : LexicalScore(r.text) > 0)
    IN  [i \in DOMAIN matching |-> matching[i].id]

(* Mutant: the rows of the vector hits count only if the lexical query found none. *)
LexicalFirst(hydrated, lexical) ==
    IF lexical = <<>> THEN Elements(hydrated) ELSE Elements(lexical)

(* recordsById: a row the repository's search returned replaces a hydrated one. *)
FoundRows(hydrated, lexical) ==
    Elements(lexical)
        \cup {r \in Elements(hydrated) : \A l \in Elements(lexical) : l.id # r.id}

NewestUpdatedAt(rows) == CHOOSE t \in {r.updatedAt : r \in rows} :
                            \A r \in rows : r.updatedAt <= t

Total(row, rows, hits, lexical) ==
    LET vectorIds == HitIds(hits)
        best == BestScore(hits)
        lexicalIds == LexicalIds(lexical)
        match == [id \in {r.id : r \in Elements(lexical)} |->
                    LexicalScore((CHOOSE r \in Elements(lexical) : r.id = id).text)]
    IN  TotalScore(row, NewestUpdatedAt(rows),
            IF row.id \in DOMAIN best
            THEN FusedScore(best[row.id], RankOf(vectorIds, best, row.id)) ELSE 0,
            IF row.id \in Elements(lexicalIds)
            THEN FusedScore(match[row.id], RankOf(lexicalIds, match, row.id)) ELSE 0)

(* The comparison of rankCandidates: total, then newer, then larger id. *)
RanksAbove(a, b, total) ==
    \/ total[a.id] > total[b.id]
    \/ /\ total[a.id] = total[b.id]
       /\ \/ a.updatedAt > b.updatedAt
          \/ a.updatedAt = b.updatedAt /\ a.id > b.id

Ranked(hits, hydrated, lexical) ==
    LET rows == FoundRows(hydrated, lexical)
        total == [id \in {r.id : r \in rows} |->
                    Total(CHOOSE r \in rows : r.id = id, rows, hits, lexical)]
    IN  SortedBy(rows, LAMBDA a, b : RanksAbove(a, b, total))
=============================================================================
