------------------------ MODULE CanonicalIndexProofs ------------------------
(***************************************************************************)
(* Proofs about CanonicalIndex, for every value of its constants: the      *)
(* types, the inductive invariants of CanonicalIndexInvariants and, from   *)
(* these, the safety properties.                                           *)
(***************************************************************************)
EXTENDS CanonicalIndexInvariants, TLAPS

-----------------------------------------------------------------------------
(***************************************************************************)
(* Program counters and locals.                                            *)
(***************************************************************************)
ClientOK(k) == k \in ClientState /\ ClientLocals(k)
SweeperOK(k) == k \in SweeperState /\ SweeperLocals(k)

LEMMA IdleOK == ClientOK(IdleClient) /\ SweeperOK(IdleSweeper)
  BY ConstantsAssumption
     DEF ClientOK, SweeperOK, IdleClient, IdleSweeper, ClientState, SweeperState,
         ClientPcs, SweeperPcs, NoId, ClientLocals, SweeperLocals

LEMMA CatchOK ==
  ASSUME NEW k, ClientOK(k), k.pc # "idle"
  PROVE  ClientOK(At(k, Catch(k)))
  <1>1. Catch(k) \in {"idle", "rollback", "erase", "undo", "mark"}
    BY DEF Catch
  <1>2. CASE Catch(k) = "idle"
    BY <1>2, IdleOK DEF At
  <1>3. CASE Catch(k) # "idle"
    <2>1. At(k, Catch(k)) \in ClientState
      BY <1>1, <1>3 DEF At, ClientOK, ClientState, ClientPcs
    <2>2. ClientLocals(At(k, Catch(k)))
      BY <1>1, <1>3
         DEF At, Catch, ClientOK, ClientState, ClientLocals, WritePcs, UpdatePcs, StoredPcs, OpKinds
    <2>. QED BY <2>1, <2>2 DEF ClientOK
  <1>. QED BY <1>2, <1>3

LEMMA ClientSet ==
  ASSUME TypeOK, NEW c \in Clients, NEW k, ClientOK(k), client' = [client EXCEPT ![c] = k]
  PROVE  /\ client' \in [Clients -> ClientState]
         /\ \A d \in Clients : ClientLocals(client'[d])
  BY DEF TypeOK, ClientOK

LEMMA SweeperSet ==
  ASSUME TypeOK, NEW s \in Sweepers, NEW k, SweeperOK(k), sweeper' = [sweeper EXCEPT ![s] = k]
  PROVE  /\ sweeper' \in [Sweepers -> SweeperState]
         /\ \A t \in Sweepers : SweeperLocals(sweeper'[t])
  BY DEF TypeOK, SweeperOK

LEMMA ThrowType ==
  ASSUME TypeOK, NEW c \in Clients, client[c].pc # "idle", Throw(c)
  PROVE  /\ client' \in [Clients -> ClientState]
         /\ \A d \in Clients : ClientLocals(client'[d])
  BY CatchOK, ClientSet DEF Throw, Proceed, TypeOK, ClientOK

LEMMA ProceedType ==
  ASSUME TypeOK, NEW c \in Clients, NEW pc \in ClientPcs, Proceed(c, pc),
         pc = "idle" \/ ClientLocals([client[c] EXCEPT !.pc = pc])
  PROVE  /\ client' \in [Clients -> ClientState]
         /\ \A d \in Clients : ClientLocals(client'[d])
  <1>1. ClientOK(At(client[c], pc))
    BY IdleOK DEF At, TypeOK, ClientOK, ClientState
  <1>. QED BY <1>1, ClientSet DEF Proceed, TypeOK

LEMMA NewJobType ==
  ASSUME NEW r \in Records, NEW retry \in {"null", "later"}
  PROVE  NewJob(r, retry) \in JobState
  BY DEF NewJob, JobState

LEMMA PendingType ==
  ASSUME TypeOK, NEW j, NEW attempts \in Nat, SetQdrantPending(j, attempts)
  PROVE  job' \in [Ids -> JobState]
  <1>1. job' = [job EXCEPT ![j] = [@ EXCEPT !.q = "pending", !.retry = "later", !.attempts = attempts]]
    BY DEF SetQdrantPending
  <1>2. ASSUME j \in Ids
        PROVE  [job[j] EXCEPT !.q = "pending", !.retry = "later", !.attempts = attempts] \in JobState
    BY <1>2 DEF TypeOK, JobState
  <1>. QED BY <1>1, <1>2 DEF TypeOK

LEMMA FailedType ==
  ASSUME TypeOK, NEW j, NEW attempts \in Nat, SetQdrantFailed(j, attempts)
  PROVE  job' \in [Ids -> JobState]
  <1>1. job' = [job EXCEPT ![j] = [@ EXCEPT !.q = "failed", !.retry = "null", !.attempts = attempts]]
    BY DEF SetQdrantFailed
  <1>2. ASSUME j \in Ids
        PROVE  [job[j] EXCEPT !.q = "failed", !.retry = "null", !.attempts = attempts] \in JobState
    BY <1>2 DEF TypeOK, JobState
  <1>. QED BY <1>1, <1>2 DEF TypeOK

LEMMA CompletedType ==
  ASSUME TypeOK, NEW j, SetQdrantCompleted(j)
  PROVE  job' \in [Ids -> JobState]
  <1>1. job' = [job EXCEPT ![j] = [@ EXCEPT !.q = "completed", !.retry = "null"]]
    BY DEF SetQdrantCompleted
  <1>2. ASSUME j \in Ids
        PROVE  [job[j] EXCEPT !.q = "completed", !.retry = "null"] \in JobState
    BY <1>2 DEF TypeOK, JobState
  <1>. QED BY <1>1, <1>2 DEF TypeOK

LEMMA VectorCallType ==
  ASSUME TypeOK, NEW result \in SUBSET Ids, NEW ok, VectorCall(result, ok)
  PROVE  points' \in SUBSET Ids
  BY DEF VectorCall, TypeOK

-----------------------------------------------------------------------------
(***************************************************************************)
(* Type correctness.                                                       *)
(***************************************************************************)
LEMMA InitType == Init => TypeOK
  BY ConstantsAssumption, IdleOK
     DEF Init, TypeOK, RecordState, ChunkSetState, JobState, NoId, ClientOK, SweeperOK

LEMMA ThrowKeeps ==
  ASSUME TypeOK, NEW c \in Clients, client[c].pc # "idle", Throw(c),
         UNCHANGED <<stores, sweeper, crashes>>
  PROVE  TypeOK'
  BY ThrowType DEF stores, TypeOK

LEMMA ClientStepType ==
  ASSUME TypeOK, NEW c \in Clients, ClientStep(c)
  PROVE  TypeOK'
<1> USE ConstantsAssumption
<1> DEFINE k == client[c]
<1>0. k \in ClientState /\ ClientLocals(k)
  BY DEF TypeOK
<1>1. CASE CreateJob(c)
  <2>1. k.rec \in Records /\ k.op = "write"
    BY <1>0, <1>1 DEF CreateJob, ClientLocals, ClientState, UpdatePcs, StoredPcs, OpKinds
  <2>2. CASE Throw(c) /\ UNCHANGED job
    BY <2>2, <1>1, ThrowKeeps DEF CreateJob, stores
  <2>3. ASSUME NEW j \in Ids, job' = [job EXCEPT ![j] = NewJob(k.rec, "null")],
               client' = [client EXCEPT ![c].pc = "insert", ![c].job = j]
        PROVE  TypeOK'
    <3>1. ClientOK([k EXCEPT !.pc = "insert", !.job = j])
      BY <1>0, <2>1 DEF ClientOK, ClientState, ClientPcs, ClientLocals, WritePcs
    <3>2. client' = [client EXCEPT ![c] = [k EXCEPT !.pc = "insert", !.job = j]]
      BY <2>3
    <3>. QED
      BY <3>1, <3>2, <2>1, <2>3, <1>1, ClientSet, NewJobType DEF CreateJob, TypeOK
  <2>. QED BY <1>1, <2>2, <2>3 DEF CreateJob
<1>2. CASE InsertChunks(c)
  <2>1. k.rec \in Records /\ k.op = "write" /\ k.job \in Ids
    BY <1>0, <1>2 DEF InsertChunks, ClientLocals, ClientState, UpdatePcs, StoredPcs, OpKinds
  <2>2. CASE Throw(c) /\ UNCHANGED <<chunkSet, stored>>
    BY <2>2, <1>2, ThrowKeeps DEF InsertChunks, stores
  <2>3. ASSUME NEW g \in Ids,
               chunkSet' = [chunkSet EXCEPT ![g] =
                  [rec |-> k.rec, ver |-> k.ver, job |-> k.job]],
               stored' = stored \cup {g},
               client' = [client EXCEPT ![c].pc = "writeAhead", ![c].set = g]
        PROVE  TypeOK'
    <3>1. ClientOK([k EXCEPT !.pc = "writeAhead", !.set = g])
      BY <1>0, <2>1 DEF ClientOK, ClientState, ClientPcs, ClientLocals, WritePcs
    <3>2. client' = [client EXCEPT ![c] = [k EXCEPT !.pc = "writeAhead", !.set = g]]
      BY <2>3
    <3>3. [rec |-> k.rec, ver |-> k.ver, job |-> k.job] \in ChunkSetState
      BY <1>0, <2>1 DEF ClientState, ChunkSetState
    <3>. QED
      BY <3>1, <3>2, <3>3, <2>3, <1>2, ClientSet DEF InsertChunks, TypeOK
  <2>. QED BY <1>2, <2>2, <2>3 DEF InsertChunks
<1>3. CASE WriteAhead(c)
  <2>1. k.op = "write" /\ k.job \in Ids /\ k.set \in Ids
    BY <1>0, <1>3 DEF WriteAhead, ClientLocals, ClientState, UpdatePcs, StoredPcs, OpKinds
  <2>2. CASE Throw(c) /\ UNCHANGED job
    BY <2>2, <1>3, ThrowKeeps DEF WriteAhead, stores
  <2>3. CASE SetQdrantPending(k.job, 0) /\ Proceed(c, "embed")
    <3>1. job' \in [Ids -> JobState]
      BY <2>1, <2>3, PendingType DEF TypeOK
    <3>2. ClientLocals([k EXCEPT !.pc = "embed"])
      BY <1>0, <1>3, <2>1 DEF WriteAhead, ClientLocals, ClientState, WritePcs
    <3>. QED BY <3>1, <3>2, <2>3, <1>3, ProceedType DEF WriteAhead, TypeOK, ClientPcs
  <2>. QED BY <1>3, <2>2, <2>3 DEF WriteAhead
<1>4. CASE CommitUpdate(c)
  <2>1. k.rec \in Records /\ k.op = "update" /\ k.read \in {"live", "archived"}
    BY <1>0, <1>4 DEF CommitUpdate, ClientLocals, ClientState, WritePcs, StoredPcs, OpKinds
  <2>2. CASE Throw(c) /\ UNCHANGED record
    BY <2>2, <1>4, ThrowKeeps DEF CommitUpdate, stores
  <2>3. CASE /\ record' = [record EXCEPT ![k.rec].state = k.read,
                                          ![k.rec].ver = record[k.rec].ver + 1]
             /\ client' = [client EXCEPT ![c].pc = "embed",
                                         ![c].ver = record[k.rec].ver + 1]
    <3>0. record[k.rec] \in RecordState
      BY <2>1 DEF TypeOK
    <3>1. ClientOK([k EXCEPT !.pc = "embed", !.ver = record[k.rec].ver + 1])
      <4>1. record[k.rec].ver + 1 \in Nat
        BY <3>0 DEF RecordState
      <4>2. [k EXCEPT !.pc = "embed", !.ver = record[k.rec].ver + 1] \in ClientState
        BY <1>0, <4>1 DEF ClientState, ClientPcs
      <4>3. ClientLocals([k EXCEPT !.pc = "embed", !.ver = record[k.rec].ver + 1])
        BY <1>0, <2>1 DEF ClientState, ClientLocals, UpdatePcs
      <4>. QED BY <4>2, <4>3 DEF ClientOK
    <3>2. client' = [client EXCEPT ![c] = [k EXCEPT !.pc = "embed", !.ver = record[k.rec].ver + 1]]
      BY <2>3
    <3>3. record' \in [Records -> RecordState]
      BY <2>1, <2>3, <3>0 DEF TypeOK, RecordState
    <3>. QED
      BY <3>1, <3>2, <3>3, <2>3, <1>4, ClientSet DEF CommitUpdate, TypeOK
  <2>. QED BY <1>4, <2>2, <2>3 DEF CommitUpdate
<1>5. CASE Embed(c)
  <2>1. CASE Throw(c)
    BY <2>1, <1>5, ThrowKeeps DEF Embed
  <2>2. CASE k.op = "write" /\ Proceed(c, "upsert")
    <3>1. ClientLocals([k EXCEPT !.pc = "upsert"])
      BY <1>0, <1>5, <2>2 DEF Embed, ClientLocals, ClientState, WritePcs, StoredPcs
    <3>. QED BY <3>1, <2>2, <1>5, ProceedType DEF Embed, TypeOK, ClientPcs, stores
  <2>3. CASE k.op # "write" /\ Proceed(c, "replace")
    <3>1. ClientLocals([k EXCEPT !.pc = "replace"])
      BY <1>0, <1>5, <2>3 DEF Embed, ClientLocals, ClientState, UpdatePcs, StoredPcs, OpKinds
    <3>. QED BY <3>1, <2>3, <1>5, ProceedType DEF Embed, TypeOK, ClientPcs, stores
  <2>. QED BY <1>5, <2>1, <2>2, <2>3 DEF Embed
<1>6. CASE ReplaceChunks(c)
  <2>1. k.rec \in Records /\ k.op = "update"
    BY <1>0, <1>6 DEF ReplaceChunks, ClientLocals, ClientState, WritePcs, StoredPcs, OpKinds
  <2>2. CASE Throw(c) /\ UNCHANGED <<chunkSet, stored, pointIds, job>>
    BY <2>2, <1>6, ThrowKeeps DEF ReplaceChunks, stores
  <2>3. ASSUME NEW g \in Ids, NEW j \in Ids,
               chunkSet' = [chunkSet EXCEPT ![g] = [rec |-> k.rec, ver |-> k.ver, job |-> j]],
               stored' = (stored \ StoredOf(k.rec)) \cup {g},
               pointIds' = pointIds \ StoredOf(k.rec),
               job' = [job EXCEPT ![j] = NewJob(k.rec, "later")],
               client' = [client EXCEPT ![c].pc = "deleteVectors", ![c].set = g, ![c].job = j]
        PROVE  TypeOK'
    <3>1. ClientOK([k EXCEPT !.pc = "deleteVectors", !.set = g, !.job = j])
      BY <1>0, <2>1 DEF ClientOK, ClientState, ClientPcs, ClientLocals, UpdatePcs
    <3>2. client' = [client EXCEPT ![c] = [k EXCEPT !.pc = "deleteVectors", !.set = g, !.job = j]]
      BY <2>3
    <3>3. [rec |-> k.rec, ver |-> k.ver, job |-> j] \in ChunkSetState
      BY <1>0, <2>1 DEF ClientState, ChunkSetState
    <3>. QED
      BY <3>1, <3>2, <3>3, <2>1, <2>3, <1>6, ClientSet, NewJobType DEF ReplaceChunks, TypeOK
  <2>. QED BY <1>6, <2>2, <2>3 DEF ReplaceChunks
<1>7. CASE DeleteVectors(c)
  <2>1. k.op = "update"
    BY <1>0, <1>7 DEF DeleteVectors, ClientLocals, ClientState, WritePcs, StoredPcs, OpKinds
  <2>2. ClientLocals([k EXCEPT !.pc = "upsert"])
    BY <1>0, <1>7, <2>1 DEF DeleteVectors, ClientLocals, ClientState, UpdatePcs, StoredPcs
  <2>3. points' \in SUBSET Ids
    BY <1>7, VectorCallType DEF DeleteVectors, TypeOK
  <2>. QED
    BY <2>2, <2>3, <1>7, ProceedType, ThrowType DEF DeleteVectors, ClientPcs, rows, TypeOK
<1>8. CASE Upsert(c)
  <2>1. k.set \in Ids
    BY <1>0, <1>8 DEF Upsert, ClientLocals, ClientState, WritePcs, StoredPcs, OpKinds
  <2>2. ClientLocals([k EXCEPT !.pc = "pointIds"])
    BY <1>0, <1>8 DEF Upsert, ClientLocals, ClientState, WritePcs, UpdatePcs, StoredPcs
  <2>3. points' \in SUBSET Ids
    BY <1>8, <2>1, VectorCallType DEF Upsert, TypeOK
  <2>. QED
    BY <2>2, <2>3, <1>8, ProceedType, ThrowType DEF Upsert, ClientPcs, rows, TypeOK
<1>9. CASE UpdatePointIds(c)
  <2>1. CASE Throw(c) /\ UNCHANGED pointIds
    BY <2>1, <1>9, ThrowKeeps DEF UpdatePointIds, stores
  <2>2. CASE /\ pointIds' = pointIds \cup ({k.set} \cap stored)
             /\ Proceed(c, "markQdrant")
    <3>1. ClientLocals([k EXCEPT !.pc = "markQdrant"])
      BY <1>0, <1>9 DEF UpdatePointIds, ClientLocals, ClientState, WritePcs, UpdatePcs, StoredPcs
    <3>. QED BY <3>1, <2>2, <1>9, ProceedType DEF UpdatePointIds, TypeOK, ClientPcs
  <2>. QED BY <1>9, <2>1, <2>2 DEF UpdatePointIds
<1>10. CASE MarkQdrantCompleted(c)
  <2>1. CASE Throw(c) /\ UNCHANGED job
    BY <2>1, <1>10, ThrowKeeps DEF MarkQdrantCompleted, stores
  <2>2. CASE SetQdrantCompleted(k.job) /\ Proceed(c, "markDone")
    <3>1. ClientLocals([k EXCEPT !.pc = "markDone"])
      BY <1>0, <1>10 DEF MarkQdrantCompleted, ClientLocals, ClientState, WritePcs, UpdatePcs, StoredPcs
    <3>2. job' \in [Ids -> JobState]
      BY <2>2, CompletedType DEF TypeOK
    <3>. QED BY <3>1, <3>2, <2>2, <1>10, ProceedType DEF MarkQdrantCompleted, TypeOK, ClientPcs
  <2>. QED BY <1>10, <2>1, <2>2 DEF MarkQdrantCompleted
<1>11. CASE MarkCompleted(c)
  <2>1. CASE Throw(c) /\ UNCHANGED job
    BY <2>1, <1>11, ThrowKeeps DEF MarkCompleted, stores
  <2>2. CASE job' = [job EXCEPT ![k.job].status = "completed"] /\ Proceed(c, "idle")
    <3>1. job' = [job EXCEPT ![k.job] = [@ EXCEPT !.status = "completed"]]
      BY <2>2
    <3>2. ASSUME k.job \in Ids
          PROVE  [job[k.job] EXCEPT !.status = "completed"] \in JobState
      BY <3>2 DEF TypeOK, JobState
    <3>3. job' \in [Ids -> JobState]
      BY <3>1, <3>2 DEF TypeOK
    <3>. QED BY <3>3, <2>2, <1>11, ProceedType DEF MarkCompleted, TypeOK, ClientPcs
  <2>. QED BY <1>11, <2>1, <2>2 DEF MarkCompleted
<1>12. CASE DeleteOwnPoints(c)
  <2>1. points' \in SUBSET Ids
    BY <1>12, VectorCallType DEF DeleteOwnPoints, TypeOK
  <2>2. CASE k.pc = "undo"
    <3>1. ClientLocals([k EXCEPT !.pc = "mark"])
      BY <1>0, <2>2 DEF ClientLocals, ClientState, WritePcs, UpdatePcs, StoredPcs, OpKinds
    <3>. QED BY <3>1, <2>1, <2>2, <1>12, ProceedType DEF DeleteOwnPoints, TypeOK, ClientPcs, rows
  <2>3. CASE k.pc # "undo"
    <3>1. ClientLocals([k EXCEPT !.pc = "erase"])
      BY <1>0, <1>12, <2>3 DEF DeleteOwnPoints, ClientLocals, ClientState, WritePcs, UpdatePcs, StoredPcs, OpKinds
    <3>. QED BY <3>1, <2>1, <2>3, <1>12, ProceedType DEF DeleteOwnPoints, TypeOK, ClientPcs, rows
  <2>. QED BY <2>2, <2>3
<1>13. CASE MarkRetry(c)
  <2>1. job' \in [Ids -> JobState]
    BY <1>13, PendingType DEF MarkRetry, TypeOK
  <2>. QED BY <2>1, <1>13, ProceedType DEF MarkRetry, TypeOK, ClientPcs
<1>14. CASE EraseRecord(c)
  <2>0. /\ \A r \in Records : [record[r] EXCEPT !.state = "gone"] \in RecordState
        /\ \A j \in Ids : [job[j] EXCEPT !.q = "absent"] \in JobState
    BY DEF TypeOK, RecordState, JobState
  <2>1. record' \in [Records -> RecordState] /\ job' \in [Ids -> JobState]
    <3>1. CASE /\ record' = [record EXCEPT ![k.rec].state = "gone"]
               /\ job' = [j \in Ids |-> IF job[j].rec = k.rec
                                        THEN [job[j] EXCEPT !.q = "absent"] ELSE job[j]]
      BY <2>0, <3>1 DEF TypeOK
    <3>. QED BY <3>1, <1>14 DEF EraseRecord, TypeOK
  <2>2. stored' \in SUBSET Ids /\ pointIds' \in SUBSET stored'
    BY <1>14 DEF EraseRecord, TypeOK
  <2>. QED BY <2>1, <2>2, <1>14, ProceedType DEF EraseRecord, TypeOK, ClientPcs
<1>15. CASE DeletePoints(c)
  <2>1. points' \in SUBSET Ids
    BY <1>15, VectorCallType DEF DeletePoints, TypeOK
  <2>. QED BY <2>1, <1>15, ProceedType DEF DeletePoints, TypeOK, ClientPcs, rows
<1>. QED
  BY <1>1, <1>2, <1>3, <1>4, <1>5, <1>6, <1>7, <1>8, <1>9, <1>10, <1>11, <1>12, <1>13,
     <1>14, <1>15 DEF ClientStep

LEMMA ClientStartType ==
  ASSUME TypeOK, NEW c \in Clients, NEW r \in Records, ClientStart(c, r)
  PROVE  TypeOK'
<1> USE ConstantsAssumption
<1>0. /\ IdleClient \in ClientState
      /\ record[r] \in RecordState
  BY IdleOK DEF ClientOK, TypeOK
<1>1. CASE AddMemory(c, r)
  <2> DEFINE k == [IdleClient EXCEPT !.pc = "create", !.op = "write", !.rec = r, !.ver = 1]
  <2>1. ClientOK(k)
    BY DEF ClientOK, IdleClient, ClientState, ClientPcs, OpKinds, ClientLocals, WritePcs, NoId
  <2>2. record' \in [Records -> RecordState]
    BY <1>1 DEF AddMemory, TypeOK, RecordState
  <2>. QED BY <2>1, <2>2, <1>1, ClientSet DEF AddMemory, TypeOK
<1>2. CASE ReadForUpdate(c, r)
  <2> DEFINE k == [IdleClient EXCEPT !.pc = "commit", !.op = "update", !.rec = r,
                                     !.read = record[r].state]
  <2>1. record[r].state \in {"live", "archived"}
    BY <1>0, <1>2 DEF ReadForUpdate, Exists
  <2>2. ClientOK(k)
    BY <2>1 DEF ClientOK, IdleClient, ClientState, ClientPcs, OpKinds, ClientLocals, UpdatePcs, NoId
  <2>. QED BY <2>2, <1>2, ClientSet DEF ReadForUpdate, TypeOK, stores
<1>3. CASE ArchiveRecord(c, r)
  <2>1. [record[r] EXCEPT !.state = "archived"] \in RecordState
    BY <1>0 DEF RecordState
  <2>2. record' \in [Records -> RecordState]
    BY <2>1, <1>3 DEF ArchiveRecord, TypeOK
  <2>3. CASE UNCHANGED client
    BY <2>2, <2>3, <1>3 DEF ArchiveRecord, TypeOK
  <2>4. ASSUME NEW g \in Ids,
               client' = [client EXCEPT ![c] = [IdleClient EXCEPT
                            !.pc = "deletePoints", !.op = "delete", !.rec = r, !.set = g]]
        PROVE  TypeOK'
    <3> DEFINE k == [IdleClient EXCEPT
                       !.pc = "deletePoints", !.op = "delete", !.rec = r, !.set = g]
    <3>1. ClientOK(k)
      BY DEF ClientOK, IdleClient, ClientState, ClientPcs, OpKinds, ClientLocals, NoId
    <3>. QED BY <3>1, <2>2, <2>4, <1>3, ClientSet DEF ArchiveRecord, TypeOK
  <2>. QED BY <2>3, <2>4, <1>3 DEF ArchiveRecord, StoredOf, SetsOf
<1>. QED BY <1>1, <1>2, <1>3 DEF ClientStart

LEMMA SweepToType ==
  ASSUME TypeOK, NEW s \in Sweepers, sweeper[s].job \in Ids, sweeper[s].set \in Ids,
         NEW pc \in SweeperPcs \ {"idle", "next"}, SweepTo(s, pc)
  PROVE  /\ sweeper' \in [Sweepers -> SweeperState]
         /\ \A t \in Sweepers : SweeperLocals(sweeper'[t])
  <1>1. SweeperOK([sweeper[s] EXCEPT !.pc = pc])
    BY SMTT(20) DEF SweeperOK, SweeperState, SweeperLocals, TypeOK
  <1>2. sweeper' = [sweeper EXCEPT ![s] = [sweeper[s] EXCEPT !.pc = pc]]
    BY DEF SweepTo
  <1>. QED BY <1>1, <1>2, SweeperSet

LEMMA SweepToRetryType ==
  ASSUME TypeOK, NEW s \in Sweepers, sweeper[s].job \in Ids, SweepTo(s, "retry")
  PROVE  /\ sweeper' \in [Sweepers -> SweeperState]
         /\ \A t \in Sweepers : SweeperLocals(sweeper'[t])
  <1>1. SweeperOK([sweeper[s] EXCEPT !.pc = "retry"])
    BY DEF SweeperOK, SweeperState, SweeperPcs, SweeperLocals, TypeOK
  <1>2. sweeper' = [sweeper EXCEPT ![s] = [sweeper[s] EXCEPT !.pc = "retry"]]
    BY DEF SweepTo
  <1>. QED BY <1>1, <1>2, SweeperSet

LEMMA SweepNextType ==
  ASSUME TypeOK, NEW s \in Sweepers, SweepNext(s)
  PROVE  /\ sweeper' \in [Sweepers -> SweeperState]
         /\ \A t \in Sweepers : SweeperLocals(sweeper'[t])
  <1> DEFINE k == IF sweeper[s].queue = {} THEN IdleSweeper
                  ELSE [sweeper[s] EXCEPT !.pc = "next", !.job = NoId, !.set = NoId]
  <1>1. SweeperOK(k)
    BY IdleOK DEF SweeperOK, SweeperState, SweeperPcs, SweeperLocals, NoId, TypeOK
  <1>2. sweeper' = [sweeper EXCEPT ![s] = k]
    BY DEF SweepNext
  <1>. QED BY <1>1, <1>2, SweeperSet

LEMMA SweeperStepType ==
  ASSUME TypeOK, NEW s \in Sweepers, Claim(s) \/ SweeperStep(s)
  PROVE  TypeOK'
<1> USE ConstantsAssumption
<1> DEFINE k == sweeper[s]
<1>0. /\ k \in SweeperState /\ SweeperLocals(k)
      /\ IdleSweeper \in SweeperState
  BY IdleOK DEF TypeOK, SweeperOK
<1>1. CASE Claim(s)
  <2>1. PICK batch \in SUBSET Due :
          /\ job' = [j \in Ids |-> IF j \in batch
                                   THEN [job[j] EXCEPT !.retry = "later"] ELSE job[j]]
          /\ sweeper' = [sweeper EXCEPT ![s] =
                [IdleSweeper EXCEPT !.pc = "next", !.queue = batch,
                    !.tries = [j \in Ids |-> IF j \in batch THEN job[j].attempts ELSE 0]]]
    BY <1>1 DEF Claim
  <2>2. \A j \in Ids : /\ [job[j] EXCEPT !.retry = "later"] \in JobState
                       /\ job[j].attempts \in Nat
    BY DEF TypeOK, JobState
  <2>3. job' \in [Ids -> JobState]
    BY <2>1, <2>2 DEF TypeOK
  <2> DEFINE tries == [j \in Ids |-> IF j \in batch THEN job[j].attempts ELSE 0]
  <2>4. tries \in [Ids -> Nat]
    BY <2>2
  <2> HIDE DEF tries
  <2>5. SweeperOK([IdleSweeper EXCEPT !.pc = "next", !.queue = batch, !.tries = tries])
    BY <2>4 DEF SweeperOK, IdleSweeper, SweeperState, SweeperPcs, SweeperLocals, NoId, Due
  <2>6. sweeper' = [sweeper EXCEPT ![s] =
                      [IdleSweeper EXCEPT !.pc = "next", !.queue = batch, !.tries = tries]]
    BY <2>1 DEF tries
  <2>. QED BY <2>3, <2>5, <2>6, <1>1, SweeperSet DEF Claim, TypeOK
<1>2. ASSUME NEW j \in Ids, LoadChunks(s, j)
      PROVE  TypeOK'
  <2> DEFINE load(pc, g) == [k EXCEPT !.pc = pc, !.queue = @ \ {j}, !.job = j, !.set = g]
  <2>1. ASSUME NEW pc \in {"embed", "markQdrant", "retry"}, NEW g \in Ids \cup {NoId},
               pc = "embed" => g \in Ids, sweeper' = [sweeper EXCEPT ![s] = load(pc, g)]
        PROVE  TypeOK'
    <3>1. SweeperOK(load(pc, g))
      BY <1>0, <2>1 DEF SweeperOK, SweeperState, SweeperPcs, SweeperLocals
    <3> HIDE DEF load
    <3>. QED BY <2>1, <3>1, <1>2, SweeperSet DEF LoadChunks, stores, TypeOK
  <2>2. ASSUME NEW g \in StoredOf(job[j].rec), sweeper' = [sweeper EXCEPT ![s] = load("embed", g)]
        PROVE  TypeOK'
    BY <2>1, <2>2 DEF StoredOf, SetsOf
  <2>3. ASSUME NEW pc \in {"markQdrant", "retry"}, sweeper' = [sweeper EXCEPT ![s] = load(pc, NoId)]
        PROVE  TypeOK'
    BY <2>1, <2>3
  <2>4. \A pc, g : [sweeper EXCEPT ![s] = load(pc, g)]
                   = [sweeper EXCEPT ![s].pc = pc, ![s].job = j,
                                     ![s].set = g, ![s].queue = @ \ {j}]
    OBVIOUS
  <2>. QED BY <2>2, <2>3, <2>4, <1>2, ZenonT(40) DEF LoadChunks
<1>3. CASE SweepEmbed(s)
  BY <1>0, <1>3, SweepToType DEF SweepEmbed, SweeperPcs, SweeperLocals, stores, TypeOK
<1>4. CASE SweepDeleteVectors(s)
  <2>1. points' \in SUBSET Ids
    BY <1>4, VectorCallType DEF SweepDeleteVectors, TypeOK
  <2>. QED BY <1>0, <2>1, <1>4, SweepToType
       DEF SweepDeleteVectors, SweeperPcs, SweeperLocals, rows, TypeOK
<1>5. CASE SweepUpsert(s)
  <2>0. k.set \in Ids
    BY <1>0, <1>5 DEF SweepUpsert, SweeperLocals
  <2>1. points' \in SUBSET Ids
    BY <2>0, <1>5, VectorCallType DEF SweepUpsert, TypeOK
  <2>. QED BY <1>0, <2>1, <1>5, SweepToType
       DEF SweepUpsert, SweeperPcs, SweeperLocals, rows, TypeOK
<1>6. CASE SweepPointIds(s)
  <2>1. pointIds' \in SUBSET stored
    BY <1>6 DEF SweepPointIds, TypeOK
  <2>. QED BY <1>0, <2>1, <1>6, SweepToType
       DEF SweepPointIds, SweeperPcs, SweeperLocals, TypeOK
<1>7. CASE SweepMarkCompleted(s)
  <2>1. job' \in [Ids -> JobState]
    BY <1>7, CompletedType DEF SweepMarkCompleted, TypeOK
  <2>. QED BY <1>0, <2>1, <1>7, SweepToRetryType, SweepNextType
       DEF SweepMarkCompleted, SweeperLocals, TypeOK
<1>8. CASE SweepRetry(s)
  <2>0. k.tries[k.job] + 1 \in Nat
    BY <1>0, <1>8 DEF SweepRetry, Attempt, GivesUp, SweeperLocals, SweeperState
  <2>1. job' \in [Ids -> JobState]
    BY <2>0, <1>8, PendingType, FailedType DEF SweepRetry, Attempt, GivesUp, TypeOK
  <2>. QED BY <2>1, <1>8, SweepNextType DEF SweepRetry, Attempt, GivesUp, TypeOK
<1>. QED BY <1>1, <1>2, <1>3, <1>4, <1>5, <1>6, <1>7, <1>8 DEF SweeperStep

LEMMA EnvironmentType ==
  ASSUME TypeOK, Crash \/ \E j \in Ids : Elapse(j)
  PROVE  TypeOK'
<1>1. ASSUME NEW j \in Ids, Elapse(j)
      PROVE  TypeOK'
  <2>1. /\ job' = [job EXCEPT ![j] = [@ EXCEPT !.retry = "due"]]
        /\ [job[j] EXCEPT !.retry = "due"] \in JobState
    BY <1>1 DEF Elapse, TypeOK, JobState
  <2>. QED BY <2>1, <1>1 DEF Elapse, TypeOK
<1>2. CASE Crash
  <2>1. crashes' \in 0 .. MaxCrashes
    BY <1>2, ConstantsAssumption DEF Crash, TypeOK
  <2>2. ASSUME NEW c \in Clients, Proceed(c, "idle"), UNCHANGED sweeper
        PROVE  TypeOK'
    BY <2>1, <2>2, <1>2, ProceedType DEF Crash, stores, TypeOK, ClientPcs
  <2>3. ASSUME NEW s \in Sweepers, sweeper' = [sweeper EXCEPT ![s] = IdleSweeper],
               UNCHANGED client
        PROVE  TypeOK'
    BY <2>1, <2>3, <1>2, SweeperSet, IdleOK DEF Crash, stores, TypeOK
  <2>. QED BY <2>2, <2>3, <1>2 DEF Crash
<1>. QED BY <1>1, <1>2

LEMMA NextType == TypeOK /\ [Next]_vars => TypeOK'
  <1> SUFFICES ASSUME TypeOK, [Next]_vars PROVE TypeOK'
    OBVIOUS
  <1>1. CASE UNCHANGED vars
    BY <1>1 DEF vars, TypeOK
  <1>2. CASE Next
    BY <1>2, ClientStartType, ClientStepType, SweeperStepType, EnvironmentType DEF Next
  <1>. QED BY <1>1, <1>2

(***************************************************************************)
(* Every behaviour of the requests, the sweepers, the timers and crashes   *)
(* keeps every variable in its type and every request and sweeper with the *)
(* locals its next await uses (the code's definite assignment).            *)
(***************************************************************************)
THEOREM TypeCorrect == Spec => []TypeOK
  BY InitType, NextType, PTL DEF Spec

-----------------------------------------------------------------------------
(***************************************************************************)
(* What each of the job repository's updates leaves in every row.          *)
(***************************************************************************)
LEMMA PendingRows ==
  ASSUME TypeOK, NEW j, NEW attempts, SetQdrantPending(j, attempts), NEW i \in Ids
  PROVE  /\ job'[i].rec = job[i].rec /\ job'[i].status = job[i].status
         /\ i # j => job'[i] = job[i]
         /\ i = j => job'[i].q = "pending" /\ job'[i].retry = "later" /\ job'[i].attempts = attempts
  <1>1. job' = [job EXCEPT ![j] = [@ EXCEPT !.q = "pending", !.retry = "later",
                                            !.attempts = attempts]]
    BY DEF SetQdrantPending
  <1>. QED BY <1>1 DEF TypeOK, JobState

LEMMA FailedRows ==
  ASSUME TypeOK, NEW j, NEW attempts, SetQdrantFailed(j, attempts), NEW i \in Ids
  PROVE  /\ job'[i].rec = job[i].rec /\ job'[i].status = job[i].status
         /\ i # j => job'[i] = job[i]
         /\ i = j => job'[i].q = "failed" /\ job'[i].retry = "null" /\ job'[i].attempts = attempts
  <1>1. job' = [job EXCEPT ![j] = [@ EXCEPT !.q = "failed", !.retry = "null",
                                            !.attempts = attempts]]
    BY DEF SetQdrantFailed
  <1>. QED BY <1>1 DEF TypeOK, JobState

LEMMA CompletedRows ==
  ASSUME TypeOK, NEW j, SetQdrantCompleted(j), NEW i \in Ids
  PROVE  /\ job'[i].rec = job[i].rec /\ job'[i].status = job[i].status
         /\ i # j => job'[i] = job[i]
         /\ i = j => job'[i].q = "completed" /\ job'[i].retry = "null"
  <1>1. job' = [job EXCEPT ![j] = [@ EXCEPT !.q = "completed", !.retry = "null"]]
    BY DEF SetQdrantCompleted
  <1>. QED BY <1>1 DEF TypeOK, JobState

LEMMA StatusRows ==
  ASSUME TypeOK, NEW j, job' = [job EXCEPT ![j].status = "completed"], NEW i \in Ids
  PROVE  /\ job'[i].rec = job[i].rec /\ job'[i].q = job[i].q
         /\ job'[i].retry = job[i].retry /\ job'[i].attempts = job[i].attempts
         /\ i # j => job'[i] = job[i]
  BY DEF TypeOK, JobState

LEMMA LoadChunksLocals ==
  ASSUME TypeOK, NEW s \in Sweepers, NEW j \in Ids, LoadChunks(s, j)
  PROVE  /\ sweeper[s].pc = "next" /\ j \in sweeper[s].queue
         /\ \A t \in Sweepers \ {s} : sweeper'[t] = sweeper[t]
         /\ sweeper'[s].tries = sweeper[s].tries
         /\ sweeper'[s].job = j
         /\ sweeper'[s].queue = sweeper[s].queue \ {j}
         /\ \/ sweeper'[s].pc = "embed" /\ sweeper'[s].set \in StoredOf(job[j].rec)
            \/ /\ sweeper'[s].pc = "markQdrant" /\ sweeper'[s].set = NoId
               /\ StoredOf(job[j].rec) = {}
            \/ sweeper'[s].pc = "retry" /\ sweeper'[s].set = NoId
  <1> DEFINE load(pc, g) == [sweeper EXCEPT ![s].pc = pc, ![s].job = j,
                                            ![s].set = g, ![s].queue = @ \ {j}]
  <1>1. \A pc, g : /\ \A t \in Sweepers \ {s} : load(pc, g)[t] = sweeper[t]
                   /\ load(pc, g)[s].tries = sweeper[s].tries
                   /\ load(pc, g)[s].pc = pc /\ load(pc, g)[s].set = g
                   /\ load(pc, g)[s].job = j
                   /\ load(pc, g)[s].queue = sweeper[s].queue \ {j}
    BY DEF TypeOK, SweeperState
  <1>2. /\ sweeper[s].pc = "next" /\ j \in sweeper[s].queue
        /\ \/ \E g \in StoredOf(job[j].rec) : sweeper' = load("embed", g)
           \/ StoredOf(job[j].rec) = {} /\ sweeper' = load("markQdrant", NoId)
           \/ sweeper' = load("retry", NoId)
    BY DEF LoadChunks
  <1> HIDE DEF load
  <1>. QED BY <1>1, <1>2

-----------------------------------------------------------------------------
(***************************************************************************)
(* Giving up.                                                              *)
(***************************************************************************)
LEMMA GiveUpInit == Init => GiveUpInv
  BY InitType, ConstantsAssumption
     DEF Init, GiveUpInv, GiveUpBound, HeldBelowCap, Held, IdleSweeper, NoId, Ids

\* Requests schedule a job only with no attempt made.
LEMMA GiveUpClient ==
  ASSUME GiveUpInv, NEW c \in Clients, ClientStep(c)
  PROVE  GiveUpBound' /\ HeldBelowCap'
<1> USE ConstantsAssumption
<1>0. TypeOK /\ GiveUpBound /\ HeldBelowCap
  BY DEF GiveUpInv
<1>1. sweeper' = sweeper
  BY DEF ClientStep, CreateJob, InsertChunks, WriteAhead, CommitUpdate, Embed, ReplaceChunks,
         DeleteVectors, Upsert, UpdatePointIds, MarkQdrantCompleted, MarkCompleted,
         DeleteOwnPoints, MarkRetry, EraseRecord, DeletePoints
<1>2. HeldBelowCap'
  BY <1>0, <1>1 DEF HeldBelowCap, Held
<1>3. ASSUME NEW j \in Ids
      PROVE  \/ job'[j].q = job[j].q /\ job'[j].attempts = job[j].attempts
             \/ job'[j].q = "pending" /\ job'[j].attempts = 0
             \/ job'[j].q \in {"completed", "absent"}
  <2>1. CASE job' = job
    BY <2>1
  <2>2. CASE WriteAhead(c) \/ MarkRetry(c)
    BY <2>1, <2>2, <1>0, PendingRows DEF WriteAhead, MarkRetry
  <2>3. CASE CreateJob(c) \/ ReplaceChunks(c)
    <3>1. ASSUME NEW i \in Ids, NEW retry, job' = [job EXCEPT ![i] = NewJob(client[c].rec, retry)]
          PROVE  \/ job'[j] = job[j]
                 \/ job'[j].q = "pending" /\ job'[j].attempts = 0
      <4>1. job'[j] = IF i = j THEN NewJob(client[c].rec, retry) ELSE job[j]
        BY <1>0, <3>1 DEF TypeOK
      <4>. QED BY <4>1 DEF NewJob
    <3>2. CASE CreateJob(c)
      BY <2>1, <3>1, <3>2 DEF CreateJob
    <3>3. CASE ReplaceChunks(c)
      <4>1. job' = job \/ \E i \in Ids : job' = [job EXCEPT ![i] = NewJob(client[c].rec, "later")]
        BY <3>3 DEF ReplaceChunks
      <4>. QED BY <2>1, <3>1, <4>1
    <3>. QED BY <2>3, <3>2, <3>3
  <2>4. CASE MarkQdrantCompleted(c) \/ MarkCompleted(c)
    BY <2>1, <2>4, <1>0, CompletedRows, StatusRows DEF MarkQdrantCompleted, MarkCompleted
  <2>5. CASE EraseRecord(c)
    BY <2>5, <1>0 DEF EraseRecord, TypeOK, JobState
  <2>. QED
    BY <2>1, <2>2, <2>3, <2>4, <2>5
       DEF ClientStep, InsertChunks, CommitUpdate, Embed, DeleteVectors, Upsert,
           UpdatePointIds, DeleteOwnPoints, DeletePoints, stores, rows
<1>. QED BY <1>0, <1>2, <1>3 DEF GiveUpBound

\* Sweepers count from the attempts their claim returned.
LEMMA GiveUpSweeper ==
  ASSUME GiveUpInv, NEW s \in Sweepers, Claim(s) \/ SweeperStep(s)
  PROVE  GiveUpBound' /\ HeldBelowCap'
<1> USE ConstantsAssumption
<1>0. TypeOK /\ GiveUpBound /\ HeldBelowCap /\ sweeper[s] \in SweeperState
  BY DEF GiveUpInv, TypeOK
<1> DEFINE keeps == /\ \A t \in Sweepers \ {s} : sweeper'[t] = sweeper[t]
                    /\ \/ sweeper'[s].tries = sweeper[s].tries /\ Held(s)' \subseteq Held(s)
                       \/ sweeper'[s] = IdleSweeper
<1>1. ASSUME keeps PROVE HeldBelowCap'
  BY <1>0, <1>1 DEF HeldBelowCap, Held, IdleSweeper, NoId, Ids
<1>2. ASSUME NEW pc, SweepTo(s, pc) PROVE keeps
  BY <1>0, <1>2 DEF SweepTo, TypeOK, Held, SweeperState
<1>3. ASSUME SweepNext(s) PROVE keeps
  <2>1. \A t \in Sweepers \ {s} : sweeper'[t] = sweeper[t]
    BY <1>0, <1>3 DEF SweepNext, TypeOK
  <2>2. CASE sweeper[s].queue = {}
    <3>1. sweeper'[s] = IdleSweeper
      BY <1>0, <1>3, <2>2 DEF SweepNext, TypeOK
    <3>. QED BY <2>1, <3>1
  <2>3. CASE sweeper[s].queue # {}
    <3>1. sweeper'[s] = [sweeper[s] EXCEPT !.pc = "next", !.job = NoId, !.set = NoId]
      BY <1>0, <1>3, <2>3 DEF SweepNext, TypeOK
    <3>2. /\ sweeper'[s].tries = sweeper[s].tries
          /\ sweeper'[s].queue = sweeper[s].queue
          /\ sweeper'[s].job = NoId
      BY <1>0, <3>1 DEF SweeperState
    <3>3. Held(s)' \subseteq Held(s)
      BY <3>2 DEF Held, NoId, Ids
    <3>. QED BY <2>1, <3>2, <3>3
  <2>. QED BY <2>2, <2>3
<1> HIDE DEF keeps
<1>4. CASE Claim(s)
  <2>1. PICK batch \in SUBSET Due :
          /\ job' = [j \in Ids |-> IF j \in batch
                                   THEN [job[j] EXCEPT !.retry = "later"] ELSE job[j]]
          /\ sweeper' = [sweeper EXCEPT ![s] =
                [IdleSweeper EXCEPT !.pc = "next", !.queue = batch,
                    !.tries = [j \in Ids |-> IF j \in batch THEN job[j].attempts ELSE 0]]]
    BY <1>4 DEF Claim
  <2>2. \A j \in batch : j \in Ids /\ job[j].attempts < MaxAttempts
    BY <1>0 DEF GiveUpBound, Due
  <2>3. Held(s)' = batch /\ \A t \in Sweepers \ {s} : Held(t)' = Held(t)
    BY <1>0, <2>1 DEF TypeOK, Held, IdleSweeper, NoId, Ids
  <2>4. sweeper'[s].tries = [j \in Ids |-> IF j \in batch THEN job[j].attempts ELSE 0]
    BY <1>0, <2>1 DEF TypeOK, IdleSweeper
  <2>5. \A t \in Sweepers \ {s} : sweeper'[t] = sweeper[t]
    BY <1>0, <2>1 DEF TypeOK
  <2>6. HeldBelowCap'
    BY <1>0, <2>2, <2>3, <2>4, <2>5 DEF HeldBelowCap
  <2>7. \A j \in Ids : job'[j].q = job[j].q /\ job'[j].attempts = job[j].attempts
    BY <1>0, <2>1 DEF TypeOK, JobState
  <2>. QED BY <1>0, <2>6, <2>7 DEF GiveUpBound
<1>5. ASSUME NEW j \in Ids, LoadChunks(s, j)
      PROVE  GiveUpBound' /\ HeldBelowCap'
  <2>1. \A t \in Sweepers \ {s} : sweeper'[t] = sweeper[t]
    BY <1>0, <1>5 DEF LoadChunks, TypeOK
  <2>2. sweeper'[s].tries = sweeper[s].tries /\ sweeper'[s].job = j
        /\ sweeper'[s].queue = sweeper[s].queue \ {j} /\ j \in sweeper[s].queue
    BY <1>0, <1>5, LoadChunksLocals
  <2>3. keeps
    <3>1. Held(s)' \subseteq Held(s)
      BY <2>2 DEF Held
    <3>. QED BY <2>1, <2>2, <3>1 DEF keeps
  <2>. QED BY <1>0, <1>1, <1>5, <2>3 DEF LoadChunks, stores, GiveUpBound
<1>6. CASE SweepEmbed(s) \/ SweepDeleteVectors(s) \/ SweepUpsert(s) \/ SweepPointIds(s)
  <2>1. job' = job
    BY <1>6 DEF SweepEmbed, SweepDeleteVectors, SweepUpsert, SweepPointIds, stores, rows
  <2>2. \E pc : SweepTo(s, pc)
    <3>1. CASE SweepEmbed(s) \/ SweepPointIds(s)
      BY <3>1 DEF SweepEmbed, SweepPointIds
    <3>2. CASE SweepDeleteVectors(s)
      BY <3>2 DEF SweepDeleteVectors
    <3>3. CASE SweepUpsert(s)
      BY <3>3 DEF SweepUpsert
    <3>. QED BY <1>6, <3>1, <3>2, <3>3
  <2>. QED BY <1>0, <1>1, <1>2, <2>1, <2>2 DEF GiveUpBound
<1>7. CASE SweepMarkCompleted(s)
  <2>1. \A j \in Ids : job'[j] = job[j] \/ job'[j].q = "completed"
    BY <1>0, <1>7, CompletedRows DEF SweepMarkCompleted
  <2>2. GiveUpBound'
    BY <1>0, <2>1 DEF GiveUpBound
  <2>. QED BY <1>1, <1>2, <1>3, <1>7, <2>2 DEF SweepMarkCompleted
<1>8. CASE SweepRetry(s)
  <2> DEFINE j == sweeper[s].job
             attempt == sweeper[s].tries[j] + 1
  <2>1. j \in Ids /\ attempt \in Nat /\ attempt <= MaxAttempts
    <3>1. j \in Ids
      BY <1>0, <1>8 DEF SweepRetry, Attempt, GivesUp, TypeOK, SweeperLocals
    <3>2. sweeper[s].tries[j] \in Nat
      BY <1>0, <3>1 DEF SweeperState
    <3>. QED BY <1>0, <3>1, <3>2 DEF HeldBelowCap, Held
  <2>2. CASE UNCHANGED job
    BY <1>0, <1>1, <1>3, <1>8, <2>2 DEF SweepRetry, Attempt, GivesUp, GiveUpBound
  <2>3. CASE IF attempt >= MaxAttempts THEN SetQdrantFailed(j, attempt)
                                       ELSE SetQdrantPending(j, attempt)
    <3>1. \A i \in Ids : \/ job'[i] = job[i]
                         \/ job'[i].q = "failed" /\ job'[i].attempts = MaxAttempts
                         \/ job'[i].q = "pending" /\ job'[i].attempts < MaxAttempts
      BY <1>0, <2>1, <2>3, PendingRows, FailedRows, ConstantsAssumption
    <3>2. GiveUpBound'
      BY <1>0, <3>1 DEF GiveUpBound
    <3>. QED BY <1>1, <1>3, <1>8, <3>2 DEF SweepRetry, Attempt, GivesUp
  <2>. QED BY <1>8, <2>2, <2>3 DEF SweepRetry, Attempt, GivesUp
<1>. QED BY <1>4, <1>5, <1>6, <1>7, <1>8 DEF SweeperStep

LEMMA GiveUpStep == GiveUpInv /\ [Next]_vars => GiveUpInv'
  <1> SUFFICES ASSUME GiveUpInv, [Next]_vars PROVE GiveUpInv'
    OBVIOUS
  <1>0. TypeOK /\ TypeOK' /\ GiveUpBound /\ HeldBelowCap
    BY NextType DEF GiveUpInv
  <1>1. CASE UNCHANGED vars
    BY <1>0, <1>1 DEF vars, GiveUpInv, GiveUpBound, HeldBelowCap, Held
  <1>2. ASSUME NEW c \in Clients, NEW r \in Records, ClientStart(c, r)
        PROVE  GiveUpInv'
    BY <1>0, <1>2 DEF ClientStart, AddMemory, ReadForUpdate, ArchiveRecord, stores,
                      GiveUpInv, GiveUpBound, HeldBelowCap, Held
  <1>3. ASSUME NEW j \in Ids, Elapse(j)
        PROVE  GiveUpInv'
    <2>1. \A i \in Ids : job'[i].q = job[i].q /\ job'[i].attempts = job[i].attempts
      BY <1>0, <1>3 DEF Elapse, TypeOK, JobState
    <2>. QED BY <1>0, <1>3, <2>1 DEF Elapse, GiveUpInv, GiveUpBound, HeldBelowCap, Held
  <1>4. CASE Crash
    <2>1. \A s \in Sweepers : sweeper'[s] = sweeper[s] \/ sweeper'[s] = IdleSweeper
      BY <1>0, <1>4 DEF Crash, TypeOK
    <2>2. HeldBelowCap'
      BY <1>0, <2>1 DEF HeldBelowCap, Held, IdleSweeper, NoId, Ids
    <2>. QED BY <1>0, <1>4, <2>2 DEF Crash, stores, GiveUpInv, GiveUpBound
  <1>. QED
    BY <1>0, <1>1, <1>2, <1>3, <1>4, GiveUpClient, GiveUpSweeper DEF Next, GiveUpInv

(***************************************************************************)
(* runIngestSweep gives a job up after exactly MaxAttempts passes, for any *)
(* number of sweepers, crashes between the claim and the mark included.    *)
(***************************************************************************)
THEOREM GivesUpAtBound == Spec => []GiveUpBound
  <1>1. Spec => []GiveUpInv
    BY GiveUpInit, GiveUpStep, PTL DEF Spec
  <1>. QED BY <1>1, PTL DEF GiveUpInv

-----------------------------------------------------------------------------
(***************************************************************************)
(* The ids a sequence hands out are fresh; what a step leaves of locals.   *)
(***************************************************************************)
LEMMA FreshSet ==
  ASSUME NEW g \in Ids, NextSet(g)
  PROVE  chunkSet[g].rec = NoRecord
  BY ConstantsAssumption DEF NextSet, Ids

LEMMA FreshJob ==
  ASSUME NEW j \in Ids, NextJob(j)
  PROVE  job[j].rec = NoRecord
  BY ConstantsAssumption DEF NextJob, Ids

LEMMA ProceedLocals ==
  ASSUME TypeOK, NEW c \in Clients, NEW pc, Proceed(c, pc)
  PROVE  /\ \A d \in Clients \ {c} : client'[d] = client[d]
         /\ \/ pc = "idle" /\ client'[c] = IdleClient
            \/ /\ pc # "idle" /\ client'[c].pc = pc
               /\ client'[c].op = client[c].op /\ client'[c].rec = client[c].rec
               /\ client'[c].set = client[c].set /\ client'[c].job = client[c].job
               /\ client'[c].ver = client[c].ver /\ client'[c].read = client[c].read
  <1>1. client' = [client EXCEPT ![c] = At(client[c], pc)]
    BY DEF Proceed
  <1>2. pc # "idle" => At(client[c], pc) = [client[c] EXCEPT !.pc = pc]
    BY DEF At
  <1>. QED BY <1>1, <1>2 DEF At, TypeOK, ClientState

LEMMA StartLocals ==
  ASSUME TypeOK, NEW c \in Clients, NEW r \in Records, ClientStart(c, r)
  PROVE  /\ \A d \in Clients \ {c} : client'[d] = client[d]
         /\ \/ client'[c] = client[c]
            \/ /\ client'[c].rec = r /\ client'[c].job = NoId
               /\ client'[c].set = NoId \/ client'[c].op = "delete"
               /\ client'[c].pc \in {"create", "commit", "deletePoints"}
<1>1. ASSUME NEW k, client' = [client EXCEPT ![c] = k], k.rec = r, k.job = NoId,
             k.set = NoId \/ k.op = "delete", k.pc \in {"create", "commit", "deletePoints"}
      PROVE  /\ \A d \in Clients \ {c} : client'[d] = client[d]
             /\ client'[c] = k
  BY <1>1 DEF TypeOK
<1>2. CASE UNCHANGED client
  BY <1>2
<1>3. CASE AddMemory(c, r)
  <2> DEFINE k == [IdleClient EXCEPT !.pc = "create", !.op = "write", !.rec = r, !.ver = 1]
  <2>1. k.rec = r /\ k.job = NoId /\ k.set = NoId /\ k.pc = "create"
    BY DEF IdleClient
  <2>2. client' = [client EXCEPT ![c] = k]
    BY <1>3 DEF AddMemory
  <2> HIDE DEF k
  <2>. QED BY <1>1, <2>1, <2>2
<1>4. CASE ReadForUpdate(c, r)
  <2> DEFINE k == [IdleClient EXCEPT !.pc = "commit", !.op = "update", !.rec = r,
                                     !.read = record[r].state]
  <2>1. k.rec = r /\ k.job = NoId /\ k.set = NoId /\ k.pc = "commit"
    BY DEF IdleClient
  <2>2. client' = [client EXCEPT ![c] = k]
    BY <1>4 DEF ReadForUpdate
  <2> HIDE DEF k
  <2>. QED BY <1>1, <2>1, <2>2
<1>5. CASE ArchiveRecord(c, r)
  <2> DEFINE k(g) == [IdleClient EXCEPT !.pc = "deletePoints", !.op = "delete",
                                        !.rec = r, !.set = g]
  <2>1. \A g : k(g).rec = r /\ k(g).job = NoId /\ k(g).op = "delete" /\ k(g).pc = "deletePoints"
    BY DEF IdleClient
  <2>2. UNCHANGED client \/ \E g : client' = [client EXCEPT ![c] = k(g)]
    BY <1>5 DEF ArchiveRecord
  <2> HIDE DEF k
  <2>. QED BY <1>1, <1>2, <2>1, <2>2
<1>. QED BY <1>3, <1>4, <1>5 DEF ClientStart

LEMMA SweepToLocals ==
  ASSUME TypeOK, NEW s \in Sweepers, NEW pc, SweepTo(s, pc)
  PROVE  /\ \A t \in Sweepers \ {s} : sweeper'[t] = sweeper[t]
         /\ sweeper'[s].pc = pc /\ sweeper'[s].queue = sweeper[s].queue
         /\ sweeper'[s].job = sweeper[s].job /\ sweeper'[s].set = sweeper[s].set
         /\ Held(s)' = Held(s)
  BY DEF SweepTo, TypeOK, SweeperState, Held

LEMMA SweepNextLocals ==
  ASSUME TypeOK, NEW s \in Sweepers, SweepNext(s)
  PROVE  /\ \A t \in Sweepers \ {s} : sweeper'[t] = sweeper[t]
         /\ sweeper'[s].set = NoId
         /\ Held(s)' \subseteq Held(s)
  <1> DEFINE next == [sweeper[s] EXCEPT !.pc = "next", !.job = NoId, !.set = NoId]
  <1>1. sweeper' = [sweeper EXCEPT ![s] = IF sweeper[s].queue = {} THEN IdleSweeper ELSE next]
    BY DEF SweepNext
  <1>2. next.queue = sweeper[s].queue /\ next.job = NoId /\ next.set = NoId
    BY DEF TypeOK, SweeperState
  <1> HIDE DEF next
  <1>. QED BY <1>1, <1>2 DEF TypeOK, IdleSweeper, Held, NoId, Ids

-----------------------------------------------------------------------------
(***************************************************************************)
(* References and the one chunk set of a record.                           *)
(***************************************************************************)
LEMMA StoreInit == Init => StoreInv
  BY InitType, ConstantsAssumption
     DEF Init, StoreInv, References, OneChunkSetPerRecord, Present, Held, IdleClient,
         IdleSweeper, NoId, Ids

\* Steps that add no record, chunk set or job.
LEMMA ReferencesKept ==
  ASSUME StoreInv, UNCHANGED chunkSet,
         \A r \in Records : record'[r].state = "none" => record[r].state = "none",
         \A j \in Ids : job'[j].rec = job[j].rec /\ (Present(j)' => Present(j)),
         \A g \in points' : chunkSet[g].rec \in Records,
         \A c \in Clients :
            \/ client'[c] = IdleClient
            \/ /\ client'[c].pc = "create" => client[c].pc = "create"
               /\ client'[c].op = client[c].op /\ client'[c].rec = client[c].rec
               /\ client'[c].set = client[c].set /\ client'[c].job = client[c].job,
         \A s \in Sweepers :
            /\ \A j \in Held(s)' : j \in Ids /\ job[j].rec \in Records
            /\ sweeper'[s].set \in Ids => chunkSet[sweeper'[s].set].rec \in Records
  PROVE  References'
<1>0. TypeOK /\ References /\ NoRecord \notin Records
  BY ConstantsAssumption DEF StoreInv
<1>1. /\ IdleClient.rec = NoRecord /\ IdleClient.op = "none"
  BY DEF IdleClient
<1>2. \A r \in Records : record'[r].state = "none" =>
        /\ \A j \in Ids : job'[j].rec # r
        /\ \A c \in Clients : client'[c].rec # r
  BY <1>0, <1>1 DEF References
<1>3. \A j \in Ids : Present(j)' => job'[j].rec \in Records
  BY <1>0 DEF References
<1>4. \A g \in Ids : chunkSet'[g].rec \in Records =>
        /\ chunkSet'[g].job \in Ids
        /\ job'[chunkSet'[g].job].rec = chunkSet'[g].rec
  BY <1>0 DEF References
<1>5. \A c \in Clients : client'[c].op \in {"write", "update"} =>
        /\ client'[c].pc = "create" => client'[c].set = NoId
        /\ client'[c].job \in Ids => job'[client'[c].job].rec = client'[c].rec
        /\ client'[c].set \in Ids => /\ chunkSet'[client'[c].set].rec = client'[c].rec
                                     /\ chunkSet'[client'[c].set].job = client'[c].job
  BY <1>0, <1>1 DEF References
<1>6. \A s \in Sweepers : \A j \in Held(s)' : job'[j].rec \in Records
  OBVIOUS
<1>. QED BY <1>2, <1>3, <1>4, <1>5, <1>6 DEF References

\* Requests that go on, throw or finish, and whatever leaves more gone.
LEMMA StoreKept ==
  ASSUME StoreInv, NEW c \in Clients, NEW pc, Proceed(c, pc), pc # "create",
         UNCHANGED <<chunkSet, sweeper>>, stored' \subseteq stored,
         \A r \in Records : record'[r].state = "none" => record[r].state = "none",
         \A g \in stored' : Exists(chunkSet[g].rec)',
         \A j \in Ids : job'[j].rec = job[j].rec /\ (Present(j)' => Present(j)),
         \A g \in points' : chunkSet[g].rec \in Records
  PROVE  References' /\ OneChunkSetPerRecord'
<1>0. TypeOK /\ References /\ OneChunkSetPerRecord
  BY DEF StoreInv
<1>1. \A s \in Sweepers :
         /\ \A j \in Held(s)' : j \in Ids /\ job[j].rec \in Records
         /\ sweeper'[s].set \in Ids => chunkSet[sweeper'[s].set].rec \in Records
  BY <1>0 DEF References, Held, TypeOK, SweeperState
<1>2. \A d \in Clients :
         \/ client'[d] = IdleClient
         \/ /\ client'[d].pc = "create" => client[d].pc = "create"
            /\ client'[d].op = client[d].op /\ client'[d].rec = client[d].rec
            /\ client'[d].set = client[d].set /\ client'[d].job = client[d].job
  BY <1>0, ProceedLocals
<1>3. References'
  BY <1>1, <1>2, ReferencesKept
<1>4. OneChunkSetPerRecord'
  BY <1>0 DEF OneChunkSetPerRecord
<1>. QED BY <1>3, <1>4

\* The same when memory_records, memory_chunks and ingest_jobs rows all stay.
LEMMA StoreSame ==
  ASSUME StoreInv, NEW c \in Clients, NEW pc, Proceed(c, pc), pc # "create",
         UNCHANGED <<record, chunkSet, stored, sweeper>>,
         \A j \in Ids : job'[j].rec = job[j].rec /\ (Present(j)' => Present(j)),
         \A g \in points' : chunkSet[g].rec \in Records
  PROVE  References' /\ OneChunkSetPerRecord'
<1>1. \A g \in stored' : Exists(chunkSet[g].rec)'
  BY DEF StoreInv, OneChunkSetPerRecord, Exists
<1>. QED BY <1>1, StoreKept

\* The same when only the vector index and the request change.
LEMMA StoreVector ==
  ASSUME StoreInv, NEW c \in Clients, NEW pc, Proceed(c, pc), pc # "create",
         UNCHANGED <<record, chunkSet, stored, job, sweeper>>,
         \A g \in points' : chunkSet[g].rec \in Records
  PROVE  References' /\ OneChunkSetPerRecord'
  BY StoreSame DEF Present

LEMMA StoreThrow ==
  ASSUME StoreInv, NEW c \in Clients, Throw(c),
         UNCHANGED <<record, chunkSet, stored, points, job, sweeper>>
  PROVE  References' /\ OneChunkSetPerRecord'
  BY StoreVector DEF Throw, Catch, StoreInv, References

LEMMA StoreClient ==
  ASSUME StoreInv, NEW c \in Clients, ClientStep(c)
  PROVE  References' /\ OneChunkSetPerRecord'
<1> USE ConstantsAssumption
<1> DEFINE k == client[c]
<1>0. /\ TypeOK /\ References /\ OneChunkSetPerRecord
      /\ k \in ClientState /\ ClientLocals(k)
      /\ \A g \in points : chunkSet[g].rec \in Records
  BY DEF StoreInv, TypeOK, References
<1>1. CASE CreateJob(c)
  <2>1. CASE Throw(c) /\ UNCHANGED job
    BY <2>1, <1>1, StoreThrow DEF CreateJob
  <2>2. ASSUME NEW j \in Ids, NextJob(j), Exists(k.rec),
               job' = [job EXCEPT ![j] = NewJob(k.rec, "null")],
               client' = [client EXCEPT ![c].pc = "insert", ![c].job = j]
        PROVE  References' /\ OneChunkSetPerRecord'
    <3>1. /\ k.rec \in Records /\ k.op = "write" /\ k.set = NoId
          /\ record[k.rec].state # "none" /\ job[j].rec = NoRecord
      BY <1>0, <1>1, <2>2, FreshJob
         DEF CreateJob, ClientState, ClientLocals, UpdatePcs, StoredPcs, OpKinds, Exists, References
    <3>2. \A i \in Ids : job'[i] = IF i = j THEN NewJob(k.rec, "null") ELSE job[i]
      BY <1>0, <2>2 DEF TypeOK
    <3>3. NewJob(k.rec, "null").rec = k.rec
      BY DEF NewJob
    <3>4. /\ \A d \in Clients \ {c} : client'[d] = client[d]
          /\ client'[c].pc = "insert" /\ client'[c].op = "write" /\ client'[c].job = j
          /\ client'[c].rec = k.rec /\ client'[c].set = NoId
      BY <1>0, <2>2, <3>1 DEF TypeOK, ClientState
    <3>5. /\ UNCHANGED <<record, chunkSet, stored, points, sweeper>>
          /\ Ids = 1 .. MaxIds /\ NoId = 0
      BY <1>1 DEF CreateJob, Ids, NoId
    <3>6. OneChunkSetPerRecord'
      BY <1>0, <3>5 DEF OneChunkSetPerRecord, Exists
    <3>7. References'
      <4>1. \A r \in Records : record'[r].state = "none" =>
              /\ \A i \in Ids : job'[i].rec # r
              /\ \A d \in Clients : client'[d].rec # r
        BY <1>0, <3>1, <3>2, <3>3, <3>4, <3>5 DEF References
      <4>2. \A i \in Ids : Present(i)' => job'[i].rec \in Records
        BY <1>0, <3>1, <3>2, <3>3, <3>4, <3>5 DEF References, Present
      <4>3. \A h \in Ids : chunkSet'[h].rec \in Records =>
              /\ chunkSet'[h].job \in Ids
              /\ job'[chunkSet'[h].job].rec = chunkSet'[h].rec
        BY <1>0, <3>1, <3>2, <3>3, <3>4, <3>5 DEF References
      <4>4. \A h \in points' : chunkSet'[h].rec \in Records
        BY <1>0, <3>1, <3>2, <3>3, <3>4, <3>5 DEF References, TypeOK
      <4>5. \A d \in Clients : client'[d].op \in {"write", "update"} =>
              /\ client'[d].pc = "create" => client'[d].set = NoId
              /\ client'[d].job \in Ids => job'[client'[d].job].rec = client'[d].rec
              /\ client'[d].set \in Ids => /\ chunkSet'[client'[d].set].rec = client'[d].rec
                                           /\ chunkSet'[client'[d].set].job = client'[d].job
        <5>1. \A d \in Clients : client[d].op \in {"write", "update"} => client[d].rec # NoRecord
          BY <1>0 DEF TypeOK, ClientLocals
        <5>. QED BY <1>0, <3>1, <3>2, <3>3, <3>4, <3>5, <5>1 DEF References, NoId, Ids
      <4>6. \A t \in Sweepers :
              /\ \A i \in Held(t)' : job'[i].rec \in Records
              /\ sweeper'[t].set \in Ids => chunkSet'[sweeper'[t].set].rec \in Records
        <5>1. \A t \in Sweepers : Held(t) \subseteq Ids /\ Held(t)' = Held(t)
          BY <1>0, <3>1, <3>2, <3>3, <3>4, <3>5 DEF Held, TypeOK, SweeperState
        <5>. QED BY <1>0, <3>1, <3>2, <3>3, <3>4, <3>5, <5>1 DEF References
      <4>. QED BY <4>1, <4>2, <4>3, <4>4, <4>5, <4>6 DEF References
    <3>. QED BY <3>6, <3>7
  <2>. QED BY <2>1, <2>2, <1>1 DEF CreateJob
<1>2. CASE InsertChunks(c)
  <2>1. CASE Throw(c) /\ UNCHANGED <<chunkSet, stored>>
    BY <2>1, <1>2, StoreThrow DEF InsertChunks
  <2>2. ASSUME NEW g \in Ids, NextSet(g), Exists(k.rec), StoredOf(k.rec) = {},
               chunkSet' = [chunkSet EXCEPT ![g] =
                  [rec |-> k.rec, ver |-> k.ver, job |-> k.job]],
               stored' = stored \cup {g},
               client' = [client EXCEPT ![c].pc = "writeAhead", ![c].set = g]
        PROVE  References' /\ OneChunkSetPerRecord'
    <3>1. /\ k.rec \in Records /\ k.op = "write" /\ k.job \in Ids
          /\ chunkSet[g].rec = NoRecord /\ job[k.job].rec = k.rec
      BY <1>0, <1>2, <2>2, FreshSet
         DEF InsertChunks, ClientState, ClientLocals, UpdatePcs, StoredPcs, OpKinds, References
    <3>2. \A h \in Ids : chunkSet'[h] = IF h = g THEN [rec |-> k.rec, ver |-> k.ver, job |-> k.job]
                                        ELSE chunkSet[h]
      BY <1>0, <2>2 DEF TypeOK
    <3>4. /\ \A d \in Clients \ {c} : client'[d] = client[d]
          /\ client'[c].pc = "writeAhead" /\ client'[c].op = "write" /\ client'[c].job = k.job
          /\ client'[c].rec = k.rec /\ client'[c].set = g
      BY <1>0, <2>2, <3>1 DEF TypeOK, ClientState
    <3>5. UNCHANGED <<record, job, points, sweeper>>
      BY <1>2 DEF InsertChunks
    <3>6. OneChunkSetPerRecord'
      BY <1>0, <2>2, <3>1, <3>2, <3>5 DEF OneChunkSetPerRecord, Exists, StoredOf, SetsOf, TypeOK
    <3>7. References'
      <4>1. \A r \in Records : record'[r].state = "none" =>
              /\ \A i \in Ids : job'[i].rec # r
              /\ \A d \in Clients : client'[d].rec # r
        <5>1. \A d \in Clients : client'[d].rec = client[d].rec
          BY <3>4
        <5>. QED BY <1>0, <3>1, <3>5, <5>1 DEF References
      <4>2. \A i \in Ids : Present(i)' => job'[i].rec \in Records
        BY <1>0, <2>2, <3>1, <3>2, <3>4, <3>5 DEF References, Present
      <4>3. \A h \in Ids : chunkSet'[h].rec \in Records =>
              /\ chunkSet'[h].job \in Ids
              /\ job'[chunkSet'[h].job].rec = chunkSet'[h].rec
        BY <1>0, <2>2, <3>1, <3>2, <3>4, <3>5 DEF References
      <4>4. \A h \in points' : chunkSet'[h].rec \in Records
        BY <1>0, <2>2, <3>1, <3>2, <3>4, <3>5 DEF References, TypeOK
      <4>5. \A d \in Clients : client'[d].op \in {"write", "update"} =>
              /\ client'[d].pc = "create" => client'[d].set = NoId
              /\ client'[d].job \in Ids => job'[client'[d].job].rec = client'[d].rec
              /\ client'[d].set \in Ids => /\ chunkSet'[client'[d].set].rec = client'[d].rec
                                           /\ chunkSet'[client'[d].set].job = client'[d].job
        <5>1. \A d \in Clients : client[d].op \in {"write", "update"} => client[d].rec # NoRecord
          BY <1>0 DEF TypeOK, ClientLocals
        <5>2. /\ job'[client'[c].job].rec = client'[c].rec
              /\ chunkSet'[client'[c].set].rec = client'[c].rec
              /\ chunkSet'[client'[c].set].job = client'[c].job
          BY <1>0, <2>2, <3>1, <3>2, <3>4, <3>5 DEF NewJob
        <5>3. \A i \in Ids : job[i].rec # NoRecord => job'[i].rec = job[i].rec
          BY <3>1, <3>5
        <5>4. \A h \in Ids : chunkSet[h].rec # NoRecord => chunkSet'[h] = chunkSet[h]
          BY <3>1, <3>2
        <5>5. client'[c].pc # "create"
          BY <3>4
        <5>6. \A d \in Clients \ {c} : client'[d] = client[d]
          BY <3>4
        <5>. QED BY <1>0, <5>1, <5>2, <5>3, <5>4, <5>5, <5>6 DEF References
      <4>6. \A t \in Sweepers :
              /\ \A i \in Held(t)' : job'[i].rec \in Records
              /\ sweeper'[t].set \in Ids => chunkSet'[sweeper'[t].set].rec \in Records
        <5>1. \A t \in Sweepers : Held(t) \subseteq Ids /\ Held(t)' = Held(t)
          BY <1>0, <2>2, <3>1, <3>2, <3>4, <3>5 DEF Held, TypeOK, SweeperState
        <5>. QED BY <1>0, <2>2, <3>1, <3>2, <3>4, <3>5, <5>1 DEF References
      <4>. QED BY <4>1, <4>2, <4>3, <4>4, <4>5, <4>6 DEF References
    <3>. QED BY <3>6, <3>7
  <2>. QED BY <2>1, <2>2, <1>2 DEF InsertChunks
<1>3. CASE ReplaceChunks(c)
  <2>1. CASE Throw(c) /\ UNCHANGED <<chunkSet, stored, pointIds, job>>
    BY <2>1, <1>3, StoreThrow DEF ReplaceChunks
  <2>2. ASSUME NEW g \in Ids, NEW j \in Ids, NextSet(g), NextJob(j), Exists(k.rec),
               chunkSet' = [chunkSet EXCEPT ![g] = [rec |-> k.rec, ver |-> k.ver, job |-> j]],
               stored' = (stored \ StoredOf(k.rec)) \cup {g},
               job' = [job EXCEPT ![j] = NewJob(k.rec, "later")],
               client' = [client EXCEPT ![c].pc = "deleteVectors", ![c].set = g, ![c].job = j]
        PROVE  References' /\ OneChunkSetPerRecord'
    <3>1. /\ k.rec \in Records /\ k.op = "update"
          /\ chunkSet[g].rec = NoRecord /\ job[j].rec = NoRecord
          /\ record[k.rec].state # "none"
      BY <1>0, <1>3, <2>2, FreshSet, FreshJob
         DEF ReplaceChunks, ClientState, ClientLocals, WritePcs, StoredPcs, OpKinds, Exists
    <3>2. \A h \in Ids : chunkSet'[h] = IF h = g THEN [rec |-> k.rec, ver |-> k.ver, job |-> j]
                                        ELSE chunkSet[h]
      BY <1>0, <2>2 DEF TypeOK
    <3>3. /\ \A i \in Ids : job'[i] = IF i = j THEN NewJob(k.rec, "later") ELSE job[i]
          /\ NewJob(k.rec, "later").rec = k.rec
      BY <1>0, <2>2 DEF TypeOK, NewJob
    <3>4. /\ \A d \in Clients \ {c} : client'[d] = client[d]
          /\ client'[c].pc = "deleteVectors" /\ client'[c].op = "update" /\ client'[c].job = j
          /\ client'[c].rec = k.rec /\ client'[c].set = g
      BY <1>0, <2>2, <3>1 DEF TypeOK, ClientState
    <3>5. UNCHANGED <<record, points, sweeper>>
      BY <1>3 DEF ReplaceChunks
    <3>6. OneChunkSetPerRecord'
      BY <1>0, <2>2, <3>1, <3>2, <3>5 DEF OneChunkSetPerRecord, Exists, StoredOf, SetsOf, TypeOK
    <3>7. References'
      <4>1. \A r \in Records : record'[r].state = "none" =>
              /\ \A i \in Ids : job'[i].rec # r
              /\ \A d \in Clients : client'[d].rec # r
        <5>1. \A d \in Clients : client'[d].rec = client[d].rec
          BY <3>4
        <5>. QED BY <1>0, <3>1, <3>3, <3>5, <5>1 DEF References
      <4>2. \A i \in Ids : Present(i)' => job'[i].rec \in Records
        BY <1>0, <2>2, <3>1, <3>2, <3>3, <3>4, <3>5 DEF References, Present
      <4>3. \A h \in Ids : chunkSet'[h].rec \in Records =>
              /\ chunkSet'[h].job \in Ids
              /\ job'[chunkSet'[h].job].rec = chunkSet'[h].rec
        BY <1>0, <2>2, <3>1, <3>2, <3>3, <3>4, <3>5 DEF References
      <4>4. \A h \in points' : chunkSet'[h].rec \in Records
        BY <1>0, <2>2, <3>1, <3>2, <3>3, <3>4, <3>5 DEF References, TypeOK
      <4>5. \A d \in Clients : client'[d].op \in {"write", "update"} =>
              /\ client'[d].pc = "create" => client'[d].set = NoId
              /\ client'[d].job \in Ids => job'[client'[d].job].rec = client'[d].rec
              /\ client'[d].set \in Ids => /\ chunkSet'[client'[d].set].rec = client'[d].rec
                                           /\ chunkSet'[client'[d].set].job = client'[d].job
        <5>1. \A d \in Clients : client[d].op \in {"write", "update"} => client[d].rec # NoRecord
          BY <1>0 DEF TypeOK, ClientLocals
        <5>2. /\ job'[client'[c].job].rec = client'[c].rec
              /\ chunkSet'[client'[c].set].rec = client'[c].rec
              /\ chunkSet'[client'[c].set].job = client'[c].job
          BY <1>0, <2>2, <3>1, <3>2, <3>3, <3>4, <3>5 DEF NewJob
        <5>3. \A i \in Ids : job[i].rec # NoRecord => job'[i].rec = job[i].rec
          BY <3>3, <3>1, <3>5
        <5>4. \A h \in Ids : chunkSet[h].rec # NoRecord => chunkSet'[h] = chunkSet[h]
          BY <3>1, <3>2
        <5>5. client'[c].pc # "create"
          BY <3>4
        <5>6. \A d \in Clients \ {c} : client'[d] = client[d]
          BY <3>4
        <5>. QED BY <1>0, <5>1, <5>2, <5>3, <5>4, <5>5, <5>6 DEF References
      <4>6. \A t \in Sweepers :
              /\ \A i \in Held(t)' : job'[i].rec \in Records
              /\ sweeper'[t].set \in Ids => chunkSet'[sweeper'[t].set].rec \in Records
        <5>1. \A t \in Sweepers : Held(t) \subseteq Ids /\ Held(t)' = Held(t)
          BY <1>0, <2>2, <3>1, <3>2, <3>3, <3>4, <3>5 DEF Held, TypeOK, SweeperState
        <5>. QED BY <1>0, <2>2, <3>1, <3>2, <3>3, <3>4, <3>5, <5>1 DEF References
      <4>. QED BY <4>1, <4>2, <4>3, <4>4, <4>5, <4>6 DEF References
    <3>. QED BY <3>6, <3>7
  <2>. QED BY <2>1, <2>2, <1>3 DEF ReplaceChunks
<1>4. CASE CommitUpdate(c)
  <2>1. CASE Throw(c) /\ UNCHANGED record
    BY <2>1, <1>4, StoreThrow DEF CommitUpdate
  <2>2. ASSUME Exists(k.rec),
               record' = [record EXCEPT ![k.rec].state = k.read,
                                        ![k.rec].ver = record[k.rec].ver + 1],
               client' = [client EXCEPT ![c].pc = "embed", ![c].ver = record[k.rec].ver + 1]
        PROVE  References' /\ OneChunkSetPerRecord'
    <3>1. k.read \in {"live", "archived"}
      BY <1>0, <1>4 DEF CommitUpdate, ClientState, ClientLocals, WritePcs, StoredPcs, OpKinds
    <3>2. \A r \in Records : record'[r].state = IF r = k.rec THEN k.read ELSE record[r].state
      BY <1>0, <2>2 DEF TypeOK, RecordState
    <3>3. /\ \A d \in Clients \ {c} : client'[d] = client[d]
          /\ client'[c].pc = "embed" /\ client'[c].op = k.op /\ client'[c].rec = k.rec
          /\ client'[c].set = k.set /\ client'[c].job = k.job
      BY <1>0, <2>2 DEF TypeOK, ClientState
    <3>4. UNCHANGED <<chunkSet, stored, points, job, sweeper>>
      BY <1>4 DEF CommitUpdate
    <3>5. OneChunkSetPerRecord'
      BY <1>0, <3>1, <3>2, <3>4 DEF OneChunkSetPerRecord, Exists
    <3>6. References'
      BY <1>0, <3>1, <3>2, <3>3, <3>4, ReferencesKept DEF Present, References, Held, TypeOK, SweeperState
    <3>. QED BY <3>5, <3>6
  <2>. QED BY <2>1, <2>2, <1>4 DEF CommitUpdate
<1>5. CASE EraseRecord(c)
  <2>1. CASE UNCHANGED <<record, stored, pointIds, job>>
    BY <2>1, <1>5, <1>0, StoreVector DEF EraseRecord
  <2>2. CASE /\ record' = [record EXCEPT ![k.rec].state = "gone"]
             /\ stored' = stored \ StoredOf(k.rec)
             /\ job' = [j \in Ids |-> IF job[j].rec = k.rec
                                      THEN [job[j] EXCEPT !.q = "absent"] ELSE job[j]]
    <3>1. \A r \in Records : record'[r].state = IF r = k.rec THEN "gone" ELSE record[r].state
      BY <1>0, <2>2 DEF TypeOK, RecordState
    <3>2. \A j \in Ids : job'[j].rec = job[j].rec /\ (Present(j)' => Present(j))
      BY <1>0, <2>2 DEF TypeOK, JobState, Present
    <3>3. \A g \in stored' : chunkSet[g].rec \in Records \ {k.rec} /\ Exists(chunkSet[g].rec)
      BY <1>0, <2>2 DEF OneChunkSetPerRecord, StoredOf, SetsOf, TypeOK
    <3>4. UNCHANGED <<chunkSet, points, sweeper>> /\ Proceed(c, "idle")
      BY <1>5 DEF EraseRecord
    <3>5. \A g \in stored' : Exists(chunkSet[g].rec)'
      BY <3>1, <3>3, <3>4 DEF Exists
    <3>. QED BY <1>0, <2>2, <3>1, <3>2, <3>4, <3>5, StoreKept
  <2>. QED BY <2>1, <2>2, <1>5 DEF EraseRecord
<1>6. CASE WriteAhead(c) \/ MarkRetry(c) \/ MarkQdrantCompleted(c) \/ MarkCompleted(c)
  <2>1. PICK pc : Proceed(c, pc) /\ pc # "create"
    BY <1>6 DEF WriteAhead, MarkRetry, MarkQdrantCompleted, MarkCompleted, Throw, Catch
  <2>2. UNCHANGED <<record, chunkSet, stored, points, sweeper>>
    BY <1>6 DEF WriteAhead, MarkRetry, MarkQdrantCompleted, MarkCompleted
  <2>3. \/ job' = job
        \/ SetQdrantPending(k.job, 0) /\ Present(k.job)
        \/ SetQdrantCompleted(k.job) /\ Present(k.job)
        \/ job' = [job EXCEPT ![k.job].status = "completed"]
    BY <1>6 DEF WriteAhead, MarkRetry, MarkQdrantCompleted, MarkCompleted
  <2>4. \A j \in Ids : job'[j].rec = job[j].rec /\ (Present(j)' => Present(j))
    BY <1>0, <2>3, PendingRows, CompletedRows, StatusRows DEF Present
  <2>. QED BY <1>0, <2>1, <2>2, <2>4, StoreSame
<1>7. CASE Embed(c) \/ DeleteVectors(c) \/ Upsert(c) \/ UpdatePointIds(c)
           \/ DeleteOwnPoints(c) \/ DeletePoints(c)
  <2>1. PICK pc : Proceed(c, pc) /\ pc # "create"
    BY <1>7 DEF Embed, DeleteVectors, Upsert, UpdatePointIds, DeleteOwnPoints, DeletePoints,
                Throw, Catch
  <2>2. UNCHANGED <<record, chunkSet, stored, job, sweeper>>
    BY <1>7 DEF Embed, DeleteVectors, Upsert, UpdatePointIds, DeleteOwnPoints, DeletePoints,
                stores, rows
  <2>3. \A g \in points' : g \in points \/ (Upsert(c) /\ g = k.set)
    <3>1. CASE Embed(c) \/ UpdatePointIds(c)
      BY <3>1 DEF Embed, UpdatePointIds, stores
    <3>2. CASE DeleteVectors(c)
      BY <3>2 DEF DeleteVectors, VectorCall
    <3>3. CASE Upsert(c)
      BY <3>3 DEF Upsert, VectorCall
    <3>4. CASE DeleteOwnPoints(c) \/ DeletePoints(c)
      BY <3>4 DEF DeleteOwnPoints, DeletePoints, VectorCall
    <3>. QED BY <1>7, <3>1, <3>2, <3>3, <3>4
  <2>4. Upsert(c) => chunkSet[k.set].rec \in Records
    BY <1>0 DEF Upsert, ClientState, ClientLocals, WritePcs, UpdatePcs, StoredPcs, OpKinds, References
  <2>. QED BY <1>0, <2>1, <2>2, <2>3, <2>4, StoreVector
<1>. QED BY <1>1, <1>2, <1>3, <1>4, <1>5, <1>6, <1>7 DEF ClientStep

LEMMA StoreStart ==
  ASSUME StoreInv, NEW c \in Clients, NEW r \in Records, ClientStart(c, r)
  PROVE  References' /\ OneChunkSetPerRecord'
<1> USE ConstantsAssumption
<1>0. /\ TypeOK /\ References /\ OneChunkSetPerRecord
      /\ UNCHANGED <<chunkSet, stored, points, job, sweeper>>
      /\ \A t \in Sweepers : Held(t) \subseteq Ids /\ Held(t)' = Held(t)
  BY DEF StoreInv, ClientStart, AddMemory, ReadForUpdate, ArchiveRecord, stores, Held, TypeOK,
         SweeperState
<1>1. /\ \A q \in Records \ {r} : record'[q].state = record[q].state
      /\ record'[r].state # "none"
      /\ Exists(r) => Exists(r)'
  <2>1. \/ record' = [record EXCEPT ![r] = [state |-> "live", ver |-> 1]]
        \/ record' = [record EXCEPT ![r].state = "archived"]
        \/ record' = record /\ record[r].state # "none"
    BY DEF ClientStart, AddMemory, ReadForUpdate, ArchiveRecord, stores, Exists
  <2>. QED BY <1>0, <2>1 DEF Exists, TypeOK, RecordState
<1>2. /\ \A d \in Clients \ {c} : client'[d] = client[d]
      /\ \/ client'[c] = client[c]
         \/ /\ client'[c].rec = r /\ client'[c].job = NoId
            /\ client'[c].set = NoId \/ client'[c].op = "delete"
  BY <1>0, StartLocals
<1>3. OneChunkSetPerRecord'
  BY <1>0, <1>1 DEF OneChunkSetPerRecord, Exists
<1>4. \A q \in Records : record'[q].state = "none" =>
        /\ \A i \in Ids : job'[i].rec # q
        /\ \A d \in Clients : client'[d].rec # q
  BY <1>0, <1>1, <1>2 DEF References
<1>5. \A d \in Clients : client'[d].op \in {"write", "update"} =>
        /\ client'[d].pc = "create" => client'[d].set = NoId
        /\ client'[d].job \in Ids => job'[client'[d].job].rec = client'[d].rec
        /\ client'[d].set \in Ids => /\ chunkSet'[client'[d].set].rec = client'[d].rec
                                     /\ chunkSet'[client'[d].set].job = client'[d].job
  BY <1>0, <1>2 DEF References, NoId, Ids
<1>6. References'
  BY <1>0, <1>4, <1>5 DEF References, Present
<1>. QED BY <1>3, <1>6

\* Sweepers change no memory_chunks row and no record.
LEMMA StoreSweeper ==
  ASSUME StoreInv, NEW s \in Sweepers, Claim(s) \/ SweeperStep(s)
  PROVE  References' /\ OneChunkSetPerRecord'
<1> USE ConstantsAssumption
<1>0. /\ TypeOK /\ References /\ OneChunkSetPerRecord
      /\ UNCHANGED <<record, chunkSet, stored, client>>
      /\ \A t \in Sweepers : Held(t) \subseteq Ids
  BY DEF StoreInv, Claim, SweeperStep, LoadChunks, SweepEmbed, SweepDeleteVectors, SweepUpsert,
         SweepPointIds, SweepMarkCompleted, SweepRetry, Attempt, GivesUp, stores, rows, Held, TypeOK, SweeperState
<1>1. OneChunkSetPerRecord'
  BY <1>0 DEF OneChunkSetPerRecord, Exists
<1> DEFINE jobsKept == \A j \in Ids : job'[j].rec = job[j].rec /\ (Present(j)' => Present(j))
           pointsKept == \A g \in points' : chunkSet[g].rec \in Records
           localsOK == \A t \in Sweepers :
              /\ \A j \in Held(t)' : j \in Ids /\ job[j].rec \in Records
              /\ sweeper'[t].set \in Ids => chunkSet[sweeper'[t].set].rec \in Records
<1>2. ASSUME jobsKept, pointsKept, localsOK PROVE References'
  BY <1>0, <1>2, ReferencesKept
<1>3. ASSUME NEW pc, SweepTo(s, pc) PROVE localsOK
  BY <1>0, <1>3, SweepToLocals DEF Held, References
<1>4. ASSUME SweepNext(s) PROVE localsOK
  BY <1>0, <1>4, SweepNextLocals DEF Held, References, NoId, Ids
<1>5. UNCHANGED job => jobsKept
  BY DEF Present
<1>6. UNCHANGED points => pointsKept
  BY <1>0 DEF References
<1> HIDE DEF jobsKept, pointsKept, localsOK
<1>7. CASE Claim(s)
  <2>1. PICK batch \in SUBSET Due :
          /\ job' = [j \in Ids |-> IF j \in batch
                                   THEN [job[j] EXCEPT !.retry = "later"] ELSE job[j]]
          /\ sweeper' = [sweeper EXCEPT ![s] =
                [IdleSweeper EXCEPT !.pc = "next", !.queue = batch,
                    !.tries = [j \in Ids |-> IF j \in batch THEN job[j].attempts ELSE 0]]]
    BY <1>7 DEF Claim
  <2>2. jobsKept
    BY <1>0, <2>1 DEF jobsKept, TypeOK, JobState, Present
  <2>3. \A j \in batch : j \in Ids /\ job[j].rec \in Records
    BY <1>0 DEF Due, References, Present
  <2>4. /\ Held(s)' = batch /\ sweeper'[s].set = NoId
        /\ \A t \in Sweepers \ {s} : Held(t)' = Held(t) /\ sweeper'[t] = sweeper[t]
    BY <1>0, <2>1 DEF TypeOK, Held, IdleSweeper, NoId, Ids
  <2>5. localsOK
    BY <1>0, <2>3, <2>4 DEF localsOK, References, NoId, Ids
  <2>. QED BY <1>1, <1>2, <1>6, <1>7, <2>2, <2>5 DEF Claim
<1>8. ASSUME NEW j \in Ids, LoadChunks(s, j)
      PROVE  References'
  <2>1. Held(s)' \subseteq Held(s) /\ \A t \in Sweepers \ {s} : Held(t)' = Held(t)
    BY <1>0, <1>8, LoadChunksLocals DEF Held
  <2>2. \A g \in StoredOf(job[j].rec) : chunkSet[g].rec \in Records
    BY <1>0 DEF StoredOf, SetsOf, OneChunkSetPerRecord
  <2>3. localsOK
    BY <1>0, <1>8, <2>1, <2>2, LoadChunksLocals DEF localsOK, References, NoId, Ids
  <2>. QED BY <1>2, <1>5, <1>6, <1>8, <2>3 DEF LoadChunks, stores
<1>9. CASE SweepEmbed(s) \/ SweepPointIds(s)
  <2>1. UNCHANGED <<job, points>> /\ \E pc : SweepTo(s, pc)
    BY <1>9 DEF SweepEmbed, SweepPointIds, stores
  <2>. QED BY <1>1, <1>2, <1>3, <1>5, <1>6, <2>1
<1>10. CASE SweepDeleteVectors(s)
  <2>1. pointsKept
    BY <1>0, <1>10 DEF SweepDeleteVectors, VectorCall, pointsKept, References
  <2>3. UNCHANGED job /\ \E pc : SweepTo(s, pc)
    BY <1>10 DEF SweepDeleteVectors, rows
  <2>. QED BY <1>1, <1>2, <1>3, <1>5, <2>1, <2>3
<1>11. CASE SweepUpsert(s)
  <2>1. chunkSet[sweeper[s].set].rec \in Records
    BY <1>0, <1>11 DEF SweepUpsert, TypeOK, SweeperLocals, References
  <2>2. pointsKept
    BY <1>0, <1>11, <2>1 DEF SweepUpsert, VectorCall, pointsKept, References
  <2>3. UNCHANGED job /\ \E pc : SweepTo(s, pc)
    BY <1>11 DEF SweepUpsert, rows
  <2>. QED BY <1>1, <1>2, <1>3, <1>5, <2>2, <2>3
<1>12. CASE SweepMarkCompleted(s)
  <2>1. jobsKept
    BY <1>0, <1>12, CompletedRows DEF SweepMarkCompleted, jobsKept, Present
  <2>2. UNCHANGED points /\ (SweepNext(s) \/ \E pc : SweepTo(s, pc))
    BY <1>12 DEF SweepMarkCompleted
  <2>. QED BY <1>1, <1>2, <1>3, <1>4, <1>6, <2>1, <2>2
<1>13. CASE SweepRetry(s)
  <2>1. jobsKept
    BY <1>0, <1>13, PendingRows, FailedRows DEF SweepRetry, Attempt, GivesUp, jobsKept, Present
  <2>2. UNCHANGED points /\ SweepNext(s)
    BY <1>13 DEF SweepRetry, Attempt, GivesUp
  <2>. QED BY <1>1, <1>2, <1>4, <1>6, <2>1, <2>2
<1>. QED BY <1>1, <1>7, <1>2, <1>8, <1>9, <1>10, <1>11, <1>12, <1>13 DEF SweeperStep

LEMMA StoreEnvironment ==
  ASSUME StoreInv, Crash \/ \E j \in Ids : Elapse(j)
  PROVE  References' /\ OneChunkSetPerRecord'
<1>0. /\ TypeOK /\ References /\ OneChunkSetPerRecord
      /\ UNCHANGED <<record, chunkSet, stored, points>>
      /\ \A t \in Sweepers : Held(t) \subseteq Ids
  BY DEF StoreInv, Crash, Elapse, stores, Held, TypeOK, SweeperState
<1>1. OneChunkSetPerRecord'
  BY <1>0 DEF OneChunkSetPerRecord, Exists
<1>2. \A j \in Ids : job'[j].rec = job[j].rec /\ (Present(j)' => Present(j))
  BY <1>0 DEF Crash, Elapse, stores, TypeOK, JobState, Present
<1>3. \A c \in Clients : client'[c] = client[c] \/ client'[c] = IdleClient
  BY <1>0 DEF Crash, Elapse, Proceed, At, TypeOK
<1>4. \A t \in Sweepers : sweeper'[t] = sweeper[t] \/ sweeper'[t] = IdleSweeper
  BY <1>0 DEF Crash, Elapse, TypeOK
<1>5. \A t \in Sweepers :
        /\ \A j \in Held(t)' : j \in Ids /\ job[j].rec \in Records
        /\ sweeper'[t].set \in Ids => chunkSet[sweeper'[t].set].rec \in Records
  BY <1>0, <1>4 DEF References, Held, IdleSweeper, NoId, Ids
<1>6. References'
  BY <1>0, <1>2, <1>3, <1>5, ReferencesKept DEF References
<1>. QED BY <1>1, <1>6

LEMMA StoreStep == StoreInv /\ [Next]_vars => StoreInv'
  <1> SUFFICES ASSUME StoreInv, [Next]_vars PROVE StoreInv'
    OBVIOUS
  <1>0. TypeOK /\ TypeOK' /\ References /\ OneChunkSetPerRecord
    BY NextType DEF StoreInv
  <1>1. CASE UNCHANGED vars
    BY <1>0, <1>1 DEF vars, StoreInv, References, OneChunkSetPerRecord, Present, Held, Exists
  <1>. QED
    BY <1>0, <1>1, StoreStart, StoreClient, StoreSweeper, StoreEnvironment DEF Next, StoreInv

(***************************************************************************)
(* insertChunks' UNIQUE constraint, the replacing transaction and the      *)
(* cascade of deleteMemoryRecord leave at most one chunk set per record in *)
(* memory_chunks, and none without its record, for any number of requests, *)
(* sweepers, faults and crashes.                                           *)
(***************************************************************************)
THEOREM OneChunkSet == Spec => []OneChunkSetPerRecord
  <1>1. Spec => []StoreInv
    BY StoreInit, StoreStep, PTL DEF Spec
  <1>. QED BY <1>1, PTL DEF StoreInv

-----------------------------------------------------------------------------
(***************************************************************************)
(* The write-ahead.                                                        *)
(***************************************************************************)
LEMMA WriteAheadInit == Init => WriteAheadInv
  BY StoreInit, ConstantsAssumption
     DEF Init, WriteAheadInv, PointsArmed, ArmedHasSet, RequestsArmed, RequestArmed, SweepersArmed,
         Exists, PastWriteAhead, StoredPcs, IdleClient, IdleSweeper, Held, NoId, Ids

\* Steps that arm and disarm no job and leave memory_chunks alone.
LEMMA WriteAheadKept ==
  ASSUME WriteAheadInv, TypeOK', UNCHANGED <<chunkSet, stored>>,
         \A r \in Records : Exists(r)' => Exists(r) \/ \A j \in Ids : job[j].rec # r,
         \A j \in Ids : job'[j].rec = job[j].rec /\ (Armed(j)' <=> Armed(j)),
         \A g \in points' : chunkSet[g].job \in Ids /\ SetArmed(g),
         \A c \in Clients :
            /\ PastWriteAhead(client'[c]) => client'[c].job \in Ids /\ Armed(client'[c].job)
            /\ client'[c].pc = "writeAhead" => client'[c] = client[c],
         \A s \in Sweepers :
            /\ \A j \in Held(s)' : j \in Ids /\ Armed(j)
            /\ sweeper'[s].set \in Ids =>
                  chunkSet[sweeper'[s].set].job \in Ids /\ SetArmed(sweeper'[s].set)
  PROVE  PointsArmed' /\ ArmedHasSet' /\ RequestsArmed' /\ SweepersArmed'
<1>0. StoreInv /\ References /\ OneChunkSetPerRecord /\ TypeOK
  BY DEF WriteAheadInv, StoreInv
<1>1. \A g \in Ids : chunkSet[g].job \in Ids => (SetArmed(g)' <=> SetArmed(g))
  BY DEF SetArmed, Armed
<1>2. \A r \in Records : HasArmedSet(r) => HasArmedSet(r)'
  BY <1>0, <1>1 DEF HasArmedSet, StoredOf, SetsOf, References
<1>3. PointsArmed'
  BY <1>1 DEF PointsArmed, SetArmed, TypeOK
<1>4. ArmedHasSet'
  BY <1>2 DEF ArmedHasSet, WriteAheadInv
<1>5. ASSUME NEW c \in Clients
      PROVE  RequestArmed(c)'
  <2>1. (PastWriteAhead(client[c]) => Armed(client[c].job))'
    BY DEF Armed, PastWriteAhead
  <2>2. ASSUME client'[c].pc = "writeAhead", Exists(client[c].rec)'
        PROVE  (client[c].set \in stored \/ HasArmedSet(client[c].rec))'
    <3>1. client'[c] = client[c] /\ client[c].pc = "writeAhead"
      BY <2>2
    <3>2. client[c].op = "write" /\ client[c].rec \in Records /\ client[c].job \in Ids
      BY <1>0, <3>1 DEF TypeOK, ClientState, ClientLocals, UpdatePcs, StoredPcs, OpKinds
    <3>3. job[client[c].job].rec = client[c].rec
      BY <1>0, <3>2 DEF References
    <3>4. Exists(client[c].rec)
      <4>1. Exists(client[c].rec)' => record'[client[c].rec].state \in {"live", "archived"}
        BY <3>1 DEF Exists
      <4>. QED BY <2>2, <3>2, <3>3, <4>1 DEF Exists
    <3>5. client[c].set \in stored \/ HasArmedSet(client[c].rec)
      BY <3>1, <3>4 DEF WriteAheadInv, RequestsArmed, RequestArmed
    <3>. QED BY <1>2, <3>1, <3>2, <3>5 DEF HasArmedSet
  <2>. QED BY <2>1, <2>2 DEF RequestArmed
<1>6. SweepersArmed'
  BY <1>1 DEF SweepersArmed, SetArmed, Armed, Held
<1>7. RequestsArmed'
  BY <1>5 DEF RequestsArmed
<1>. QED BY <1>3, <1>4, <1>6, <1>7

\* A request goes on in steps that touch no job but an armed one.
LEMMA WriteAheadProceeds ==
  ASSUME WriteAheadInv, TypeOK', NEW c \in Clients, NEW pc, Proceed(c, pc), pc # "writeAhead",
         UNCHANGED <<chunkSet, stored, sweeper>>,
         pc # "idle" /\ PastWriteAhead([client[c] EXCEPT !.pc = pc]) => PastWriteAhead(client[c]),
         \A r \in Records : Exists(r)' => Exists(r),
         \A j \in Ids : job'[j].rec = job[j].rec /\ (Armed(j)' <=> Armed(j)),
         \A g \in points' : chunkSet[g].job \in Ids /\ SetArmed(g)
  PROVE  PointsArmed' /\ ArmedHasSet' /\ RequestsArmed' /\ SweepersArmed'
<1>0. /\ TypeOK /\ References /\ RequestsArmed /\ SweepersArmed
      /\ client[c] \in ClientState /\ ClientLocals(client[c])
  BY DEF WriteAheadInv, StoreInv, TypeOK
<1>1. ~PastWriteAhead(IdleClient)
  BY DEF PastWriteAhead, IdleClient, StoredPcs
<1>2. \A d \in Clients : PastWriteAhead(client[d]) => client[d].job \in Ids
  BY <1>0 DEF TypeOK, PastWriteAhead, ClientState, ClientPcs, ClientLocals, OpKinds, StoredPcs,
              WritePcs, UpdatePcs
<1>3. pc # "idle" => /\ PastWriteAhead(client'[c]) => PastWriteAhead(client[c])
                     /\ client'[c].job = client[c].job
  BY <1>0, ProceedLocals DEF PastWriteAhead, ClientState
<1>4. \A d \in Clients :
        /\ PastWriteAhead(client'[d]) => client'[d].job \in Ids /\ Armed(client'[d].job)
        /\ client'[d].pc = "writeAhead" => client'[d] = client[d]
  BY <1>0, <1>1, <1>2, <1>3, ProceedLocals DEF RequestsArmed, RequestArmed, IdleClient
<1>5. \A t \in Sweepers :
        /\ \A j \in Held(t)' : j \in Ids /\ Armed(j)
        /\ sweeper'[t].set \in Ids =>
              chunkSet[sweeper'[t].set].job \in Ids /\ SetArmed(sweeper'[t].set)
  BY <1>0 DEF SweepersArmed, References, Held, TypeOK, SweeperState
<1>. QED BY <1>4, <1>5, WriteAheadKept

\* What a step of c leaves of the others, when it disarms nothing in use.
LEMMA WriteAheadOthers ==
  ASSUME WriteAheadInv, NEW c \in Clients, UNCHANGED <<points, sweeper>>,
         \A d \in Clients \ {c} : client'[d] = client[d],
         \A i \in Ids : job[i].rec \in Records /\ Armed(i) => Armed(i)',
         \A h \in Ids : chunkSet[h].rec \in Records => chunkSet'[h] = chunkSet[h],
         \A r \in Records : Exists(r)' => Exists(r),
         \A h \in stored : Exists(chunkSet[h].rec)' =>
            h \in stored' \/ HasArmedSet(chunkSet[h].rec)'
  PROVE  /\ PointsArmed' /\ SweepersArmed'
         /\ \A r \in Records : Exists(r)' /\ HasArmedSet(r) => HasArmedSet(r)'
         /\ \A d \in Clients \ {c} : RequestArmed(d)'
<1>0. /\ TypeOK /\ References /\ OneChunkSetPerRecord
      /\ PointsArmed /\ RequestsArmed /\ SweepersArmed
  BY DEF WriteAheadInv, StoreInv
<1>1. \A h \in Ids : chunkSet[h].rec \in Records /\ SetArmed(h) =>
         chunkSet'[h] = chunkSet[h] /\ SetArmed(h)'
  BY <1>0 DEF SetArmed, References, Armed
<1>2. PointsArmed'
  BY <1>0, <1>1 DEF PointsArmed, References, TypeOK
<1>3. SweepersArmed'
  BY <1>0, <1>1 DEF SweepersArmed, References, Held, TypeOK, SweeperState
<1>4. \A h \in stored : chunkSet[h].rec \in Records /\ chunkSet'[h] = chunkSet[h] /\ h \in Ids
  BY <1>0 DEF OneChunkSetPerRecord, TypeOK
<1>5. ASSUME NEW r \in Records, Exists(r)', HasArmedSet(r)
      PROVE  HasArmedSet(r)'
  <2>1. PICK h \in stored : h \in Ids /\ chunkSet[h].rec = r /\ SetArmed(h)
    BY <1>5 DEF HasArmedSet, StoredOf, SetsOf
  <2>2. chunkSet'[h] = chunkSet[h] /\ SetArmed(h)'
    BY <1>1, <2>1
  <2>3. CASE h \in stored'
    BY <2>1, <2>2, <2>3 DEF HasArmedSet, StoredOf, SetsOf
  <2>4. CASE h \notin stored'
    <3>1. Exists(chunkSet[h].rec)'
      BY <1>5, <2>1, <2>2 DEF Exists
    <3>2. HasArmedSet(chunkSet[h].rec)'
      BY <2>1, <2>4, <3>1
    <3>. QED BY <2>1, <2>2, <3>2 DEF HasArmedSet
  <2>. QED BY <2>3, <2>4
<1>6. ASSUME NEW d \in Clients \ {c}
      PROVE  RequestArmed(d)'
  <2>0. client'[d] = client[d] /\ RequestArmed(d)
    BY <1>0 DEF RequestsArmed
  <2>1. ASSUME PastWriteAhead(client[d])
        PROVE  Armed(client[d].job)'
    <3>1. /\ client[d].op \in {"write", "update"} /\ client[d].job \in Ids
          /\ client[d].rec \in Records
      BY <1>0, <2>1 DEF TypeOK, PastWriteAhead, ClientState, ClientPcs, ClientLocals, OpKinds,
                        StoredPcs, WritePcs, UpdatePcs
    <3>2. PICK i \in Ids : i = client[d].job /\ job[i].rec \in Records /\ Armed(i)
      BY <1>0, <2>0, <2>1, <3>1 DEF References, RequestArmed
    <3>3. Armed(i)'
      BY <3>2
    <3>. QED BY <2>0, <3>2, <3>3 DEF Armed
  <2>2. ASSUME client[d].pc = "writeAhead", Exists(client[d].rec)'
        PROVE  (client[d].set \in stored \/ HasArmedSet(client[d].rec))'
    <3>1. /\ client[d].op = "write" /\ client[d].set \in Ids /\ client[d].rec \in Records
      BY <1>0, <2>2 DEF TypeOK, ClientState, ClientLocals, UpdatePcs, StoredPcs, OpKinds
    <3>2. PICK h \in Ids, r \in Records : h = client[d].set /\ r = client[d].rec
      BY <3>1
    <3>3. Exists(r)' /\ chunkSet[h].rec = r /\ chunkSet'[h].rec = r
      BY <1>0, <2>0, <2>2, <3>1, <3>2 DEF References, Exists
    <3>4. h \in stored \/ HasArmedSet(r)
      BY <2>0, <2>2, <3>2, <3>3 DEF RequestArmed
    <3>5. CASE HasArmedSet(r)
      BY <1>5, <2>0, <3>2, <3>3, <3>5 DEF HasArmedSet
    <3>6. CASE h \in stored
      <4>1. Exists(chunkSet[h].rec)'
        BY <3>3 DEF Exists
      <4>2. h \in stored' \/ HasArmedSet(chunkSet[h].rec)'
        BY <3>6, <4>1
      <4>. QED BY <2>0, <3>2, <3>3, <4>2 DEF HasArmedSet
    <3>. QED BY <3>4, <3>5, <3>6
  <2>. QED BY <2>0, <2>1, <2>2 DEF RequestArmed, PastWriteAhead
<1>. QED BY <1>2, <1>3, <1>5, <1>6

LEMMA WriteAheadClient ==
  ASSUME WriteAheadInv, TypeOK', NEW c \in Clients, ClientStep(c)
  PROVE  PointsArmed' /\ ArmedHasSet' /\ RequestsArmed' /\ SweepersArmed'
<1> USE ConstantsAssumption
<1> DEFINE k == client[c]
<1>0. /\ StoreInv /\ TypeOK /\ References /\ OneChunkSetPerRecord
      /\ PointsArmed /\ ArmedHasSet /\ RequestsArmed /\ SweepersArmed
      /\ k \in ClientState /\ ClientLocals(k)
      /\ \A g \in points : chunkSet[g].job \in Ids /\ SetArmed(g)
  BY DEF WriteAheadInv, StoreInv, TypeOK, References, PointsArmed
<1>1. ASSUME UNCHANGED <<record, chunkSet, stored, points, job, sweeper>>,
             Throw(c), ~PastWriteAhead(k) \/ k.op \in {"write", "update"}
      PROVE  PointsArmed' /\ ArmedHasSet' /\ RequestsArmed' /\ SweepersArmed'
  <2>1. Catch(k) # "idle" /\ PastWriteAhead([k EXCEPT !.pc = Catch(k)]) => PastWriteAhead(k)
    BY <1>0 DEF Catch, PastWriteAhead, StoredPcs, ClientState
  <2>2. Catch(k) # "writeAhead"
    BY DEF Catch
  <2>. QED BY <1>0, <1>1, <2>1, <2>2, WriteAheadProceeds DEF Throw, Exists, Armed
<1>2. CASE Embed(c) \/ UpdatePointIds(c)
  <2>1. PICK pc : /\ Proceed(c, pc) /\ pc # "writeAhead"
                  /\ pc # "idle" /\ PastWriteAhead([k EXCEPT !.pc = pc]) => PastWriteAhead(k)
    BY <1>0, <1>2 DEF Embed, UpdatePointIds, Throw, Catch, PastWriteAhead, StoredPcs, ClientState
  <2>2. UNCHANGED <<record, chunkSet, stored, points, job, sweeper>>
    BY <1>2 DEF Embed, UpdatePointIds, stores
  <2>. QED BY <1>0, <2>1, <2>2, WriteAheadProceeds DEF Exists, Armed
<1>3. CASE DeleteVectors(c) \/ DeleteOwnPoints(c) \/ DeletePoints(c)
  <2>1. PICK pc : /\ Proceed(c, pc) /\ pc # "writeAhead"
                  /\ pc # "idle" /\ PastWriteAhead([k EXCEPT !.pc = pc]) => PastWriteAhead(k)
    BY <1>0, <1>3 DEF DeleteVectors, DeleteOwnPoints, DeletePoints, Throw, Catch,
                      PastWriteAhead, StoredPcs, ClientState
  <2>2. UNCHANGED <<record, chunkSet, stored, job, sweeper>>
    BY <1>3 DEF DeleteVectors, DeleteOwnPoints, DeletePoints, rows
  <2>3. points' \subseteq points
    BY <1>3 DEF DeleteVectors, DeleteOwnPoints, DeletePoints, VectorCall
  <2>. QED BY <1>0, <2>1, <2>2, <2>3, WriteAheadProceeds DEF Exists, Armed
<1>4. CASE Upsert(c)
  <2>1. PICK pc : /\ Proceed(c, pc) /\ pc # "writeAhead"
                  /\ pc # "idle" /\ PastWriteAhead([k EXCEPT !.pc = pc]) => PastWriteAhead(k)
    BY <1>0, <1>4 DEF Upsert, Throw, Catch, PastWriteAhead, StoredPcs, ClientState
  <2>2. UNCHANGED <<record, chunkSet, stored, job, sweeper>>
    BY <1>4 DEF Upsert, rows
  <2>3. points' \subseteq points \cup {k.set}
    BY <1>4 DEF Upsert, VectorCall
  <2>4. /\ k.op \in {"write", "update"} /\ k.set \in Ids /\ k.job \in Ids
        /\ PastWriteAhead(k)
    BY <1>0, <1>4 DEF Upsert, ClientState, ClientLocals, WritePcs, UpdatePcs, StoredPcs, OpKinds,
                      PastWriteAhead
  <2>5. chunkSet[k.set].job = k.job /\ SetArmed(k.set)
    BY <1>0, <2>4 DEF References, RequestsArmed, RequestArmed, SetArmed
  <2>. QED BY <1>0, <2>1, <2>2, <2>3, <2>4, <2>5, WriteAheadProceeds DEF Exists, Armed
<1>5. CASE MarkRetry(c) \/ MarkQdrantCompleted(c) \/ MarkCompleted(c)
  <2>1. PICK pc : /\ Proceed(c, pc) /\ pc # "writeAhead"
                  /\ pc # "idle" /\ PastWriteAhead([k EXCEPT !.pc = pc]) => PastWriteAhead(k)
    BY <1>0, <1>5 DEF MarkRetry, MarkQdrantCompleted, MarkCompleted, Throw, Catch,
                      PastWriteAhead, StoredPcs, ClientState
  <2>2. UNCHANGED <<record, chunkSet, stored, points, sweeper>>
    BY <1>5 DEF MarkRetry, MarkQdrantCompleted, MarkCompleted
  <2>3. PastWriteAhead(k) /\ Armed(k.job)
    BY <1>0, <1>5 DEF MarkRetry, MarkQdrantCompleted, MarkCompleted, PastWriteAhead, StoredPcs,
                      RequestsArmed, RequestArmed
  <2>4. \/ job' = job \/ SetQdrantPending(k.job, 0) \/ SetQdrantCompleted(k.job)
        \/ job' = [job EXCEPT ![k.job].status = "completed"]
    BY <1>5 DEF MarkRetry, MarkQdrantCompleted, MarkCompleted
  <2>5. \A j \in Ids : job'[j].rec = job[j].rec /\ (Armed(j)' <=> Armed(j))
    BY <1>0, <2>3, <2>4, PendingRows, CompletedRows, StatusRows DEF Armed
  <2>. QED BY <1>0, <2>1, <2>2, <2>5, WriteAheadProceeds DEF Exists
<1>6. CASE CommitUpdate(c)
  <2>1. CASE Throw(c) /\ UNCHANGED record
    BY <1>1, <1>6, <2>1 DEF CommitUpdate, PastWriteAhead, StoredPcs
  <2>2. ASSUME Exists(k.rec),
               record' = [record EXCEPT ![k.rec].state = k.read,
                                        ![k.rec].ver = record[k.rec].ver + 1],
               client' = [client EXCEPT ![c].pc = "embed", ![c].ver = record[k.rec].ver + 1]
        PROVE  PointsArmed' /\ ArmedHasSet' /\ RequestsArmed' /\ SweepersArmed'
    <3>1. \A r \in Records : Exists(r)' => Exists(r)
      BY <1>0, <2>2 DEF Exists, TypeOK
    <3>2. UNCHANGED <<chunkSet, stored, points, job, sweeper>>
      BY <1>6 DEF CommitUpdate
    <3>3. /\ \A d \in Clients \ {c} : client'[d] = client[d]
          /\ client'[c].pc = "embed" /\ client'[c].op = "update"
      BY <1>0, <1>6, <2>2, ZenonT(40)
         DEF CommitUpdate, TypeOK, ClientState, ClientLocals, WritePcs, StoredPcs, OpKinds
    <3>4. \A d \in Clients : PastWriteAhead(client[d]) => client[d].job \in Ids
      <4>. SUFFICES ASSUME NEW d \in Clients, PastWriteAhead(client[d])
                   PROVE  client[d].job \in Ids
        OBVIOUS
      <4>1. client[d] \in ClientState /\ ClientLocals(client[d])
        BY <1>0 DEF TypeOK
      <4>2. client[d].op \in {"write", "update", "delete", "none"}
        BY <4>1 DEF ClientState, OpKinds
      <4>3. CASE client[d].op = "write"
        BY <4>1, <4>3 DEF PastWriteAhead, ClientLocals, StoredPcs
      <4>4. CASE client[d].op = "update"
        BY <4>1, <4>4 DEF PastWriteAhead, ClientLocals, StoredPcs
      <4>5. CASE client[d].op \in {"delete", "none"}
        BY <4>1, <4>5 DEF PastWriteAhead, ClientLocals, StoredPcs
      <4>. QED BY <4>2, <4>3, <4>4, <4>5
    <3>5. ~PastWriteAhead(client'[c])
      BY <3>3 DEF PastWriteAhead, StoredPcs
    <3>6. \A t \in Sweepers :
            /\ \A j \in Held(t)' : j \in Ids /\ Armed(j)
            /\ sweeper'[t].set \in Ids =>
                  chunkSet[sweeper'[t].set].job \in Ids /\ SetArmed(sweeper'[t].set)
      BY <1>0, <3>2 DEF SweepersArmed, References, Held, TypeOK, SweeperState
    <3>. QED
      BY <1>0, <3>1, <3>2, <3>3, <3>4, <3>5, <3>6, WriteAheadKept DEF Armed, RequestsArmed, RequestArmed
  <2>. QED BY <2>1, <2>2, <1>6 DEF CommitUpdate
<1>7. CASE CreateJob(c)
  <2>1. CASE Throw(c) /\ UNCHANGED job
    BY <1>1, <1>7, <2>1 DEF CreateJob, PastWriteAhead, StoredPcs
  <2>2. ASSUME NEW j \in Ids, NextJob(j),
               job' = [job EXCEPT ![j] = NewJob(k.rec, "null")],
               client' = [client EXCEPT ![c].pc = "insert", ![c].job = j]
        PROVE  PointsArmed' /\ ArmedHasSet' /\ RequestsArmed' /\ SweepersArmed'
    <3>1. /\ k.op = "write" /\ k.rec \in Records /\ job[j].rec = NoRecord
          /\ UNCHANGED <<record, chunkSet, stored, points, sweeper>>
      BY <1>0, <1>7, <2>2, FreshJob DEF CreateJob, ClientState, ClientLocals, UpdatePcs, StoredPcs, OpKinds
    <3>2. /\ \A i \in Ids \ {j} : job'[i] = job[i]
          /\ job'[j].rec = k.rec /\ ~Armed(j)'
      BY <1>0, <2>2 DEF TypeOK, NewJob, Armed
    <3>3. /\ \A d \in Clients \ {c} : client'[d] = client[d]
          /\ client'[c].pc = "insert" /\ client'[c].op = "write"
      BY <1>0, <2>2, <3>1 DEF TypeOK, ClientState
    <3>4. /\ \A i \in Ids : job[i].rec \in Records /\ Armed(i) => Armed(i)'
          /\ \A g \in Ids : chunkSet[g].rec \in Records => chunkSet'[g] = chunkSet[g]
          /\ \A r \in Records : Exists(r)' => Exists(r)
          /\ \A g \in stored : Exists(chunkSet[g].rec)' => g \in stored'
      BY <3>1, <3>2 DEF Armed, Exists
    <3>5. /\ PointsArmed' /\ SweepersArmed'
          /\ \A r \in Records : Exists(r)' /\ HasArmedSet(r) => HasArmedSet(r)'
          /\ \A d \in Clients \ {c} : RequestArmed(d)'
      BY <3>1, <3>3, <3>4, WriteAheadOthers
    <3>6. ArmedHasSet'
      BY <1>0, <3>1, <3>2, <3>5 DEF ArmedHasSet, Exists, Armed
    <3>7. RequestArmed(c)'
      BY <3>3 DEF RequestArmed, PastWriteAhead, StoredPcs
    <3>. QED BY <3>5, <3>6, <3>7 DEF RequestsArmed
  <2>. QED BY <2>1, <2>2, <1>7 DEF CreateJob
<1>8. CASE InsertChunks(c)
  <2>1. CASE Throw(c) /\ UNCHANGED <<chunkSet, stored>>
    BY <1>1, <1>8, <2>1 DEF InsertChunks, PastWriteAhead, StoredPcs
  <2>2. ASSUME NEW g \in Ids, NextSet(g), Exists(k.rec), StoredOf(k.rec) = {},
               chunkSet' = [chunkSet EXCEPT ![g] =
                  [rec |-> k.rec, ver |-> k.ver, job |-> k.job]],
               stored' = stored \cup {g},
               client' = [client EXCEPT ![c].pc = "writeAhead", ![c].set = g]
        PROVE  PointsArmed' /\ ArmedHasSet' /\ RequestsArmed' /\ SweepersArmed'
    <3>1. /\ k.op = "write" /\ k.rec \in Records /\ chunkSet[g].rec = NoRecord
          /\ UNCHANGED <<record, job, points, sweeper>>
      BY <1>0, <1>8, <2>2, FreshSet DEF InsertChunks, ClientState, ClientLocals, UpdatePcs, StoredPcs, OpKinds
    <3>2. \A h \in Ids \ {g} : chunkSet'[h] = chunkSet[h]
      BY <1>0, <2>2 DEF TypeOK
    <3>3. /\ \A d \in Clients \ {c} : client'[d] = client[d]
          /\ client'[c].pc = "writeAhead" /\ client'[c].op = "write" /\ client'[c].set = g
      BY <1>0, <2>2, <3>1 DEF TypeOK, ClientState
    <3>4. /\ \A i \in Ids : job[i].rec \in Records /\ Armed(i) => Armed(i)'
          /\ \A h \in Ids : chunkSet[h].rec \in Records => chunkSet'[h] = chunkSet[h]
          /\ \A r \in Records : Exists(r)' => Exists(r)
          /\ \A h \in stored : Exists(chunkSet[h].rec)' => h \in stored'
      BY <2>2, <3>1, <3>2 DEF Armed, Exists
    <3>5. /\ PointsArmed' /\ SweepersArmed'
          /\ \A r \in Records : Exists(r)' /\ HasArmedSet(r) => HasArmedSet(r)'
          /\ \A d \in Clients \ {c} : RequestArmed(d)'
      BY <3>1, <3>3, <3>4, WriteAheadOthers
    <3>6. ArmedHasSet'
      BY <1>0, <3>1, <3>5 DEF ArmedHasSet, Exists, Armed
    <3>7. RequestArmed(c)'
      BY <2>2, <3>3 DEF RequestArmed, PastWriteAhead, StoredPcs
    <3>. QED BY <3>5, <3>6, <3>7 DEF RequestsArmed
  <2>. QED BY <2>1, <2>2, <1>8 DEF InsertChunks
<1>9. CASE WriteAhead(c)
  <2>1. CASE Throw(c) /\ UNCHANGED job
    BY <1>1, <1>9, <2>1 DEF WriteAhead, PastWriteAhead, StoredPcs
  <2>2. ASSUME NEW r \in Records, NEW j \in Ids, NEW g \in Ids,
               r = k.rec, j = k.job, g = k.set,
               SetQdrantPending(j, 0), Proceed(c, "embed")
        PROVE  PointsArmed' /\ ArmedHasSet' /\ RequestsArmed' /\ SweepersArmed'
    <3>1. UNCHANGED <<record, chunkSet, stored, points, sweeper>> /\ k.op = "write"
      BY <1>0, <1>9 DEF WriteAhead, ClientState, ClientLocals, UpdatePcs, StoredPcs, OpKinds
    <3>2. job[j].rec = r /\ chunkSet[g].rec = r /\ chunkSet[g].job = j
      BY <1>0, <2>2, <3>1 DEF References
    <3>3. /\ \A i \in Ids \ {j} : job'[i] = job[i]
          /\ job'[j].rec = r /\ Armed(j)'
      BY <1>0, <2>2, <3>2, PendingRows DEF Armed
    <3>4. /\ \A d \in Clients \ {c} : client'[d] = client[d]
          /\ client'[c].pc = "embed" /\ client'[c].job = j
      BY <1>0, <2>2, ProceedLocals
    <3>5. /\ \A i \in Ids : job[i].rec \in Records /\ Armed(i) => Armed(i)'
          /\ \A h \in Ids : chunkSet[h].rec \in Records => chunkSet'[h] = chunkSet[h]
          /\ \A q \in Records : Exists(q)' => Exists(q)
          /\ \A h \in stored : Exists(chunkSet[h].rec)' => h \in stored'
      <4>1. \A i \in Ids \ {j} : Armed(i)' <=> Armed(i)
        BY <3>3 DEF Armed
      <4>. QED BY <3>1, <3>3, <4>1 DEF Exists
    <3>6. /\ PointsArmed' /\ SweepersArmed'
          /\ \A q \in Records : Exists(q)' /\ HasArmedSet(q) => HasArmedSet(q)'
          /\ \A d \in Clients \ {c} : RequestArmed(d)'
      BY <3>1, <3>4, <3>5, WriteAheadOthers
    <3>7. Exists(r)' => HasArmedSet(r)'
      <4>1. SetArmed(g)'
        BY <3>1, <3>2, <3>3 DEF SetArmed, Armed
      <4>2. g \in stored => HasArmedSet(r)'
        BY <3>1, <3>2, <4>1 DEF HasArmedSet, StoredOf, SetsOf
      <4>3. Exists(r) => g \in stored \/ HasArmedSet(r)
        BY <1>0, <1>9, <2>2 DEF RequestsArmed, RequestArmed, WriteAhead
      <4>. QED BY <3>5, <3>6, <4>2, <4>3
    <3>8. ArmedHasSet'
      <4>1. \A i \in Ids \ {j} : Armed(i)' <=> Armed(i)
        BY <3>3 DEF Armed
      <4>. QED BY <1>0, <3>3, <3>5, <3>6, <3>7, <4>1 DEF ArmedHasSet
    <3>9. RequestArmed(c)'
      BY <3>3, <3>4 DEF RequestArmed, Armed
    <3>. QED BY <3>6, <3>8, <3>9 DEF RequestsArmed
  <2>3. k.rec \in Records /\ k.job \in Ids /\ k.set \in Ids
    BY <1>0, <1>9 DEF WriteAhead, ClientState, ClientLocals, UpdatePcs, StoredPcs, OpKinds
  <2>. QED BY <2>1, <2>2, <2>3, <1>9 DEF WriteAhead
<1>10. CASE ReplaceChunks(c)
  <2>1. CASE Throw(c) /\ UNCHANGED <<chunkSet, stored, pointIds, job>>
    BY <1>1, <1>10, <2>1 DEF ReplaceChunks, PastWriteAhead, StoredPcs
  <2>2. ASSUME NEW g \in Ids, NEW j \in Ids, NextSet(g), NextJob(j), Exists(k.rec),
               chunkSet' = [chunkSet EXCEPT ![g] = [rec |-> k.rec, ver |-> k.ver, job |-> j]],
               stored' = (stored \ StoredOf(k.rec)) \cup {g},
               job' = [job EXCEPT ![j] = NewJob(k.rec, "later")],
               client' = [client EXCEPT ![c].pc = "deleteVectors", ![c].set = g, ![c].job = j]
        PROVE  PointsArmed' /\ ArmedHasSet' /\ RequestsArmed' /\ SweepersArmed'
    <3>0. PICK r \in Records : r = k.rec
      BY <1>0, <1>10 DEF ReplaceChunks, ClientState, ClientLocals
    <3>1. /\ chunkSet[g].rec = NoRecord /\ job[j].rec = NoRecord
          /\ UNCHANGED <<record, points, sweeper>>
      BY <1>10, <2>2, FreshSet, FreshJob DEF ReplaceChunks
    <3>2. /\ \A i \in Ids \ {j} : job'[i] = job[i]
          /\ job'[j].rec = r /\ Armed(j)'
      BY <1>0, <2>2, <3>0 DEF TypeOK, NewJob, Armed
    <3>3. /\ \A h \in Ids \ {g} : chunkSet'[h] = chunkSet[h]
          /\ chunkSet'[g].rec = r /\ chunkSet'[g].job = j
      BY <1>0, <2>2, <3>0 DEF TypeOK
    <3>4. /\ \A d \in Clients \ {c} : client'[d] = client[d]
          /\ client'[c].pc = "deleteVectors" /\ client'[c].job = j
      BY <1>0, <2>2 DEF TypeOK, ClientState
    <3>5. HasArmedSet(r)'
      BY <2>2, <3>2, <3>3 DEF HasArmedSet, SetArmed, StoredOf, SetsOf, Armed
    <3>10. \A i \in Ids \ {j} : Armed(i)' <=> Armed(i)
      BY <3>2 DEF Armed
    <3>6. /\ \A i \in Ids : job[i].rec \in Records /\ Armed(i) => Armed(i)'
          /\ \A h \in Ids : chunkSet[h].rec \in Records => chunkSet'[h] = chunkSet[h]
          /\ \A q \in Records : Exists(q)' => Exists(q)
      BY <3>1, <3>2, <3>3, <3>10, ConstantsAssumption DEF Exists
    <3>11. \A h \in stored : h \in stored' \/ HasArmedSet(chunkSet[h].rec)'
      <4>1. ASSUME NEW h \in stored, h \notin stored'
            PROVE  HasArmedSet(chunkSet[h].rec)'
        <5>1. chunkSet[h].rec = r /\ h \in Ids
          BY <2>2, <3>0, <4>1 DEF StoredOf, SetsOf
        <5>2. chunkSet'[h].rec = r
          BY <3>1, <3>3, <5>1, ConstantsAssumption
        <5>. QED BY <3>5, <5>2 DEF HasArmedSet
      <4>. QED BY <4>1
    <3>7. /\ PointsArmed' /\ SweepersArmed'
          /\ \A q \in Records : Exists(q)' /\ HasArmedSet(q) => HasArmedSet(q)'
          /\ \A d \in Clients \ {c} : RequestArmed(d)'
      BY <3>1, <3>4, <3>6, <3>11, WriteAheadOthers
    <3>8. ArmedHasSet'
      BY <1>0, <3>2, <3>5, <3>6, <3>7, <3>10 DEF ArmedHasSet
    <3>9. RequestArmed(c)'
      BY <3>2, <3>4 DEF RequestArmed, Armed
    <3>. QED BY <3>7, <3>8, <3>9 DEF RequestsArmed
  <2>. QED BY <2>1, <2>2, <1>10 DEF ReplaceChunks
<1>11. CASE EraseRecord(c)
  <2>1. CASE UNCHANGED <<record, stored, pointIds, job>>
    BY <1>0, <1>11, <2>1, WriteAheadProceeds DEF EraseRecord, Exists, Armed
  <2>2. ASSUME NEW r \in Records, r = k.rec,
               record' = [record EXCEPT ![r].state = "gone"],
               stored' = stored \ StoredOf(r),
               job' = [j \in Ids |-> IF job[j].rec = r
                                    THEN [job[j] EXCEPT !.q = "absent"] ELSE job[j]]
        PROVE  PointsArmed' /\ ArmedHasSet' /\ RequestsArmed' /\ SweepersArmed'
    <3>1. UNCHANGED <<chunkSet, points, sweeper>> /\ Proceed(c, "idle")
      BY <1>11 DEF EraseRecord
    <3>2. \A j \in Ids : /\ job'[j].rec = job[j].rec
                         /\ job[j].rec # r => (Armed(j)' <=> Armed(j))
                         /\ job[j].rec = r => Armed(j)'
      BY <1>0, <2>2 DEF TypeOK, JobState, Armed
    <3>3. /\ ~Exists(r)'
          /\ \A q \in Records : Exists(q)' => Exists(q)
      BY <1>0, <2>2 DEF TypeOK, RecordState, Exists
    <3>4. /\ \A d \in Clients \ {c} : client'[d] = client[d]
          /\ client'[c] = IdleClient
      BY <1>0, <3>1, ProceedLocals
    <3>5. \A i \in Ids : job[i].rec \in Records /\ Armed(i) => Armed(i)'
      BY <3>2
    <3>6. \A h \in stored : Exists(chunkSet[h].rec)' => h \in stored'
      <4>1. ASSUME NEW h \in stored, h \notin stored'
            PROVE  ~Exists(chunkSet[h].rec)'
        <5>1. chunkSet[h].rec = r /\ chunkSet'[h].rec = r
          BY <2>2, <3>1, <4>1 DEF StoredOf, SetsOf
        <5>. QED BY <3>3, <5>1 DEF Exists
      <4>. QED BY <4>1
    <3>7. /\ PointsArmed' /\ SweepersArmed'
          /\ \A q \in Records : Exists(q)' /\ HasArmedSet(q) => HasArmedSet(q)'
          /\ \A d \in Clients \ {c} : RequestArmed(d)'
      BY <3>1, <3>3, <3>4, <3>5, <3>6, WriteAheadOthers
    <3>8. ArmedHasSet'
      BY <1>0, <3>2, <3>3, <3>7 DEF ArmedHasSet
    <3>9. RequestArmed(c)'
      BY <3>4 DEF RequestArmed, PastWriteAhead, StoredPcs, IdleClient
    <3>. QED BY <3>7, <3>8, <3>9 DEF RequestsArmed
  <2>3. k.rec \in Records
    BY <1>0, <1>11 DEF EraseRecord, ClientState, ClientLocals
  <2>. QED BY <2>1, <2>2, <2>3, <1>11 DEF EraseRecord
<1>. QED
  BY <1>2, <1>3, <1>4, <1>5, <1>6, <1>7, <1>8, <1>9, <1>10, <1>11 DEF ClientStep

LEMMA WriteAheadStart ==
  ASSUME WriteAheadInv, TypeOK', NEW c \in Clients, NEW r \in Records, ClientStart(c, r)
  PROVE  PointsArmed' /\ ArmedHasSet' /\ RequestsArmed' /\ SweepersArmed'
<1> USE ConstantsAssumption
<1>0. /\ TypeOK /\ References /\ PointsArmed /\ RequestsArmed /\ SweepersArmed
      /\ UNCHANGED <<chunkSet, stored, points, job, sweeper>>
  BY DEF WriteAheadInv, StoreInv, ClientStart, AddMemory, ReadForUpdate, ArchiveRecord, stores
<1>1. \A q \in Records : Exists(q)' => Exists(q) \/ \A j \in Ids : job[j].rec # q
  <2>1. \/ record' = [record EXCEPT ![r] = [state |-> "live", ver |-> 1]] /\ record[r].state = "none"
        \/ record' = [record EXCEPT ![r].state = "archived"] /\ Exists(r)
        \/ record' = record
    BY DEF ClientStart, AddMemory, ReadForUpdate, ArchiveRecord, stores
  <2>2. \A q \in Records \ {r} : record'[q] = record[q]
    BY <1>0, <2>1 DEF TypeOK
  <2>. QED BY <1>0, <2>1, <2>2 DEF Exists, References
<1>2. \A d \in Clients :
        /\ PastWriteAhead(client'[d]) => client'[d].job \in Ids /\ Armed(client'[d].job)
        /\ client'[d].pc = "writeAhead" => client'[d] = client[d]
  <2>1. \A d \in Clients : PastWriteAhead(client[d]) => client[d].job \in Ids
    BY <1>0 DEF TypeOK, PastWriteAhead, ClientState, ClientPcs, ClientLocals, OpKinds, StoredPcs,
                WritePcs, UpdatePcs
  <2>2. \A d \in Clients : \/ client'[d] = client[d]
                          \/ client'[d].pc \in {"create", "commit", "deletePoints"}
    BY <1>0, StartLocals
  <2>. QED BY <1>0, <2>1, <2>2 DEF RequestsArmed, RequestArmed, PastWriteAhead, StoredPcs
<1>3. \A t \in Sweepers :
        /\ \A j \in Held(t)' : j \in Ids /\ Armed(j)
        /\ sweeper'[t].set \in Ids =>
              chunkSet[sweeper'[t].set].job \in Ids /\ SetArmed(sweeper'[t].set)
  BY <1>0 DEF SweepersArmed, References, Held, TypeOK, SweeperState
<1>4. \A g \in points' : chunkSet[g].job \in Ids /\ SetArmed(g)
  BY <1>0 DEF PointsArmed, References, TypeOK
<1>. QED BY <1>0, <1>1, <1>2, <1>3, <1>4, WriteAheadKept DEF Armed

LEMMA WriteAheadSweeper ==
  ASSUME WriteAheadInv, TypeOK', NEW s \in Sweepers, Claim(s) \/ SweeperStep(s)
  PROVE  PointsArmed' /\ ArmedHasSet' /\ RequestsArmed' /\ SweepersArmed'
<1> USE ConstantsAssumption
<1>0. /\ StoreInv /\ TypeOK /\ References /\ OneChunkSetPerRecord
      /\ PointsArmed /\ ArmedHasSet /\ RequestsArmed /\ SweepersArmed
      /\ \A t \in Sweepers : Held(t) \subseteq Ids
      /\ \A g \in points : chunkSet[g].job \in Ids /\ SetArmed(g)
  BY DEF WriteAheadInv, StoreInv, PointsArmed, References, Held, TypeOK, SweeperState
<1>00. UNCHANGED <<record, chunkSet, stored, client>>
  BY DEF Claim, SweeperStep, LoadChunks, SweepEmbed, SweepDeleteVectors, SweepUpsert,
         SweepPointIds, SweepMarkCompleted, SweepRetry, Attempt, GivesUp, stores, rows
<1>1. \A d \in Clients :
        /\ PastWriteAhead(client'[d]) => client'[d].job \in Ids /\ Armed(client'[d].job)
        /\ client'[d].pc = "writeAhead" => client'[d] = client[d]
  <2>1. \A d \in Clients : PastWriteAhead(client[d]) => client[d].job \in Ids
    BY <1>0 DEF TypeOK, PastWriteAhead, ClientState, ClientPcs, ClientLocals, OpKinds, StoredPcs,
                WritePcs, UpdatePcs
  <2>. QED BY <1>0, <1>00, <2>1 DEF RequestsArmed, RequestArmed
<1> DEFINE jobsKept == \A j \in Ids : job'[j].rec = job[j].rec /\ (Armed(j)' <=> Armed(j))
           pointsKept == \A g \in points' : chunkSet[g].job \in Ids /\ SetArmed(g)
           localsOK == \A t \in Sweepers :
              /\ \A j \in Held(t)' : j \in Ids /\ Armed(j)
              /\ sweeper'[t].set \in Ids =>
                    chunkSet[sweeper'[t].set].job \in Ids /\ SetArmed(sweeper'[t].set)
           goal == (PointsArmed /\ ArmedHasSet /\ RequestsArmed /\ SweepersArmed)'
<1>2. ASSUME jobsKept, pointsKept, localsOK PROVE goal
  BY <1>0, <1>00, <1>1, <1>2, WriteAheadKept DEF Exists
<1>20. \A t \in Sweepers : sweeper[t].set \in Ids =>
          chunkSet[sweeper[t].set].job \in Ids /\ SetArmed(sweeper[t].set)
  BY <1>0 DEF SweepersArmed, References
<1>3. ASSUME NEW pc, SweepTo(s, pc) PROVE localsOK
  BY <1>0, <1>3, <1>20, SweepToLocals DEF Held, SweepersArmed
<1>4. ASSUME SweepNext(s) PROVE localsOK
  BY <1>0, <1>4, <1>20, SweepNextLocals DEF Held, SweepersArmed, NoId, Ids
<1>5. UNCHANGED job => jobsKept
  BY DEF Armed
<1>6. UNCHANGED points => pointsKept
  BY <1>0
<1> HIDE DEF jobsKept, pointsKept, localsOK, goal
<1>7. CASE Claim(s)
  <2>1. PICK batch \in SUBSET Due :
          /\ job' = [j \in Ids |-> IF j \in batch
                                   THEN [job[j] EXCEPT !.retry = "later"] ELSE job[j]]
          /\ sweeper' = [sweeper EXCEPT ![s] =
                [IdleSweeper EXCEPT !.pc = "next", !.queue = batch,
                    !.tries = [j \in Ids |-> IF j \in batch THEN job[j].attempts ELSE 0]]]
    BY <1>7 DEF Claim
  <2>2. \A j \in batch : j \in Ids /\ Armed(j)
    BY <1>0 DEF Due, Armed
  <2>3. jobsKept
    <3>1. ASSUME NEW j \in Ids
          PROVE  /\ job'[j].rec = job[j].rec /\ job'[j].q = job[j].q
                 /\ job'[j].retry = IF j \in batch THEN "later" ELSE job[j].retry
      <4>1. job[j] \in JobState
        BY <1>0 DEF TypeOK
      <4>2. job'[j] = IF j \in batch THEN [job[j] EXCEPT !.retry = "later"] ELSE job[j]
        BY <2>1
      <4>. QED BY <4>1, <4>2 DEF JobState
    <3>. QED BY <2>2, <3>1 DEF jobsKept, Armed
  <2>4. /\ Held(s)' = batch /\ sweeper'[s].set = NoId
        /\ \A t \in Sweepers \ {s} : Held(t)' = Held(t) /\ sweeper'[t] = sweeper[t]
    <3>1. sweeper \in [Sweepers -> SweeperState]
      BY <1>0 DEF TypeOK
    <3>2. /\ sweeper'[s].queue = batch /\ sweeper'[s].job = NoId /\ sweeper'[s].set = NoId
          /\ \A t \in Sweepers \ {s} : sweeper'[t] = sweeper[t]
      BY <2>1, <3>1 DEF IdleSweeper
    <3>. QED BY <3>2 DEF Held, NoId, Ids
  <2>5. localsOK
    BY <1>0, <1>20, <2>2, <2>4 DEF localsOK, SweepersArmed, NoId, Ids
  <2>. QED BY <1>2, <1>6, <1>7, <2>3, <2>5 DEF Claim, goal
<1>8. ASSUME NEW j \in Ids, LoadChunks(s, j)
      PROVE  goal
  <2>1. Held(s)' \subseteq Held(s) /\ \A t \in Sweepers \ {s} : Held(t)' = Held(t)
    BY <1>0, <1>8, LoadChunksLocals DEF Held
  <2>2. \A g \in StoredOf(job[j].rec) : chunkSet[g].job \in Ids /\ SetArmed(g)
    <3>1. ASSUME NEW g \in StoredOf(job[j].rec)
          PROVE  chunkSet[g].job \in Ids /\ SetArmed(g)
      <4>1. /\ g \in stored /\ g \in Ids /\ chunkSet[g].rec = job[j].rec
            /\ chunkSet[g].rec \in Records /\ Exists(chunkSet[g].rec)
        BY <1>0, <3>1 DEF StoredOf, SetsOf, OneChunkSetPerRecord
      <4>2. Armed(j)
        BY <1>0, <1>8, LoadChunksLocals DEF SweepersArmed, Held
      <4>3. HasArmedSet(job[j].rec)
        BY <1>0, <4>1, <4>2 DEF ArmedHasSet
      <4>4. PICK h \in stored : chunkSet[h].rec = job[j].rec /\ SetArmed(h)
        BY <4>3 DEF HasArmedSet, StoredOf, SetsOf
      <4>5. h = g
        BY <1>0, <4>1, <4>4 DEF OneChunkSetPerRecord
      <4>. QED BY <1>0, <4>1, <4>4, <4>5 DEF References
    <3>. QED BY <3>1
  <2>3. localsOK
    BY <1>0, <1>8, <1>20, <2>1, <2>2, LoadChunksLocals DEF localsOK, SweepersArmed, NoId, Ids
  <2>. QED BY <1>2, <1>5, <1>6, <1>8, <2>3 DEF LoadChunks, stores
<1>9. CASE SweepEmbed(s) \/ SweepPointIds(s)
  <2>1. UNCHANGED <<job, points>> /\ \E pc : SweepTo(s, pc)
    BY <1>9 DEF SweepEmbed, SweepPointIds, stores
  <2>. QED BY <1>2, <1>3, <1>5, <1>6, <2>1 DEF goal
<1>10. CASE SweepDeleteVectors(s)
  <2>1. pointsKept
    BY <1>0, <1>10 DEF SweepDeleteVectors, VectorCall, pointsKept
  <2>3. UNCHANGED job /\ \E pc : SweepTo(s, pc)
    BY <1>10 DEF SweepDeleteVectors, rows
  <2>. QED BY <1>2, <1>3, <1>5, <2>1, <2>3 DEF goal
<1>11. CASE SweepUpsert(s)
  <2>1. chunkSet[sweeper[s].set].job \in Ids /\ SetArmed(sweeper[s].set)
    BY <1>0, <1>11, <1>20 DEF SweepUpsert, TypeOK, SweeperLocals
  <2>2. pointsKept
    BY <1>0, <1>11, <2>1 DEF SweepUpsert, VectorCall, pointsKept
  <2>3. UNCHANGED job /\ \E pc : SweepTo(s, pc)
    BY <1>11 DEF SweepUpsert, rows
  <2>. QED BY <1>2, <1>3, <1>5, <2>2, <2>3 DEF goal
<1>12. CASE SweepMarkCompleted(s)
  <2>0. Armed(sweeper[s].job)
    BY <1>0, <1>12 DEF SweepMarkCompleted, SweepersArmed, Held, TypeOK, SweeperLocals
  <2>1. jobsKept
    BY <1>0, <1>12, <2>0, CompletedRows DEF SweepMarkCompleted, jobsKept, Armed
  <2>2. UNCHANGED points /\ (SweepNext(s) \/ \E pc : SweepTo(s, pc))
    BY <1>12 DEF SweepMarkCompleted
  <2>. QED BY <1>2, <1>3, <1>4, <1>6, <2>1, <2>2 DEF goal
<1>13. CASE SweepRetry(s)
  <2>0. Armed(sweeper[s].job)
    BY <1>0, <1>13 DEF SweepRetry, Attempt, GivesUp, SweepersArmed, Held, TypeOK, SweeperLocals
  <2>1. jobsKept
    BY <1>0, <1>13, <2>0, PendingRows, FailedRows DEF SweepRetry, Attempt, GivesUp, jobsKept, Armed
  <2>2. UNCHANGED points /\ SweepNext(s)
    BY <1>13 DEF SweepRetry, Attempt, GivesUp
  <2>. QED BY <1>2, <1>4, <1>6, <2>1, <2>2 DEF goal
<1>. QED BY <1>7, <1>8, <1>9, <1>10, <1>11, <1>12, <1>13 DEF SweeperStep, goal

LEMMA WriteAheadEnvironment ==
  ASSUME WriteAheadInv, TypeOK', Crash \/ \E j \in Ids : Elapse(j)
  PROVE  PointsArmed' /\ ArmedHasSet' /\ RequestsArmed' /\ SweepersArmed'
<1>0. /\ TypeOK /\ References /\ PointsArmed /\ RequestsArmed /\ SweepersArmed
      /\ UNCHANGED <<record, chunkSet, stored, points>>
      /\ \A t \in Sweepers : Held(t) \subseteq Ids
  BY DEF WriteAheadInv, StoreInv, Crash, Elapse, stores, Held, TypeOK, SweeperState
<1>1. \A j \in Ids : job'[j].rec = job[j].rec /\ (Armed(j)' <=> Armed(j))
  BY <1>0 DEF Crash, Elapse, stores, TypeOK, JobState, Armed
<1>2. \A d \in Clients :
        /\ PastWriteAhead(client'[d]) => client'[d].job \in Ids /\ Armed(client'[d].job)
        /\ client'[d].pc = "writeAhead" => client'[d] = client[d]
  <2>1. \A d \in Clients : PastWriteAhead(client[d]) => client[d].job \in Ids
    BY <1>0 DEF TypeOK, PastWriteAhead, ClientState, ClientPcs, ClientLocals, OpKinds, StoredPcs,
                WritePcs, UpdatePcs
  <2>2. \A d \in Clients : client'[d] = client[d] \/ client'[d] = IdleClient
    BY <1>0 DEF Crash, Elapse, Proceed, At, TypeOK
  <2>. QED BY <1>0, <2>1, <2>2
       DEF RequestsArmed, RequestArmed, PastWriteAhead, StoredPcs, IdleClient
<1>3. \A t \in Sweepers : sweeper'[t] = sweeper[t] \/ sweeper'[t] = IdleSweeper
  BY <1>0 DEF Crash, Elapse, TypeOK
<1>4. \A t \in Sweepers :
        /\ \A j \in Held(t)' : j \in Ids /\ Armed(j)
        /\ sweeper'[t].set \in Ids =>
              chunkSet[sweeper'[t].set].job \in Ids /\ SetArmed(sweeper'[t].set)
  BY <1>0, <1>3 DEF SweepersArmed, References, Held, IdleSweeper, NoId, Ids
<1>5. \A g \in points' : chunkSet[g].job \in Ids /\ SetArmed(g)
  BY <1>0 DEF PointsArmed, References, TypeOK
<1>. QED BY <1>0, <1>1, <1>2, <1>4, <1>5, WriteAheadKept DEF Exists

LEMMA WriteAheadStep == WriteAheadInv /\ [Next]_vars => WriteAheadInv'
  <1> SUFFICES ASSUME WriteAheadInv, [Next]_vars PROVE WriteAheadInv'
    OBVIOUS
  <1>0. StoreInv /\ StoreInv' /\ TypeOK'
    BY StoreStep DEF WriteAheadInv, StoreInv
  <1>1. CASE UNCHANGED vars
    BY <1>0, <1>1 DEF vars, WriteAheadInv, PointsArmed, ArmedHasSet, RequestsArmed, RequestArmed,
        SweepersArmed, Armed, SetArmed, HasArmedSet, StoredOf, SetsOf, Exists, Held, PastWriteAhead
  <1>. QED
    BY <1>0, <1>1, WriteAheadStart, WriteAheadClient, WriteAheadSweeper, WriteAheadEnvironment
       DEF Next, WriteAheadInv

(***************************************************************************)
(* The write-ahead of writeCanonicalMemory and the pending job of the      *)
(* replacing transaction: points are only ever in the vector index for a   *)
(* chunk set whose job the sweeper will see, or has settled.               *)
(***************************************************************************)
THEOREM PointsAfterWriteAhead == Spec => []WriteAheadOrder
  <1>1. Spec => []WriteAheadInv
    BY WriteAheadInit, WriteAheadStep, PTL DEF Spec
  <1>2. WriteAheadInv => WriteAheadOrder
    BY DEF WriteAheadInv, WriteAheadOrder, PointsArmed, SetArmed, Armed
  <1>. QED BY <1>1, <1>2, PTL

-----------------------------------------------------------------------------
(***************************************************************************)
(* Operations that do not overlap.  A step works on one record and leaves  *)
(* every other Untouched; nobody else is on that record, so what is left   *)
(* to show of a step is its own record, and the phase it has reached.      *)
(***************************************************************************)
Untouched(r) ==
    /\ record'[r].state = record[r].state
    /\ \A g \in Ids : chunkSet'[g].rec = r <=> chunkSet[g].rec = r
    /\ \A g \in Ids : chunkSet[g].rec = r =>
        /\ g \in stored' <=> g \in stored
        /\ g \in pointIds' <=> g \in pointIds
        /\ g \in points' <=> g \in points
    /\ \A j \in Ids : job'[j].rec = r <=> job[j].rec = r
    /\ \A j \in Ids : job[j].rec = r =>
        job'[j].q = job[j].q /\ job'[j].status = job[j].status

OthersUntouched(r) == \A q \in Records \ {r} : Untouched(q)

LEMMA UntouchedSame ==
  ASSUME NEW r, Untouched(r)
  PROVE  /\ StoredOf(r)' = StoredOf(r) /\ PointsOf(r)' = PointsOf(r)
         /\ Acknowledged(r)' <=> Acknowledged(r)
         /\ Settled(r)' <=> Settled(r)
         /\ Synced(r)' <=> Synced(r)
         /\ Exists(r)' <=> Exists(r)
<1>1. StoredOf(r)' = StoredOf(r) /\ PointsOf(r)' = PointsOf(r)
  BY DEF Untouched, StoredOf, PointsOf, SetsOf
<1>2. JobsOf(r)' = JobsOf(r) /\ \A j \in JobsOf(r) : job[j].rec = r /\ j \in Ids
  BY DEF Untouched, JobsOf, Present
<1>3. Acknowledged(r)' <=> Acknowledged(r)
  BY <1>2 DEF Untouched, Acknowledged
<1>4. Settled(r)' <=> Settled(r)
  BY <1>2 DEF Untouched, Settled
<1>5. \A g \in StoredOf(r) : g \in pointIds' <=> g \in pointIds
  BY DEF Untouched, StoredOf, SetsOf
<1>6. Synced(r)' <=> Synced(r)
  BY <1>1, <1>5 DEF Synced, InSync
<1>. QED BY <1>1, <1>3, <1>4, <1>6 DEF Untouched, Exists

LEMMA OnTheWayKept ==
  ASSUME NEW r, Untouched(r), NEW pc, NEW g, OnTheWay(pc, r, g)
  PROVE  OnTheWay(pc, r, g)'
  BY UntouchedSame DEF OnTheWay

\* A request is where it was if its record is untouched.
LEMMA RequestKept ==
  ASSUME TypeOK, References, NEW c \in Clients, client'[c] = client[c],
         client[c].rec \in Records => Untouched(client[c].rec), RequestInPlace(c)
  PROVE  RequestInPlace(c)'
<1>1. PICK k : k = client[c]
  OBVIOUS
<1>2. /\ k \in ClientState /\ ClientLocals(k) /\ NoRecord \notin Records
      /\ k.op = "write" => WriteInPlace(k)
      /\ k.op = "update" => UpdateInPlace(k)
      /\ k.op = "delete" => DeleteInPlace(k)
      /\ k.op \in {"write", "update"} /\ k.job \in Ids => job[k.job].rec = k.rec
  BY <1>1, ConstantsAssumption DEF TypeOK, RequestInPlace, References
<1>3. ASSUME k.op \in {"write", "update", "delete"}
      PROVE  k.rec \in Records /\ Untouched(k.rec)
  <2>1. k.rec \in Records
    BY <1>2, <1>3 DEF ClientLocals, ClientState
  <2>. QED BY <1>1, <2>1
<1>4. ASSUME k.op = "write" PROVE WriteInPlace(k)'
  <2>1. Untouched(k.rec) /\ WriteInPlace(k)
    BY <1>2, <1>3, <1>4
  <2>2. \A j \in Ids : job'[j].rec = k.rec =>
            k.pc # "create" /\ j = k.job /\ job'[j].status = "pending"
    BY <2>1 DEF WriteInPlace, Untouched
  <2>. QED BY <2>1, <2>2, UntouchedSame, OnTheWayKept DEF WriteInPlace
<1>5. ASSUME k.op = "update" PROVE UpdateInPlace(k)'
  <2>1. Untouched(k.rec) /\ UpdateInPlace(k)
    BY <1>2, <1>3, <1>5
  <2>2. k.pc \in {"deleteVectors", "upsert", "pointIds", "markQdrant", "undo", "mark"} =>
            k.job \in Ids /\ job[k.job].rec = k.rec
    BY <1>2, <1>5 DEF ClientLocals
  <2>3. k.pc \in {"deleteVectors", "upsert", "pointIds", "markQdrant", "undo", "mark"} =>
            job'[k.job].q = job[k.job].q
    BY <2>1, <2>2 DEF Untouched
  <2>. QED BY <2>1, <2>3, UntouchedSame, OnTheWayKept DEF UpdateInPlace
<1>6. ASSUME k.op = "delete" PROVE DeleteInPlace(k)'
  <2>1. Untouched(k.rec) /\ DeleteInPlace(k)
    BY <1>2, <1>3, <1>6
  <2>2. k.set \in Ids
    BY <1>2, <1>6 DEF ClientLocals
  <2>3. chunkSet'[k.set].rec = k.rec /\ record'[k.rec].state = "archived"
    BY <2>1, <2>2 DEF Untouched, DeleteInPlace
  <2>. QED BY <2>1, <2>3, UntouchedSame DEF DeleteInPlace
<1>7. client'[c] = k
  BY <1>1
<1>. QED BY <1>4, <1>5, <1>6, <1>7 DEF RequestInPlace, WriteInPlace, UpdateInPlace, DeleteInPlace,
       OnTheWay, Synced, InSync, StoredOf, PointsOf, SetsOf, Acknowledged, Settled, JobsOf, Present

\* So is a sweeper, if the records of its jobs are.
LEMMA SweeperKept ==
  ASSUME TypeOK, References, NEW s \in Sweepers, sweeper'[s] = sweeper[s],
         \A j \in Held(s) : Untouched(job[j].rec), SweeperInPlace(s)
  PROVE  SweeperInPlace(s)'
<1>1. Held(s)' = Held(s) /\ Held(s) \subseteq Ids
  BY DEF Held, TypeOK, SweeperState
<1>2. \A j \in Held(s) : job'[j].q = "pending" /\ job'[j].rec = job[j].rec
  BY <1>1 DEF SweeperInPlace, Untouched
<1>3. ASSUME sweeper[s].job \in Ids
      PROVE  OnTheWay(sweeper[s].pc, job[sweeper[s].job].rec, sweeper[s].set)'
  <2>1. sweeper[s].job \in Held(s)
    BY <1>3 DEF Held
  <2>2. PICK r, pc, g : r = job[sweeper[s].job].rec /\ pc = sweeper[s].pc /\ g = sweeper[s].set
    OBVIOUS
  <2>3. OnTheWay(pc, r, g) /\ Untouched(r)
    BY <1>3, <2>1, <2>2 DEF SweeperInPlace
  <2>4. OnTheWay(pc, r, g)'
    BY <2>3, OnTheWayKept
  <2>5. job'[sweeper'[s].job].rec = r /\ sweeper'[s].pc = pc /\ sweeper'[s].set = g
    BY <1>2, <2>1, <2>2
  <2>. QED BY <2>4, <2>5 DEF OnTheWay, Synced, InSync, StoredOf, PointsOf, SetsOf
<1>. QED BY <1>1, <1>2, <1>3 DEF SweeperInPlace

\* Nobody but the one who acts is on its record.
LEMMA SerialClient ==
  ASSUME SerialInv, WriteAheadInv', NoOverlap', NEW c \in Clients, NEW r \in Records,
         client[c].rec = r \/ client'[c].rec = r,
         client'[c].rec \in {r, NoRecord}, client[c].rec \in {r, NoRecord},
         \A d \in Clients \ {c} : client'[d] = client[d], UNCHANGED sweeper,
         OthersUntouched(r),
         \A j \in Ids : job'[j].rec = r /\ Present(j)' => Exists(r)',
         Clean(r)', RequestInPlace(c)'
  PROVE  SerialInv'
<1>0. /\ TypeOK /\ References /\ NoOverlap /\ JobsExist /\ NoRecord \notin Records
      /\ \A q \in Records : Clean(q)
      /\ \A d \in Clients : RequestInPlace(d)
      /\ \A t \in Sweepers : SweeperInPlace(t)
      /\ TypeOK' /\ References'
  BY ConstantsAssumption DEF SerialInv, WriteAheadInv, StoreInv
<1>1. \A d \in Clients \ {c} : client[d].rec # r
  BY <1>0 DEF NoOverlap, ClientsOn
<1>2. \A t \in Sweepers : \A j \in Held(t) : job[j].rec # r
  <2>1. ASSUME NEW t \in Sweepers, NEW j \in Held(t), job[j].rec = r
        PROVE  FALSE
    <3>1. t \in SweepersOn(r) /\ Held(t)' = Held(t) /\ j \in Ids
      BY <1>0, <2>1 DEF SweepersOn, Held, TypeOK, SweeperState
    <3>2. client[c].rec # r
      BY <1>0, <3>1 DEF NoOverlap, ClientsOn
    <3>3. job'[j].rec = r
      <4>1. job'[j].rec \in Records
        BY <1>0, <2>1, <3>1 DEF References
      <4>. QED BY <2>1, <3>1, <4>1 DEF OthersUntouched, Untouched
    <3>4. t \in SweepersOn(r)'
      BY <2>1, <3>1, <3>3 DEF SweepersOn, Held
    <3>. QED BY <3>2, <3>4 DEF NoOverlap, ClientsOn
  <2>. QED BY <2>1
<1>3. ASSUME NEW q \in Records \ {r}
      PROVE  Clean(q)'
  <2>1. Untouched(q) /\ Clean(q)
    BY <1>0 DEF OthersUntouched
  <2>2. MayBeLive(q)' => MayBeLive(q)
    <3>1. ClientsOn(q)' = ClientsOn(q) /\ c \notin ClientsOn(q)
      BY <1>0 DEF ClientsOn
    <3>. QED BY <2>1, <3>1 DEF MayBeLive, Untouched, ClientsOn
  <2>. QED BY <2>1, <2>2, UntouchedSame DEF Clean
<1>4. ASSUME NEW d \in Clients \ {c}
      PROVE  RequestInPlace(d)'
  BY <1>0, <1>1, RequestKept DEF OthersUntouched
<1>5. ASSUME NEW t \in Sweepers
      PROVE  SweeperInPlace(t)'
  <2>1. \A j \in Held(t) : job[j].rec \in Records \ {r}
    BY <1>0, <1>2 DEF References
  <2>. QED BY <1>0, <2>1, SweeperKept DEF OthersUntouched
<1>6. JobsExist'
  <2>1. ASSUME NEW j \in Ids, Present(j)', job'[j].rec # r
        PROVE  Exists(job[j].rec) /\ job'[j].rec = job[j].rec /\ job[j].rec \in Records \ {r}
    <3>1. job'[j].rec \in Records \ {r}
      BY <1>0, <2>1 DEF References
    <3>2. PICK q \in Records \ {r} : q = job'[j].rec
      BY <3>1
    <3>3. job[j].rec = q /\ job'[j].q = job[j].q
      BY <3>2 DEF OthersUntouched, Untouched
    <3>. QED BY <1>0, <2>1, <3>2, <3>3 DEF JobsExist, Present
  <2>2. ASSUME NEW j \in Ids, Present(j)'
        PROVE  record'[job'[j].rec].state \in {"live", "archived"}
    BY <2>1, <2>2 DEF OthersUntouched, Untouched, Exists
  <2>. QED BY <2>2 DEF JobsExist, Exists
<1>7. (\A q \in Records : Clean(q))'
  BY <1>3
<1>8. (\A d \in Clients : RequestInPlace(d))' /\ (\A t \in Sweepers : SweeperInPlace(t))'
  BY <1>4, <1>5
<1>. QED BY <1>6, <1>7, <1>8 DEF SerialInv

\* Sweepers change neither requests nor records.
LEMMA SerialSweeper ==
  ASSUME SerialInv, WriteAheadInv', NoOverlap', NEW s \in Sweepers, NEW r \in Records,
         s \in SweepersOn(r), OthersUntouched(r),
         UNCHANGED <<record, client>>, \A j \in Ids : job'[j].rec = job[j].rec,
         \A j \in Ids : Present(j)' => Present(j),
         \A t \in Sweepers \ {s} : sweeper'[t] = sweeper[t],
         Clean(r)', SweeperInPlace(s)'
  PROVE  SerialInv'
<1>0. /\ TypeOK /\ References /\ NoOverlap /\ JobsExist /\ NoRecord \notin Records
      /\ \A q \in Records : Clean(q)
      /\ \A d \in Clients : RequestInPlace(d)
      /\ \A t \in Sweepers : SweeperInPlace(t)
      /\ TypeOK'
  BY ConstantsAssumption DEF SerialInv, WriteAheadInv, StoreInv
<1>1. \A d \in Clients : client[d].rec # r
  BY <1>0 DEF NoOverlap, ClientsOn
<1>2. \A t \in Sweepers \ {s} : \A j \in Held(t) : job[j].rec # r
  BY <1>0 DEF NoOverlap, SweepersOn, Held
<1>3. ASSUME NEW q \in Records \ {r}
      PROVE  Clean(q)'
  <2>1. Untouched(q) /\ Clean(q)
    BY <1>0 DEF OthersUntouched
  <2>2. MayBeLive(q)' => MayBeLive(q)
    BY DEF MayBeLive, ClientsOn
  <2>. QED BY <2>1, <2>2, UntouchedSame DEF Clean
<1>4. ASSUME NEW d \in Clients
      PROVE  RequestInPlace(d)'
  BY <1>0, <1>1, RequestKept DEF OthersUntouched
<1>5. ASSUME NEW t \in Sweepers \ {s}
      PROVE  SweeperInPlace(t)'
  <2>1. \A j \in Held(t) : job[j].rec \in Records \ {r}
    BY <1>0, <1>2 DEF References
  <2>. QED BY <1>0, <2>1, SweeperKept DEF OthersUntouched
<1>6. JobsExist'
  BY <1>0 DEF JobsExist, Exists
<1>7. (\A q \in Records : Clean(q))'
  BY <1>3
<1>8. (\A d \in Clients : RequestInPlace(d))' /\ (\A t \in Sweepers : SweeperInPlace(t))'
  BY <1>4, <1>5
<1>. QED BY <1>6, <1>7, <1>8 DEF SerialInv

\* Who is at work on a record finds the reasons for it to be clean.
LEMMA StaysClean ==
  ASSUME NEW r,
         \/ ~Acknowledged(r)' \/ ~Settled(r)' \/ Synced(r)'
         \/ /\ Clean(r) /\ (MayBeLive(r)' => MayBeLive(r))
            /\ \A g \in Ids : chunkSet'[g].rec = r <=> chunkSet[g].rec = r
            /\ UNCHANGED <<stored, pointIds, points>>
            /\ \A j \in Ids : job'[j].rec = r <=> job[j].rec = r
            /\ \A j \in Ids : job'[j].q = job[j].q /\ job'[j].status = job[j].status
  PROVE  Clean(r)'
<1>1. CASE ~Acknowledged(r)' \/ ~Settled(r)'
  BY <1>1 DEF Clean
<1>2. CASE Synced(r)'
  BY <1>2 DEF Clean, Synced, InSync
<1>3. CASE /\ Clean(r) /\ (MayBeLive(r)' => MayBeLive(r))
           /\ \A g \in Ids : chunkSet'[g].rec = r <=> chunkSet[g].rec = r
           /\ UNCHANGED <<stored, pointIds, points>>
           /\ \A j \in Ids : job'[j].rec = r <=> job[j].rec = r
           /\ \A j \in Ids : job'[j].q = job[j].q /\ job'[j].status = job[j].status
  <2>1. StoredOf(r)' = StoredOf(r) /\ PointsOf(r)' = PointsOf(r)
    BY <1>3 DEF StoredOf, PointsOf, SetsOf
  <2>2. JobsOf(r)' = JobsOf(r) /\ \A j \in JobsOf(r) : j \in Ids
    BY <1>3 DEF JobsOf, Present
  <2>3. (Acknowledged(r)' <=> Acknowledged(r)) /\ (Settled(r)' <=> Settled(r))
    BY <1>3, <2>2 DEF Acknowledged, Settled
  <2>4. Synced(r)' <=> Synced(r)
    BY <1>3, <2>1 DEF Synced, InSync
  <2>. QED BY <1>3, <2>1, <2>3, <2>4 DEF Clean
<1>. QED BY <1>1, <1>2, <1>3

LEMMA NoNewLive ==
  ASSUME NEW c \in Clients, NEW r, \A d \in Clients \ {c} : client'[d] = client[d],
         client'[c].pc # "commit", record'[r].state = "live" => MayBeLive(r)
  PROVE  MayBeLive(r)' => MayBeLive(r)
  BY DEF MayBeLive, ClientsOn

\* What a step of a request touches.
LEMMA RequestTouches ==
  ASSUME TypeOK, References, JobsExist, NEW c \in Clients, RequestInPlace(c), ClientStep(c),
         NEW r, r = client[c].rec
  PROVE  /\ r \in Records /\ UNCHANGED sweeper /\ OthersUntouched(r)
         /\ \A d \in Clients \ {c} : client'[d] = client[d]
         /\ client'[c].rec \in {r, NoRecord}
         /\ \A j \in Ids : job'[j].rec = r /\ Present(j)' => Exists(r)'
<1> DEFINE k == client[c]
<1>0. /\ NoRecord \notin Records /\ k \in ClientState /\ ClientLocals(k) /\ k.pc # "idle"
      /\ r \in Records
  BY ConstantsAssumption
     DEF TypeOK, ClientStep, CreateJob, InsertChunks, WriteAhead, CommitUpdate, Embed, ReplaceChunks,
         DeleteVectors, Upsert, UpdatePointIds, MarkQdrantCompleted, MarkCompleted,
         DeleteOwnPoints, MarkRetry, EraseRecord, DeletePoints, ClientLocals, ClientState
<1>1. ASSUME NEW pc, Proceed(c, pc)
      PROVE  /\ \A d \in Clients \ {c} : client'[d] = client[d]
             /\ client'[c].rec \in {r, NoRecord}
  BY <1>1, ProceedLocals DEF IdleClient
<1>2. ASSUME NEW n, client' = [client EXCEPT ![c] = n], n.rec = r
      PROVE  /\ \A d \in Clients \ {c} : client'[d] = client[d]
             /\ client'[c].rec \in {r, NoRecord}
  BY <1>2 DEF TypeOK
<1>3. UNCHANGED <<record, chunkSet, stored, pointIds, points, job>> =>
         /\ OthersUntouched(r)
         /\ \A j \in Ids : job'[j].rec = r /\ Present(j)' => Exists(r)'
  BY DEF OthersUntouched, Untouched, JobsExist, Present, Exists
<1>4. CASE CreateJob(c)
  <2>1. CASE Throw(c) /\ UNCHANGED job
    BY <1>0, <1>1, <1>3, <1>4, <2>1 DEF CreateJob, Throw
  <2>2. ASSUME NEW j \in Ids, Exists(r), NextJob(j), job' = [job EXCEPT ![j] = NewJob(r, "null")],
               client' = [client EXCEPT ![c].pc = "insert", ![c].job = j]
        PROVE  /\ OthersUntouched(r)
               /\ \A d \in Clients \ {c} : client'[d] = client[d]
               /\ client'[c].rec \in {r, NoRecord}
               /\ \A i \in Ids : job'[i].rec = r /\ Present(i)' => Exists(r)'
    <3>1. client' = [client EXCEPT ![c] = [k EXCEPT !.pc = "insert", !.job = j]]
      BY <2>2
    <3>2. [k EXCEPT !.pc = "insert", !.job = j].rec = r
      BY <1>0 DEF ClientState
    <3>3. \A i \in Ids : job'[i] = IF i = j THEN NewJob(r, "null") ELSE job[i]
      BY <2>2 DEF TypeOK
    <3>4. NewJob(r, "null").rec = r /\ job[j].rec = NoRecord
      BY <2>2, FreshJob DEF NewJob
    <3>5. UNCHANGED <<record, chunkSet, stored, pointIds, points>>
      BY <1>4 DEF CreateJob
    <3>6. OthersUntouched(r)
      BY <1>0, <3>3, <3>4, <3>5 DEF OthersUntouched, Untouched
    <3>. QED BY <1>2, <2>2, <3>1, <3>2, <3>5, <3>6 DEF Exists
  <2>. QED BY <1>0, <1>4, <2>1, <2>2 DEF CreateJob
<1>5. CASE InsertChunks(c)
  <2>1. CASE Throw(c) /\ UNCHANGED <<chunkSet, stored>>
    BY <1>0, <1>1, <1>3, <1>5, <2>1 DEF InsertChunks, Throw
  <2>2. ASSUME NEW g \in Ids, NextSet(g),
               chunkSet' = [chunkSet EXCEPT ![g] = [rec |-> r, ver |-> k.ver, job |-> k.job]],
               stored' = stored \cup {g},
               client' = [client EXCEPT ![c].pc = "writeAhead", ![c].set = g]
        PROVE  /\ OthersUntouched(r)
               /\ \A d \in Clients \ {c} : client'[d] = client[d]
               /\ client'[c].rec \in {r, NoRecord}
               /\ \A i \in Ids : job'[i].rec = r /\ Present(i)' => Exists(r)'
    <3>1. client' = [client EXCEPT ![c] = [k EXCEPT !.pc = "writeAhead", !.set = g]]
      BY <2>2
    <3>2. [k EXCEPT !.pc = "writeAhead", !.set = g].rec = r
      BY <1>0 DEF ClientState
    <3>3. \A h \in Ids : chunkSet'[h].rec = IF h = g THEN r ELSE chunkSet[h].rec
      BY <2>2 DEF TypeOK
    <3>4. chunkSet[g].rec = NoRecord
      BY <2>2, FreshSet
    <3>5. UNCHANGED <<record, job, pointIds, points>>
      BY <1>5 DEF InsertChunks
    <3>6. OthersUntouched(r)
      BY <1>0, <2>2, <3>3, <3>4, <3>5 DEF OthersUntouched, Untouched
    <3>. QED BY <1>2, <3>1, <3>2, <3>5, <3>6 DEF JobsExist, Present, Exists
  <2>. QED BY <1>0, <1>5, <2>1, <2>2 DEF InsertChunks
<1>6. CASE CommitUpdate(c)
  <2>1. CASE Throw(c) /\ UNCHANGED record
    BY <1>0, <1>1, <1>3, <1>6, <2>1 DEF CommitUpdate, Throw
  <2>2. CASE /\ Exists(r)
             /\ record' = [record EXCEPT ![r].state = k.read, ![r].ver = record[r].ver + 1]
             /\ client' = [client EXCEPT ![c].pc = "embed", ![c].ver = record[r].ver + 1]
    <3>1. client' = [client EXCEPT ![c] = [k EXCEPT !.pc = "embed", !.ver = record[r].ver + 1]]
      BY <2>2
    <3>2. [k EXCEPT !.pc = "embed", !.ver = record[r].ver + 1].rec = r
      BY <1>0 DEF ClientState
    <3>3. k.read \in {"live", "archived"}
      BY <1>0, <1>6 DEF CommitUpdate, ClientLocals, ClientState, WritePcs, StoredPcs, OpKinds
    <3>4. \A q \in Records : record'[q].state = IF q = r THEN k.read ELSE record[q].state
      BY <2>2 DEF TypeOK, RecordState
    <3>5. UNCHANGED <<chunkSet, stored, pointIds, points, job, sweeper>>
      BY <1>6 DEF CommitUpdate
    <3>. QED BY <1>0, <1>2, <3>1, <3>2, <3>3, <3>4, <3>5 DEF OthersUntouched, Untouched, Exists
  <2>. QED BY <1>0, <1>6, <2>1, <2>2 DEF CommitUpdate
<1>7. CASE ReplaceChunks(c)
  <2>1. CASE Throw(c) /\ UNCHANGED <<chunkSet, stored, pointIds, job>>
    BY <1>0, <1>1, <1>3, <1>7, <2>1 DEF ReplaceChunks, Throw
  <2>2. ASSUME NEW g \in Ids, NEW j \in Ids, NextSet(g), NextJob(j), Exists(r),
               chunkSet' = [chunkSet EXCEPT ![g] = [rec |-> r, ver |-> k.ver, job |-> j]],
               stored' = (stored \ StoredOf(r)) \cup {g},
               pointIds' = pointIds \ StoredOf(r),
               job' = [job EXCEPT ![j] = NewJob(r, "later")],
               client' = [client EXCEPT ![c].pc = "deleteVectors", ![c].set = g, ![c].job = j]
        PROVE  /\ OthersUntouched(r)
               /\ \A d \in Clients \ {c} : client'[d] = client[d]
               /\ client'[c].rec \in {r, NoRecord}
               /\ \A i \in Ids : job'[i].rec = r /\ Present(i)' => Exists(r)'
    <3>1. client' = [client EXCEPT ![c] = [k EXCEPT !.pc = "deleteVectors", !.set = g, !.job = j]]
      BY <2>2
    <3>2. [k EXCEPT !.pc = "deleteVectors", !.set = g, !.job = j].rec = r
      BY <1>0 DEF ClientState
    <3>3. /\ \A h \in Ids : chunkSet'[h].rec = IF h = g THEN r ELSE chunkSet[h].rec
          /\ \A i \in Ids : job'[i] = IF i = j THEN NewJob(r, "later") ELSE job[i]
      BY <2>2 DEF TypeOK
    <3>4. chunkSet[g].rec = NoRecord /\ NewJob(r, "later").rec = r /\ job[j].rec = NoRecord
      BY <2>2, FreshSet, FreshJob DEF NewJob
    <3>5. UNCHANGED <<record, points>>
      BY <1>7 DEF ReplaceChunks
    <3>6. \A h \in StoredOf(r) : chunkSet[h].rec = r
      BY DEF StoredOf, SetsOf
    <3>7. OthersUntouched(r)
      BY <1>0, <2>2, <3>3, <3>4, <3>5, <3>6 DEF OthersUntouched, Untouched
    <3>. QED BY <1>2, <2>2, <3>1, <3>2, <3>5, <3>7 DEF Exists
  <2>. QED BY <1>0, <1>7, <2>1, <2>2 DEF ReplaceChunks
<1>8. CASE EraseRecord(c)
  <2>1. Proceed(c, "idle") /\ UNCHANGED <<chunkSet, points, sweeper>>
    BY <1>8 DEF EraseRecord
  <2>2. CASE UNCHANGED <<record, stored, pointIds, job>>
    BY <1>0, <1>1, <1>3, <2>1, <2>2
  <2>3. CASE /\ record' = [record EXCEPT ![r].state = "gone"]
             /\ stored' = stored \ StoredOf(r)
             /\ pointIds' = pointIds \ StoredOf(r)
             /\ job' = [j \in Ids |-> IF job[j].rec = r
                                      THEN [job[j] EXCEPT !.q = "absent"] ELSE job[j]]
    <3>1. \A q \in Records \ {r} : record'[q].state = record[q].state
      BY <2>3 DEF TypeOK, RecordState
    <3>2. \A j \in Ids : /\ job[j].rec # r => job'[j] = job[j]
                         /\ job'[j].rec = job[j].rec
                         /\ job[j].rec = r => job'[j].q = "absent"
      BY <2>3 DEF TypeOK, JobState
    <3>3. \A h \in StoredOf(r) : chunkSet[h].rec = r
      BY DEF StoredOf, SetsOf
    <3>4. OthersUntouched(r)
      BY <2>1, <2>3, <3>1, <3>2, <3>3 DEF OthersUntouched, Untouched
    <3>. QED BY <1>0, <1>1, <2>1, <3>2, <3>4 DEF Present
  <2>. QED BY <1>8, <2>2, <2>3 DEF EraseRecord
<1>9. CASE WriteAhead(c) \/ MarkRetry(c) \/ MarkQdrantCompleted(c) \/ MarkCompleted(c)
  <2>1. PICK pc : Proceed(c, pc)
    BY <1>9 DEF WriteAhead, MarkRetry, MarkQdrantCompleted, MarkCompleted, Throw
  <2>2. UNCHANGED <<record, chunkSet, stored, pointIds, points, sweeper>>
    BY <1>9 DEF WriteAhead, MarkRetry, MarkQdrantCompleted, MarkCompleted
  <2>3. \/ job' = job
        \/ /\ Present(k.job)
           /\ \/ SetQdrantPending(k.job, 0)
              \/ SetQdrantCompleted(k.job)
              \/ job' = [job EXCEPT ![k.job].status = "completed"]
    BY <1>9 DEF WriteAhead, MarkRetry, MarkQdrantCompleted, MarkCompleted
  <2>4. k.job \in Ids => job[k.job].rec = r
    BY <1>0, <1>9 DEF References, WriteAhead, MarkRetry, MarkQdrantCompleted, MarkCompleted,
                      ClientLocals, ClientState, OpKinds
  <2>5. \A j \in Ids : job'[j].rec = job[j].rec /\ (Present(j)' => Present(j))
                       /\ (j # k.job => job'[j] = job[j])
    BY <2>3, PendingRows, CompletedRows, StatusRows DEF Present
  <2>6. OthersUntouched(r)
    BY <2>2, <2>4, <2>5 DEF OthersUntouched, Untouched
  <2>. QED BY <1>0, <1>1, <2>1, <2>2, <2>5, <2>6 DEF JobsExist, Exists
<1>10. CASE Embed(c) \/ DeleteVectors(c) \/ Upsert(c) \/ UpdatePointIds(c)
            \/ DeleteOwnPoints(c) \/ DeletePoints(c)
  <2>1. PICK pc : Proceed(c, pc)
    BY <1>10 DEF Embed, DeleteVectors, Upsert, UpdatePointIds, DeleteOwnPoints, DeletePoints, Throw
  <2>2. UNCHANGED <<record, chunkSet, stored, job, sweeper>>
    BY <1>10 DEF Embed, DeleteVectors, Upsert, UpdatePointIds, DeleteOwnPoints, DeletePoints,
                stores, rows
  <2>3. k.set \in Ids /\ k.op # "none" => chunkSet[k.set].rec = r
    BY <1>0 DEF References, RequestInPlace, DeleteInPlace, ClientState, OpKinds
  <2>4. Upsert(c) \/ UpdatePointIds(c) \/ DeleteOwnPoints(c) \/ DeletePoints(c) =>
          k.set \in Ids /\ k.op # "none"
    BY <1>0, <1>10 DEF Upsert, UpdatePointIds, DeleteOwnPoints, DeletePoints, ClientLocals,
                       ClientState, OpKinds, WritePcs, UpdatePcs, StoredPcs
  <2>5. \A g \in Ids : chunkSet[g].rec # r =>
          (g \in points' <=> g \in points) /\ (g \in pointIds' <=> g \in pointIds)
    <3>1. CASE Embed(c)
      BY <3>1 DEF Embed, stores
    <3>2. CASE DeleteVectors(c)
      BY <3>2 DEF DeleteVectors, VectorCall, rows, SetsOf
    <3>3. CASE Upsert(c)
      BY <2>3, <2>4, <3>3 DEF Upsert, VectorCall, rows
    <3>4. CASE UpdatePointIds(c)
      BY <2>3, <2>4, <3>4 DEF UpdatePointIds
    <3>5. CASE DeleteOwnPoints(c) \/ DeletePoints(c)
      BY <2>3, <2>4, <3>5 DEF DeleteOwnPoints, DeletePoints, VectorCall, rows
    <3>. QED BY <1>10, <3>1, <3>2, <3>3, <3>4, <3>5
  <2>6. OthersUntouched(r)
    BY <2>2, <2>5 DEF OthersUntouched, Untouched
  <2>. QED BY <1>0, <1>1, <2>1, <2>2, <2>6 DEF JobsExist, Present, Exists
<1>. QED BY <1>4, <1>5, <1>6, <1>7, <1>8, <1>9, <1>10, <1>0 DEF ClientStep

\* A write: until markCompleted none of its record's jobs is completed.
LEMMA SerialWriter ==
  ASSUME SerialInv, NEW c \in Clients, ClientStep(c), NEW k, k = client[c], k.op = "write"
  PROVE  Clean(k.rec)' /\ RequestInPlace(c)'
<1>0. /\ TypeOK /\ References /\ NoRecord \notin Records
      /\ k \in ClientState /\ ClientLocals(k) /\ WriteInPlace(k) /\ k.rec \in Records
      /\ k.pc \in WritePcs
  BY ConstantsAssumption DEF SerialInv, WriteAheadInv, StoreInv, TypeOK, RequestInPlace,
                             ClientLocals, ClientState
<1>1. PICK r : r = k.rec
  OBVIOUS
<1>2. /\ k.pc # "create" => k.job \in Ids /\ job[k.job].rec = r
      /\ k.pc \notin {"create", "insert", "erase"} => k.set \in Ids /\ chunkSet[k.set].rec = r
  BY <1>0, <1>1 DEF ClientLocals, References
<1>3. \A j \in Ids : job[j].rec = r => k.pc # "create" /\ j = k.job /\ job[j].status = "pending"
  BY <1>0, <1>1 DEF WriteInPlace
<1>4. (\A j \in Ids : job'[j].rec = r => job'[j].status = "pending") => Clean(r)'
  BY StaysClean DEF Acknowledged, JobsOf
<1>5. ASSUME client'[c] = IdleClient
      PROVE  RequestInPlace(c)'
  BY <1>5 DEF RequestInPlace, IdleClient
<1>6. ASSUME NEW n, client'[c] = n, n.op = "write", WriteInPlace(n)'
      PROVE  RequestInPlace(c)'
  BY <1>6 DEF RequestInPlace, WriteInPlace, OnTheWay, Synced, InSync, StoredOf, PointsOf, SetsOf
<1>7. ASSUME NEW pc, Proceed(c, pc), pc # "idle", pc # "create"
      PROVE  \E n : /\ client'[c] = n /\ n.op = "write" /\ n.pc = pc
                    /\ n.rec = r /\ n.job = k.job /\ n.set = k.set
  BY <1>0, <1>1, <1>7, ProceedLocals
<1>8. ASSUME Proceed(c, "idle")
      PROVE  RequestInPlace(c)'
  BY <1>0, <1>5, <1>8, ProceedLocals
\* Steps that leave the jobs' records and status as they are.
<1>9. ASSUME NEW pc \in {"rollback", "erase"}, Proceed(c, pc), k.pc # "create",
             \A j \in Ids : job'[j].rec = job[j].rec /\ job'[j].status = job[j].status
      PROVE  Clean(r)' /\ RequestInPlace(c)'
  <2>1. PICK n : /\ client'[c] = n /\ n.op = "write" /\ n.pc = pc
                 /\ n.rec = r /\ n.job = k.job /\ n.set = k.set
    BY <1>7, <1>9
  <2>2. WriteInPlace(n)'
    BY <1>3, <1>9, <2>1 DEF WriteInPlace, OnTheWay
  <2>. QED BY <1>3, <1>4, <1>6, <1>9, <2>1, <2>2
<1>10. CASE CreateJob(c)
  <2>1. CASE Throw(c) /\ UNCHANGED job
    <3>1. Proceed(c, "idle")
      BY <1>1, <1>10, <2>1 DEF CreateJob, Throw, Catch
    <3>. QED BY <1>1, <1>3, <1>4, <1>8, <2>1, <3>1
  <2>2. ASSUME NEW j \in Ids, NextJob(j), job' = [job EXCEPT ![j] = NewJob(r, "null")],
               client' = [client EXCEPT ![c].pc = "insert", ![c].job = j]
        PROVE  Clean(r)' /\ RequestInPlace(c)'
    <3>1. PICK n : n = [k EXCEPT !.pc = "insert", !.job = j]
      OBVIOUS
    <3>2. client'[c] = n
      BY <1>0, <2>2, <3>1 DEF TypeOK
    <3>3. n.op = "write" /\ n.pc = "insert" /\ n.rec = r /\ n.job = j
      BY <1>0, <1>1, <3>1 DEF ClientState
    <3>4. \A i \in Ids : job'[i] = IF i = j THEN NewJob(r, "null") ELSE job[i]
      BY <1>0, <2>2 DEF TypeOK
    <3>5. NewJob(r, "null").status = "pending"
      BY DEF NewJob
    <3>6. \A i \in Ids : job'[i].rec = r => i = j /\ job'[i].status = "pending"
      BY <1>3, <1>10, <3>4, <3>5 DEF CreateJob
    <3>7. PointsOf(r)' = {}
      <4>1. PointsOf(r) = {} /\ UNCHANGED <<chunkSet, points>>
        BY <1>0, <1>1, <1>10 DEF CreateJob, WriteInPlace
      <4>. QED BY <4>1 DEF PointsOf, SetsOf
    <3>8. WriteInPlace(n)'
      BY <3>3, <3>6, <3>7 DEF WriteInPlace, OnTheWay
    <3>. QED BY <1>4, <1>6, <3>2, <3>3, <3>6, <3>8
  <2>. QED BY <1>1, <1>10, <2>1, <2>2 DEF CreateJob
<1>11. CASE InsertChunks(c)
  <2>0. UNCHANGED <<job, points>> /\ k.pc = "insert" /\ PointsOf(r) = {}
    BY <1>0, <1>1, <1>11 DEF InsertChunks, WriteInPlace
  <2>1. CASE Throw(c)
    <3>1. Proceed(c, "erase")
      BY <1>1, <2>0, <2>1 DEF Throw, Catch
    <3>. QED BY <1>1, <1>9, <2>0, <3>1
  <2>2. ASSUME NEW g \in Ids, NextSet(g), StoredOf(r) = {},
               chunkSet' = [chunkSet EXCEPT ![g] = [rec |-> r, ver |-> k.ver, job |-> k.job]],
               stored' = stored \cup {g},
               client' = [client EXCEPT ![c].pc = "writeAhead", ![c].set = g]
        PROVE  Clean(r)' /\ RequestInPlace(c)'
    <3>1. PICK n : n = [k EXCEPT !.pc = "writeAhead", !.set = g]
      OBVIOUS
    <3>2. client'[c] = n
      BY <1>0, <2>2, <3>1 DEF TypeOK
    <3>3. n.op = "write" /\ n.pc = "writeAhead" /\ n.rec = r /\ n.job = k.job /\ n.set = g
      BY <1>0, <1>1, <3>1 DEF ClientState
    <3>4. \A h \in Ids : chunkSet'[h].rec = IF h = g THEN r ELSE chunkSet[h].rec
      BY <1>0, <2>2 DEF TypeOK
    <3>5. chunkSet[g].rec = NoRecord /\ g \notin points
      BY <1>0, <2>2, FreshSet DEF References
    <3>6. StoredOf(r)' = {g} /\ PointsOf(r)' = {}
      BY <2>0, <2>2, <3>4, <3>5 DEF StoredOf, PointsOf, SetsOf
    <3>7. WriteInPlace(n)'
      BY <1>3, <2>0, <3>3, <3>6 DEF WriteInPlace, OnTheWay
    <3>. QED BY <1>3, <1>4, <1>6, <2>0, <3>2, <3>3, <3>7
  <2>. QED BY <1>1, <1>11, <2>1, <2>2 DEF InsertChunks
<1>12. CASE WriteAhead(c)
  <2>0. /\ UNCHANGED <<chunkSet, stored, points>> /\ k.pc = "writeAhead"
        /\ StoredOf(r) = {k.set} /\ PointsOf(r) = {}
    BY <1>0, <1>1, <1>12 DEF WriteAhead, WriteInPlace
  <2>1. CASE Throw(c) /\ UNCHANGED job
    <3>1. Proceed(c, "erase")
      BY <1>1, <2>0, <2>1 DEF Throw, Catch
    <3>. QED BY <1>1, <1>9, <2>0, <2>1, <3>1
  <2>2. CASE SetQdrantPending(k.job, 0) /\ Proceed(c, "embed")
    <3>1. PICK n : /\ client'[c] = n /\ n.op = "write" /\ n.pc = "embed"
                   /\ n.rec = r /\ n.job = k.job /\ n.set = k.set
      BY <1>7, <2>2
    <3>2. \A j \in Ids : job'[j].rec = job[j].rec /\ job'[j].status = job[j].status
      BY <1>0, <2>2, PendingRows
    <3>3. StoredOf(r)' = StoredOf(r) /\ PointsOf(r)' = PointsOf(r)
      BY <2>0 DEF StoredOf, PointsOf, SetsOf
    <3>4. WriteInPlace(n)'
      BY <1>3, <2>0, <3>1, <3>2, <3>3 DEF WriteInPlace, OnTheWay
    <3>. QED BY <1>1, <1>3, <1>4, <1>6, <3>1, <3>2, <3>4
  <2>. QED BY <1>1, <1>12, <2>1, <2>2 DEF WriteAhead
<1>13. CASE Embed(c)
  <2>0. /\ UNCHANGED <<job, chunkSet, stored, points>> /\ k.pc = "embed"
        /\ StoredOf(r) = {k.set} /\ PointsOf(r) = {}
    BY <1>0, <1>1, <1>13 DEF Embed, WriteInPlace, OnTheWay, stores
  <2>1. CASE Throw(c)
    <3>1. Proceed(c, "erase")
      BY <1>1, <2>0, <2>1 DEF Throw, Catch
    <3>. QED BY <1>1, <1>9, <2>0, <2>1, <3>1
  <2>2. CASE Proceed(c, "upsert")
    <3>1. PICK n : /\ client'[c] = n /\ n.op = "write" /\ n.pc = "upsert"
                   /\ n.rec = r /\ n.job = k.job /\ n.set = k.set
      BY <1>7, <2>2
    <3>2. StoredOf(r)' = StoredOf(r) /\ PointsOf(r)' = PointsOf(r)
      BY <2>0 DEF StoredOf, PointsOf, SetsOf
    <3>3. WriteInPlace(n)'
      BY <1>3, <2>0, <3>1, <3>2 DEF WriteInPlace, OnTheWay
    <3>. QED BY <1>1, <1>3, <1>4, <1>6, <2>0, <3>1, <3>3
  <2>. QED BY <1>1, <1>13, <2>1, <2>2 DEF Embed
<1>14. CASE Upsert(c)
  <2>0. /\ UNCHANGED <<job, chunkSet, stored>> /\ k.pc = "upsert"
        /\ StoredOf(r) = {k.set} /\ PointsOf(r) = {}
    BY <1>0, <1>1, <1>14 DEF Upsert, WriteInPlace, OnTheWay, rows
  <2>1. CASE Throw(c)
    <3>1. Proceed(c, "erase")
      BY <1>1, <2>0, <2>1 DEF Throw, Catch
    <3>. QED BY <1>1, <1>9, <2>0, <2>1, <3>1
  <2>2. CASE points' = points \cup {k.set} /\ Proceed(c, "pointIds")
    <3>1. PICK n : /\ client'[c] = n /\ n.op = "write" /\ n.pc = "pointIds"
                   /\ n.rec = r /\ n.job = k.job /\ n.set = k.set
      BY <1>7, <2>2
    <3>2. StoredOf(r)' = {k.set} /\ PointsOf(r)' = {k.set}
      BY <1>2, <2>0, <2>2 DEF StoredOf, PointsOf, SetsOf
    <3>3. WriteInPlace(n)'
      BY <1>3, <2>0, <3>1, <3>2 DEF WriteInPlace, OnTheWay
    <3>. QED BY <1>1, <1>3, <1>4, <1>6, <2>0, <3>1, <3>3
  <2>. QED BY <1>1, <1>14, <2>1, <2>2 DEF Upsert, VectorCall
<1>15. CASE UpdatePointIds(c)
  <2>0. /\ UNCHANGED <<job, chunkSet, stored, points>> /\ k.pc = "pointIds"
        /\ StoredOf(r) = {k.set} /\ PointsOf(r) = {k.set}
    BY <1>0, <1>1, <1>15 DEF UpdatePointIds, WriteInPlace, OnTheWay
  <2>1. CASE Throw(c)
    <3>1. Proceed(c, "rollback")
      BY <1>1, <2>0, <2>1 DEF Throw, Catch
    <3>. QED BY <1>1, <1>9, <2>0, <2>1, <3>1
  <2>2. CASE pointIds' = pointIds \cup ({k.set} \cap stored) /\ Proceed(c, "markQdrant")
    <3>1. PICK n : /\ client'[c] = n /\ n.op = "write" /\ n.pc = "markQdrant"
                   /\ n.rec = r /\ n.job = k.job /\ n.set = k.set
      BY <1>7, <2>2
    <3>2. StoredOf(r)' = {k.set} /\ PointsOf(r)' = {k.set} /\ k.set \in stored
      BY <2>0 DEF StoredOf, PointsOf, SetsOf
    <3>3. Synced(r)'
      BY <2>2, <3>2 DEF Synced, InSync
    <3>4. WriteInPlace(n)'
      BY <1>3, <2>0, <3>1, <3>3 DEF WriteInPlace, OnTheWay
    <3>. QED BY <1>1, <1>3, <1>4, <1>6, <2>0, <3>1, <3>4
  <2>. QED BY <1>1, <1>15, <2>1, <2>2 DEF UpdatePointIds
<1>16. CASE MarkQdrantCompleted(c)
  <2>0. UNCHANGED <<chunkSet, stored, pointIds, points>> /\ k.pc = "markQdrant" /\ Synced(r)
    BY <1>0, <1>1, <1>16 DEF MarkQdrantCompleted, WriteInPlace, OnTheWay
  <2>1. CASE Throw(c) /\ UNCHANGED job
    <3>1. Proceed(c, "rollback")
      BY <1>1, <2>0, <2>1 DEF Throw, Catch
    <3>. QED BY <1>1, <1>9, <2>0, <2>1, <3>1
  <2>2. CASE SetQdrantCompleted(k.job) /\ Proceed(c, "markDone")
    <3>1. PICK n : /\ client'[c] = n /\ n.op = "write" /\ n.pc = "markDone"
                   /\ n.rec = r /\ n.job = k.job /\ n.set = k.set
      BY <1>7, <2>2
    <3>2. \A j \in Ids : job'[j].rec = job[j].rec /\ job'[j].status = job[j].status
      BY <1>0, <2>2, CompletedRows
    <3>3. Synced(r)'
      BY <2>0 DEF Synced, InSync, StoredOf, PointsOf, SetsOf
    <3>4. WriteInPlace(n)'
      BY <1>3, <2>0, <3>1, <3>2, <3>3 DEF WriteInPlace, OnTheWay
    <3>. QED BY <1>1, <1>3, <1>4, <1>6, <3>1, <3>2, <3>4
  <2>. QED BY <1>1, <1>16, <2>1, <2>2 DEF MarkQdrantCompleted
<1>17. CASE MarkCompleted(c)
  <2>0. UNCHANGED <<chunkSet, stored, pointIds, points>> /\ k.pc = "markDone" /\ Synced(r)
    BY <1>0, <1>1, <1>17 DEF MarkCompleted, WriteInPlace
  <2>1. CASE Throw(c) /\ UNCHANGED job
    <3>1. Proceed(c, "rollback")
      BY <1>1, <2>0, <2>1 DEF Throw, Catch
    <3>. QED BY <1>1, <1>9, <2>0, <2>1, <3>1
  <2>2. CASE Proceed(c, "idle")
    <3>1. Synced(r)'
      BY <2>0 DEF Synced, InSync, StoredOf, PointsOf, SetsOf
    <3>. QED BY <1>1, <1>8, <2>2, <3>1, StaysClean
  <2>. QED BY <1>1, <1>17, <2>1, <2>2 DEF MarkCompleted
<1>18. CASE DeleteOwnPoints(c)
  <2>1. UNCHANGED job /\ k.pc = "rollback" /\ Proceed(c, "erase")
    BY <1>0, <1>1, <1>18 DEF DeleteOwnPoints, rows, WritePcs, StoredPcs
  <2>. QED BY <1>1, <1>9, <2>1
<1>19. CASE EraseRecord(c)
  <2>1. Proceed(c, "idle") /\ k.pc = "erase"
    BY <1>1, <1>19 DEF EraseRecord
  <2>2. \A j \in Ids : job'[j].rec = job[j].rec /\ job'[j].status = job[j].status
    BY <1>0, <1>19 DEF EraseRecord, TypeOK, JobState
  <2>. QED BY <1>1, <1>3, <1>4, <1>8, <2>1, <2>2
<1>20. ~(CommitUpdate(c) \/ ReplaceChunks(c) \/ DeleteVectors(c) \/ MarkRetry(c) \/ DeletePoints(c))
  BY <1>0 DEF CommitUpdate, ReplaceChunks, DeleteVectors, MarkRetry, DeletePoints, WritePcs, StoredPcs
<1>. QED BY <1>1, <1>10, <1>11, <1>12, <1>13, <1>14, <1>15, <1>16, <1>17, <1>18, <1>19, <1>20
     DEF ClientStep

\* An update: from the replaced chunks to the mark its own job is pending.
LEMMA SerialUpdater ==
  ASSUME SerialInv, NEW c \in Clients, ClientStep(c), NEW k, k = client[c], k.op = "update"
  PROVE  Clean(k.rec)' /\ RequestInPlace(c)'
<1>0. /\ TypeOK /\ References /\ NoRecord \notin Records
      /\ k \in ClientState /\ ClientLocals(k) /\ UpdateInPlace(k) /\ k.rec \in Records
      /\ k.pc \in UpdatePcs /\ k.pc # "idle" /\ Clean(k.rec)
  BY ConstantsAssumption DEF SerialInv, WriteAheadInv, StoreInv, TypeOK, RequestInPlace,
                             ClientLocals, ClientState
<1>1. PICK r : r = k.rec
  OBVIOUS
<1>2. k.pc \notin {"commit", "embed", "replace"} =>
        /\ k.job \in Ids /\ job[k.job].rec = r
        /\ k.set \in Ids /\ chunkSet[k.set].rec = r
  BY <1>0, <1>1 DEF ClientLocals, References
<1>3. ASSUME NEW j \in Ids, job'[j].rec = r, job'[j].q = "pending"
      PROVE  Clean(r)'
  BY <1>3, StaysClean DEF Settled, JobsOf, Present
<1>4. \A d \in Clients \ {c} : client'[d] = client[d]
  BY <1>0, <1>1, RequestTouches DEF SerialInv
<1>5. ASSUME UNCHANGED <<chunkSet, stored, pointIds, points, job>>, client'[c].pc # "commit",
             record'[r].state = "live" => MayBeLive(r)
      PROVE  Clean(r)'
  <2>1. MayBeLive(r)' => MayBeLive(r)
    BY <1>4, <1>5, NoNewLive
  <2>. QED BY <1>0, <1>1, <1>5, <2>1, StaysClean
<1>6. ASSUME Proceed(c, "idle")
      PROVE  RequestInPlace(c)'
  BY <1>0, <1>6, ProceedLocals DEF RequestInPlace, IdleClient
<1>7. ASSUME NEW n, client'[c] = n, n.op = "update", UpdateInPlace(n)'
      PROVE  RequestInPlace(c)'
  BY <1>7 DEF RequestInPlace, UpdateInPlace, OnTheWay, Synced, InSync, StoredOf, PointsOf, SetsOf
<1>8. ASSUME NEW pc, Proceed(c, pc), pc # "idle"
      PROVE  \E n : /\ client'[c] = n /\ n.op = "update" /\ n.pc = pc
                    /\ n.rec = r /\ n.job = k.job /\ n.set = k.set
  BY <1>0, <1>1, <1>8, ProceedLocals
<1>9. ASSUME Throw(c), UNCHANGED <<record, chunkSet, stored, pointIds, points, job>>,
             k.pc \in {"commit", "embed", "replace"}
      PROVE  Clean(r)' /\ RequestInPlace(c)'
  <2>1. Proceed(c, "idle")
    BY <1>0, <1>9 DEF Throw, Catch
  <2>2. client'[c] = IdleClient
    BY <1>0, <2>1, ProceedLocals
  <2>3. Clean(r)'
    BY <1>5, <1>9, <2>2 DEF IdleClient, MayBeLive
  <2>. QED BY <1>6, <2>1, <2>3
\* Its own job is pending, before and after.
<1>10. ASSUME NEW pc \in {"mark", "undo"}, Proceed(c, pc), UNCHANGED job, k.job \in Ids,
              job[k.job].q = "pending", job[k.job].rec = r
       PROVE  Clean(r)' /\ RequestInPlace(c)'
  <2>1. PICK n : /\ client'[c] = n /\ n.op = "update" /\ n.pc = pc
                 /\ n.rec = r /\ n.job = k.job /\ n.set = k.set
    BY <1>8, <1>10
  <2>2. UpdateInPlace(n)'
    BY <1>10, <2>1 DEF UpdateInPlace, OnTheWay
  <2>. QED BY <1>3, <1>7, <1>10, <2>1, <2>2
<1>11. CASE CommitUpdate(c)
  <2>0. /\ UNCHANGED <<chunkSet, stored, pointIds, points, job>> /\ k.pc = "commit"
    BY <1>11 DEF CommitUpdate
  <2>1. CASE Throw(c) /\ UNCHANGED record
    BY <1>1, <1>9, <2>0, <2>1
  <2>2. CASE /\ record' = [record EXCEPT ![r].state = k.read, ![r].ver = record[r].ver + 1]
             /\ client' = [client EXCEPT ![c].pc = "embed", ![c].ver = record[r].ver + 1]
    <3>1. PICK n : n = [k EXCEPT !.pc = "embed", !.ver = record[r].ver + 1]
      OBVIOUS
    <3>2. client'[c] = n
      BY <1>0, <2>2, <3>1 DEF TypeOK
    <3>3. n.op = "update" /\ n.pc = "embed"
      BY <1>0, <3>1 DEF ClientState
    <3>4. record'[r].state = k.read
      BY <1>0, <1>1, <2>2 DEF TypeOK, RecordState
    <3>5. record'[r].state = "live" => MayBeLive(r)
      BY <1>1, <2>0, <3>4 DEF MayBeLive, ClientsOn
    <3>6. UpdateInPlace(n)'
      BY <3>3 DEF UpdateInPlace
    <3>. QED BY <1>1, <1>5, <1>7, <2>0, <3>2, <3>3, <3>5, <3>6
  <2>. QED BY <1>1, <1>11, <2>1, <2>2 DEF CommitUpdate
<1>12. CASE Embed(c)
  <2>0. /\ UNCHANGED <<record, chunkSet, stored, pointIds, points, job>> /\ k.pc = "embed"
    BY <1>12 DEF Embed, stores
  <2>1. CASE Throw(c)
    BY <1>1, <1>9, <2>0, <2>1
  <2>2. CASE Proceed(c, "replace")
    <3>1. PICK n : client'[c] = n /\ n.op = "update" /\ n.pc = "replace"
      BY <1>8, <2>2
    <3>2. UpdateInPlace(n)'
      BY <3>1 DEF UpdateInPlace, OnTheWay
    <3>3. record'[r].state = "live" => MayBeLive(r)
      BY <2>0 DEF MayBeLive
    <3>. QED BY <1>1, <1>5, <1>7, <2>0, <3>1, <3>2, <3>3
  <2>. QED BY <1>1, <1>12, <2>1, <2>2 DEF Embed
<1>13. CASE ReplaceChunks(c)
  <2>0. UNCHANGED <<record, points>> /\ k.pc = "replace"
    BY <1>13 DEF ReplaceChunks
  <2>1. CASE Throw(c) /\ UNCHANGED <<chunkSet, stored, pointIds, job>>
    BY <1>1, <1>9, <2>0, <2>1
  <2>2. ASSUME NEW g \in Ids, NEW j \in Ids, NextSet(g), NextJob(j),
               chunkSet' = [chunkSet EXCEPT ![g] = [rec |-> r, ver |-> k.ver, job |-> j]],
               stored' = (stored \ StoredOf(r)) \cup {g},
               job' = [job EXCEPT ![j] = NewJob(r, "later")],
               client' = [client EXCEPT ![c].pc = "deleteVectors", ![c].set = g, ![c].job = j]
        PROVE  Clean(r)' /\ RequestInPlace(c)'
    <3>1. PICK n : n = [k EXCEPT !.pc = "deleteVectors", !.set = g, !.job = j]
      OBVIOUS
    <3>2. client'[c] = n
      BY <1>0, <2>2, <3>1 DEF TypeOK
    <3>3. n.op = "update" /\ n.pc = "deleteVectors" /\ n.rec = r /\ n.job = j /\ n.set = g
      BY <1>0, <1>1, <3>1 DEF ClientState
    <3>4. \A h \in Ids : chunkSet'[h].rec = IF h = g THEN r ELSE chunkSet[h].rec
      BY <1>0, <2>2 DEF TypeOK
    <3>5. job'[j].rec = r /\ job'[j].q = "pending"
      BY <1>0, <2>2 DEF TypeOK, NewJob
    <3>6. StoredOf(r)' = {g}
      BY <2>2, <3>4 DEF StoredOf, SetsOf
    <3>7. UpdateInPlace(n)'
      BY <3>3, <3>5, <3>6 DEF UpdateInPlace, OnTheWay
    <3>. QED BY <1>3, <1>7, <3>2, <3>3, <3>5, <3>7
  <2>. QED BY <1>1, <1>13, <2>1, <2>2 DEF ReplaceChunks
<1>14. CASE DeleteVectors(c)
  <2>0. /\ UNCHANGED <<job, chunkSet, stored>> /\ k.pc = "deleteVectors"
        /\ StoredOf(r) = {k.set} /\ job[k.job].q = "pending"
    BY <1>0, <1>1, <1>14 DEF DeleteVectors, UpdateInPlace, OnTheWay, rows
  <2>1. CASE Throw(c)
    <3>1. Proceed(c, "mark")
      BY <1>0, <1>1, <2>0, <2>1 DEF Throw, Catch
    <3>. QED BY <1>1, <1>2, <1>10, <2>0, <3>1
  <2>2. CASE points' = points \ SetsOf(r) /\ Proceed(c, "upsert")
    <3>1. PICK n : /\ client'[c] = n /\ n.op = "update" /\ n.pc = "upsert"
                   /\ n.rec = r /\ n.job = k.job /\ n.set = k.set
      BY <1>8, <2>2
    <3>2. StoredOf(r)' = {k.set} /\ PointsOf(r)' = {}
      BY <2>0, <2>2 DEF StoredOf, PointsOf, SetsOf
    <3>3. UpdateInPlace(n)'
      BY <2>0, <3>1, <3>2 DEF UpdateInPlace, OnTheWay
    <3>. QED BY <1>1, <1>2, <1>3, <1>7, <2>0, <3>1, <3>3
  <2>. QED BY <1>1, <1>14, <2>1, <2>2 DEF DeleteVectors, VectorCall
<1>15. CASE Upsert(c)
  <2>0. /\ UNCHANGED <<job, chunkSet, stored>> /\ k.pc = "upsert"
        /\ StoredOf(r) = {k.set} /\ PointsOf(r) = {} /\ job[k.job].q = "pending"
    BY <1>0, <1>1, <1>15 DEF Upsert, UpdateInPlace, OnTheWay, rows
  <2>1. CASE Throw(c)
    <3>1. Proceed(c, "mark")
      BY <1>0, <1>1, <2>0, <2>1 DEF Throw, Catch
    <3>. QED BY <1>1, <1>2, <1>10, <2>0, <3>1
  <2>2. CASE points' = points \cup {k.set} /\ Proceed(c, "pointIds")
    <3>1. PICK n : /\ client'[c] = n /\ n.op = "update" /\ n.pc = "pointIds"
                   /\ n.rec = r /\ n.job = k.job /\ n.set = k.set
      BY <1>8, <2>2
    <3>2. StoredOf(r)' = {k.set} /\ PointsOf(r)' = {k.set}
      BY <1>2, <2>0, <2>2 DEF StoredOf, PointsOf, SetsOf
    <3>3. UpdateInPlace(n)'
      BY <2>0, <3>1, <3>2 DEF UpdateInPlace, OnTheWay
    <3>. QED BY <1>1, <1>2, <1>3, <1>7, <2>0, <3>1, <3>3
  <2>. QED BY <1>1, <1>15, <2>1, <2>2 DEF Upsert, VectorCall
<1>16. CASE UpdatePointIds(c)
  <2>0. /\ UNCHANGED <<job, chunkSet, stored, points>> /\ k.pc = "pointIds"
        /\ StoredOf(r) = {k.set} /\ PointsOf(r) = {k.set} /\ job[k.job].q = "pending"
    BY <1>0, <1>1, <1>16 DEF UpdatePointIds, UpdateInPlace, OnTheWay
  <2>1. CASE Throw(c)
    <3>1. Proceed(c, "undo")
      BY <1>0, <1>1, <2>0, <2>1 DEF Throw, Catch
    <3>. QED BY <1>1, <1>2, <1>10, <2>0, <3>1
  <2>2. CASE pointIds' = pointIds \cup ({k.set} \cap stored) /\ Proceed(c, "markQdrant")
    <3>1. PICK n : /\ client'[c] = n /\ n.op = "update" /\ n.pc = "markQdrant"
                   /\ n.rec = r /\ n.job = k.job /\ n.set = k.set
      BY <1>8, <2>2
    <3>2. StoredOf(r)' = {k.set} /\ PointsOf(r)' = {k.set} /\ k.set \in stored
      BY <2>0 DEF StoredOf, PointsOf, SetsOf
    <3>3. Synced(r)'
      BY <2>2, <3>2 DEF Synced, InSync
    <3>4. UpdateInPlace(n)'
      BY <2>0, <3>1, <3>3 DEF UpdateInPlace, OnTheWay
    <3>. QED BY <1>1, <1>2, <1>3, <1>7, <2>0, <3>1, <3>4
  <2>. QED BY <1>1, <1>16, <2>1, <2>2 DEF UpdatePointIds
<1>17. CASE MarkQdrantCompleted(c)
  <2>0. /\ UNCHANGED <<chunkSet, stored, pointIds, points>> /\ k.pc = "markQdrant"
        /\ Synced(r) /\ job[k.job].q = "pending"
    BY <1>0, <1>1, <1>17 DEF MarkQdrantCompleted, UpdateInPlace, OnTheWay
  <2>1. CASE Throw(c) /\ UNCHANGED job
    <3>1. Proceed(c, "mark")
      BY <1>0, <1>1, <2>0, <2>1 DEF Throw, Catch
    <3>. QED BY <1>1, <1>2, <1>10, <2>0, <2>1, <3>1
  <2>2. CASE Proceed(c, "markDone")
    <3>1. PICK n : /\ client'[c] = n /\ n.op = "update" /\ n.pc = "markDone" /\ n.rec = r
      BY <1>8, <2>2
    <3>2. Synced(r)'
      BY <2>0 DEF Synced, InSync, StoredOf, PointsOf, SetsOf
    <3>3. UpdateInPlace(n)'
      BY <3>1, <3>2 DEF UpdateInPlace, OnTheWay
    <3>. QED BY <1>1, <1>7, <3>1, <3>2, <3>3, StaysClean
  <2>. QED BY <1>1, <1>17, <2>1, <2>2 DEF MarkQdrantCompleted
<1>18. CASE MarkCompleted(c)
  <2>0. /\ UNCHANGED <<chunkSet, stored, pointIds, points>> /\ k.pc = "markDone" /\ Synced(r)
    BY <1>0, <1>1, <1>18 DEF MarkCompleted, UpdateInPlace
  <2>1. Synced(r)'
    BY <2>0 DEF Synced, InSync, StoredOf, PointsOf, SetsOf
  <2>2. CASE Throw(c)
    <3>1. Proceed(c, "mark")
      BY <1>0, <1>1, <2>0, <2>2 DEF Throw, Catch
    <3>2. PICK n : /\ client'[c] = n /\ n.op = "update" /\ n.pc = "mark" /\ n.rec = r
      BY <1>8, <3>1
    <3>3. UpdateInPlace(n)'
      BY <2>1, <3>2 DEF UpdateInPlace, OnTheWay
    <3>. QED BY <1>1, <1>7, <2>1, <3>2, <3>3, StaysClean
  <2>3. CASE Proceed(c, "idle")
    BY <1>1, <1>6, <2>1, <2>3, StaysClean
  <2>. QED BY <1>1, <1>18, <2>2, <2>3 DEF MarkCompleted
<1>19. CASE DeleteOwnPoints(c)
  <2>1. UNCHANGED job /\ k.pc = "undo" /\ Proceed(c, "mark") /\ job[k.job].q = "pending"
    BY <1>0, <1>1, <1>19 DEF DeleteOwnPoints, UpdateInPlace, rows, UpdatePcs, StoredPcs
  <2>. QED BY <1>1, <1>2, <1>10, <2>1
<1>20. CASE MarkRetry(c)
  <2>0. /\ UNCHANGED <<record, chunkSet, stored, pointIds, points>> /\ k.pc = "mark"
        /\ Proceed(c, "idle")
    BY <1>0, <1>1, <1>20 DEF MarkRetry
  <2>1. CASE UNCHANGED job
    <3>1. client'[c] = IdleClient
      BY <1>0, <2>0, ProceedLocals
    <3>2. Clean(r)'
      BY <1>5, <2>0, <2>1, <3>1 DEF IdleClient, MayBeLive
    <3>. QED BY <1>1, <1>6, <2>0, <3>2
  <2>2. CASE SetQdrantPending(k.job, 0)
    <3>1. job'[k.job].rec = r /\ job'[k.job].q = "pending"
      BY <1>0, <1>2, <2>0, <2>2, PendingRows
    <3>. QED BY <1>1, <1>2, <1>3, <1>6, <2>0, <3>1
  <2>. QED BY <1>1, <1>20, <2>1, <2>2 DEF MarkRetry
<1>21. ~(CreateJob(c) \/ InsertChunks(c) \/ WriteAhead(c) \/ EraseRecord(c) \/ DeletePoints(c))
  BY <1>0 DEF CreateJob, InsertChunks, WriteAhead, EraseRecord, DeletePoints, UpdatePcs, StoredPcs
<1>. QED BY <1>1, <1>11, <1>12, <1>13, <1>14, <1>15, <1>16, <1>17, <1>18, <1>19, <1>20, <1>21
     DEF ClientStep

\* A delete: the record stays archived, and points only go.
LEMMA SerialDeleter ==
  ASSUME SerialInv, NEW c \in Clients, ClientStep(c), NEW k, k = client[c], k.op = "delete"
  PROVE  Clean(k.rec)' /\ RequestInPlace(c)'
<1>0. /\ TypeOK /\ References /\ DeleteInPlace(k) /\ Clean(k.rec) /\ k.pc = "deletePoints"
      /\ k.rec \in Records /\ NoOverlap
  BY ConstantsAssumption DEF SerialInv, WriteAheadInv, StoreInv, TypeOK, RequestInPlace,
                             ClientLocals, ClientState
<1>1. PICK r : r = k.rec
  OBVIOUS
<1>2. DeletePoints(c)
  BY <1>0 DEF ClientStep, CreateJob, InsertChunks, WriteAhead, CommitUpdate, Embed, ReplaceChunks,
              DeleteVectors, Upsert, UpdatePointIds, MarkQdrantCompleted, MarkCompleted,
              DeleteOwnPoints, MarkRetry, EraseRecord
<1>3. /\ UNCHANGED <<record, chunkSet, stored, job>>
      /\ client'[c] = IdleClient /\ \A d \in Clients \ {c} : client'[d] = client[d]
      /\ points' \subseteq points
  BY <1>0, <1>2, ProceedLocals DEF DeletePoints, VectorCall, rows
<1>4. ~MayBeLive(r)'
  BY <1>0, <1>1, <1>3 DEF MayBeLive, ClientsOn, NoOverlap, DeleteInPlace, IdleClient
<1>5. /\ PointsOf(r)' \subseteq PointsOf(r) /\ StoredOf(r)' = StoredOf(r)
      /\ Acknowledged(r)' <=> Acknowledged(r)
      /\ Settled(r)' <=> Settled(r)
  BY <1>3 DEF PointsOf, StoredOf, SetsOf, Acknowledged, Settled, JobsOf, Present
<1>6. Clean(r)'
  BY <1>0, <1>1, <1>4, <1>5 DEF Clean
<1>. QED BY <1>1, <1>3, <1>6 DEF RequestInPlace, IdleClient

LEMMA SerialStep ==
  ASSUME SerialInv, WriteAheadInv', NoOverlap', NEW c \in Clients, ClientStep(c)
  PROVE  SerialInv'
<1>1. PICK k, r : k = client[c] /\ r = k.rec
  OBVIOUS
<1>2. TypeOK /\ References /\ JobsExist /\ RequestInPlace(c)
  BY DEF SerialInv, WriteAheadInv, StoreInv
<1>3. /\ r \in Records /\ UNCHANGED sweeper /\ OthersUntouched(r)
      /\ \A d \in Clients \ {c} : client'[d] = client[d]
      /\ client'[c].rec \in {r, NoRecord}
      /\ \A j \in Ids : job'[j].rec = r /\ Present(j)' => Exists(r)'
  BY <1>1, <1>2, RequestTouches
<1>4. k.op \in {"write", "update", "delete"}
  BY <1>1, <1>2, <1>3, ConstantsAssumption DEF TypeOK, ClientState, ClientLocals, OpKinds
<1>5. Clean(r)' /\ RequestInPlace(c)'
  BY <1>1, <1>4, SerialWriter, SerialUpdater, SerialDeleter
<1>. QED BY <1>1, <1>3, <1>5, SerialClient

\* A request begins on a record nobody is on, or deletes nothing but the row.
LEMMA SerialStart ==
  ASSUME SerialInv, WriteAheadInv', NoOverlap', NEW c \in Clients, NEW r \in Records,
         ClientStart(c, r)
  PROVE  SerialInv'
<1>0. /\ TypeOK /\ References /\ OneChunkSetPerRecord /\ JobsExist /\ NoRecord \notin Records
      /\ \A q \in Records : Clean(q)
      /\ \A d \in Clients : RequestInPlace(d)
      /\ \A t \in Sweepers : SweeperInPlace(t)
      /\ UNCHANGED <<chunkSet, stored, pointIds, points, job, sweeper>>
      /\ client[c].pc = "idle" /\ client[c].rec = NoRecord
  BY ConstantsAssumption DEF SerialInv, WriteAheadInv, StoreInv, ClientStart, AddMemory,
       ReadForUpdate, ArchiveRecord, stores, TypeOK, ClientLocals
<1>1. \A d \in Clients \ {c} : client'[d] = client[d]
  BY <1>0, StartLocals
<1>2. /\ \A q \in Records \ {r} : record'[q].state = record[q].state
      /\ Exists(r)'
  <2>1. \/ record' = [record EXCEPT ![r] = [state |-> "live", ver |-> 1]]
        \/ record' = [record EXCEPT ![r].state = "archived"]
        \/ record' = record /\ Exists(r)
    BY DEF ClientStart, AddMemory, ReadForUpdate, ArchiveRecord, stores
  <2>. QED BY <1>0, <2>1 DEF Exists, TypeOK, RecordState
<1>3. OthersUntouched(r)
  BY <1>0, <1>2 DEF OthersUntouched, Untouched
<1>4. PICK n : n = client'[c]
  OBVIOUS
<1>5. CASE AddMemory(c, r)
  <2>1. n.pc = "create" /\ n.op = "write" /\ n.rec = r
    <3>1. PICK m : m = [IdleClient EXCEPT !.pc = "create", !.op = "write", !.rec = r, !.ver = 1]
      OBVIOUS
    <3>2. client'[c] = m
      BY <1>0, <1>5, <3>1 DEF AddMemory, TypeOK
    <3>. QED BY <1>4, <3>1, <3>2 DEF IdleClient
  <2>2. \A j \in Ids : job[j].rec # r
    BY <1>0, <1>5 DEF AddMemory, References
  <2>3. \A g \in Ids : chunkSet[g].rec # r
    BY <1>0, <2>2 DEF References
  <2>4. PointsOf(r)' = {} /\ ~(Acknowledged(r)')
    BY <1>0, <2>2, <2>3 DEF PointsOf, SetsOf, Acknowledged, JobsOf
  <2>5. WriteInPlace(n)'
    BY <1>0, <2>1, <2>2, <2>4 DEF WriteInPlace, OnTheWay
  <2>6. RequestInPlace(c)'
    BY <1>4, <2>1, <2>5
       DEF RequestInPlace, WriteInPlace, OnTheWay, Synced, InSync, StoredOf, PointsOf, SetsOf
  <2>7. Clean(r)'
    BY <2>4 DEF Clean
  <2>. QED BY <1>0, <1>1, <1>2, <1>3, <1>4, <2>1, <2>6, <2>7, SerialClient
<1>6. CASE ReadForUpdate(c, r)
  <2>1. /\ n.pc = "commit" /\ n.op = "update" /\ n.rec = r /\ n.read = record[r].state
        /\ UNCHANGED record
    <3>1. PICK m : m = [IdleClient EXCEPT !.pc = "commit", !.op = "update", !.rec = r,
                                          !.read = record[r].state]
      OBVIOUS
    <3>2. client'[c] = m
      BY <1>0, <1>6, <3>1 DEF ReadForUpdate, TypeOK
    <3>. QED BY <1>4, <1>6, <3>1, <3>2 DEF IdleClient, ReadForUpdate, stores
  <2>2. RequestInPlace(c)'
    BY <1>4, <2>1 DEF RequestInPlace, UpdateInPlace, OnTheWay
  <2>3. MayBeLive(r)' => MayBeLive(r)
    BY <1>0, <1>1, <1>4, <2>1 DEF MayBeLive, ClientsOn
  <2>4. Clean(r)'
    BY <1>0, <2>1, <2>3, StaysClean
  <2>. QED BY <1>0, <1>1, <1>2, <1>3, <1>4, <2>1, <2>2, <2>4, SerialClient
<1>7. CASE ArchiveRecord(c, r)
  <2>1. record'[r].state = "archived"
    <3>1. record' = [record EXCEPT ![r].state = "archived"]
      BY <1>7 DEF ArchiveRecord
    <3>. QED BY <1>0, <3>1 DEF TypeOK, RecordState
  <2>2. ASSUME client'[c].pc # "commit"
        PROVE  Clean(r)'
    <3>1. MayBeLive(r)' => MayBeLive(r)
      BY <1>1, <2>1, <2>2, NoNewLive
    <3>. QED BY <1>0, <3>1, StaysClean
  <2>3. CASE UNCHANGED client
    <3>1. \A q \in Records : Clean(q)'
      <4>1. ASSUME NEW q \in Records \ {r} PROVE Clean(q)'
        BY <1>0, <1>2, <2>3, <4>1, StaysClean DEF MayBeLive, ClientsOn
      <4>. QED BY <1>0, <2>2, <2>3, <4>1
    <3>2. ASSUME NEW d \in Clients PROVE RequestInPlace(d)'
      <4>1. CASE client[d].rec # r
        BY <1>0, <1>3, <2>3, <4>1, RequestKept DEF OthersUntouched
      <4>2. CASE client[d].rec = r
        <5>1. RequestInPlace(d) /\ client'[d] = client[d]
          BY <1>0, <2>3
        <5>. QED BY <1>0, <2>1, <4>2, <5>1
             DEF RequestInPlace, WriteInPlace, UpdateInPlace, DeleteInPlace, OnTheWay, Synced, InSync,
                 StoredOf, PointsOf, SetsOf, Acknowledged, Settled, JobsOf, Present
      <4>. QED BY <4>1, <4>2
    <3>3. ASSUME NEW t \in Sweepers PROVE SweeperInPlace(t)'
      <4>1. SweeperInPlace(t)
        BY <1>0
      <4>. QED BY <1>0, <4>1 DEF SweeperInPlace, OnTheWay, Synced, InSync, StoredOf, PointsOf,
                                 SetsOf, Held
    <3>4. JobsExist'
      <4>1. ASSUME NEW j \in Ids, Present(j)'
            PROVE  record'[job[j].rec].state \in {"live", "archived"}
        BY <1>0, <1>2, <2>1, <4>1 DEF JobsExist, Present, Exists, References
      <4>. QED BY <1>0, <4>1 DEF JobsExist, Exists
    <3>5. /\ (\A q \in Records : Clean(q))' /\ (\A d \in Clients : RequestInPlace(d))'
          /\ (\A t \in Sweepers : SweeperInPlace(t))'
      BY <3>1, <3>2, <3>3
    <3>. QED BY <3>4, <3>5 DEF SerialInv
  <2>4. ASSUME NEW g \in StoredOf(r) \cap pointIds,
               client' = [client EXCEPT ![c] = [IdleClient EXCEPT
                            !.pc = "deletePoints", !.op = "delete", !.rec = r, !.set = g]]
        PROVE  SerialInv'
    <3>1. n.pc = "deletePoints" /\ n.op = "delete" /\ n.rec = r /\ n.set = g
      <4>1. PICK m : m = [IdleClient EXCEPT !.pc = "deletePoints", !.op = "delete", !.rec = r, !.set = g]
        OBVIOUS
      <4>2. client'[c] = m
        BY <1>0, <2>4, <4>1 DEF TypeOK
      <4>. QED BY <1>4, <4>1, <4>2 DEF IdleClient
    <3>2. chunkSet'[g].rec = r /\ StoredOf(r) \subseteq {g}
      BY <1>0 DEF StoredOf, SetsOf, OneChunkSetPerRecord
    <3>3. Acknowledged(r) /\ Settled(r) => PointsOf(r) \subseteq {g}
      BY <1>0, <3>2 DEF Clean
    <3>4. (Acknowledged(r) /\ Settled(r) => PointsOf(r) \subseteq {g})'
      BY <1>0, <3>3 DEF Acknowledged, Settled, JobsOf, Present, PointsOf, SetsOf
    <3>5. DeleteInPlace(n)'
      BY <2>1, <3>1, <3>2, <3>4 DEF DeleteInPlace
    <3>6. RequestInPlace(c)'
      BY <1>4, <3>1, <3>5 DEF RequestInPlace, DeleteInPlace, Acknowledged, Settled, JobsOf, Present,
                              PointsOf, SetsOf
    <3>. QED BY <1>0, <1>1, <1>2, <1>3, <1>4, <2>2, <3>1, <3>6, SerialClient
  <2>. QED BY <1>7, <2>3, <2>4 DEF ArchiveRecord
<1>. QED BY <1>5, <1>6, <1>7 DEF ClientStart

\* A sweeper's own job is pending until it is marked, and the others it holds
\* stay so.
LEMMA SerialSweep ==
  ASSUME SerialInv, WriteAheadInv', NoOverlap', NEW s \in Sweepers, SweeperStep(s)
  PROVE  SerialInv'
<1> DEFINE k == sweeper[s]
<1>0. /\ TypeOK /\ References /\ OneChunkSetPerRecord /\ JobsExist /\ NoOverlap
      /\ ArmedHasSet /\ SweepersArmed /\ NoRecord \notin Records
      /\ \A q \in Records : Clean(q)
      /\ SweeperInPlace(s) /\ k \in SweeperState /\ SweeperLocals(k)
      /\ UNCHANGED <<record, chunkSet, stored, client>>
  BY ConstantsAssumption DEF SerialInv, WriteAheadInv, StoreInv, TypeOK, SweeperStep, LoadChunks,
       SweepEmbed, SweepDeleteVectors, SweepUpsert, SweepPointIds, SweepMarkCompleted, SweepRetry,
       stores, rows
<1>1. /\ \A j \in Held(s) : j \in Ids /\ job[j].q = "pending" /\ job[j].rec \in Records
      /\ k.job \in Ids => k.job \in Held(s)
      /\ k.queue \subseteq Held(s)
  BY <1>0 DEF SweeperInPlace, References, Held, SweeperState
\* The record r at work on, seen from one of its pending jobs.
<1>2. ASSUME NEW j \in Held(s), NEW r, r = job[j].rec, UNCHANGED job
      PROVE  r \in Records /\ s \in SweepersOn(r) /\ Clean(r)'
  <2>1. j \in Ids /\ job'[j].q = "pending" /\ job'[j].rec = r
    BY <1>1, <1>2
  <2>2. ~(Settled(r)')
    BY <2>1 DEF Settled, JobsOf, Present
  <2>. QED BY <1>1, <1>2, <2>2, StaysClean DEF SweepersOn, Held
<1>3. ASSUME NEW r, \A g \in Ids : chunkSet[g].rec # r =>
                      (g \in points' <=> g \in points) /\ (g \in pointIds' <=> g \in pointIds),
             UNCHANGED job
      PROVE  OthersUntouched(r)
  BY <1>0, <1>3 DEF OthersUntouched, Untouched
\* To the next step with the same job.
<1>4. ASSUME NEW pc, SweepTo(s, pc), UNCHANGED job, k.job \in Ids,
             NEW r, r = job[k.job].rec, NEW g, g = k.set, OnTheWay(pc, r, g)',
             \A h \in Ids : chunkSet[h].rec # r =>
                (h \in points' <=> h \in points) /\ (h \in pointIds' <=> h \in pointIds)
      PROVE  SerialInv'
  <2>1. /\ \A t \in Sweepers \ {s} : sweeper'[t] = sweeper[t]
        /\ sweeper'[s].pc = pc /\ sweeper'[s].queue = k.queue
        /\ sweeper'[s].job = k.job /\ sweeper'[s].set = g /\ Held(s)' = Held(s)
    BY <1>0, <1>4, SweepToLocals
  <2>2. job'[sweeper'[s].job].rec = r
    BY <1>4, <2>1
  <2>3. SweeperInPlace(s)'
    <3>1. \A j \in Held(s)' : job'[j].q = "pending"
      BY <1>1, <1>4, <2>1
    <3>2. sweeper'[s].job \notin sweeper'[s].queue
      BY <1>0, <2>1 DEF SweeperInPlace
    <3>. QED BY <1>4, <2>1, <2>2, <3>1, <3>2
         DEF SweeperInPlace, OnTheWay, Synced, InSync, StoredOf, PointsOf, SetsOf
  <2>4. r \in Records /\ s \in SweepersOn(r) /\ Clean(r)'
    BY <1>1, <1>2, <1>4
  <2>5. OthersUntouched(r)
    BY <1>3, <1>4
  <2>. QED BY <1>0, <1>4, <2>1, <2>3, <2>4, <2>5, SerialSweeper DEF Present
\* On to the next job.
<1>5. ASSUME SweepNext(s), k.job \in Ids, NEW r, r = job[k.job].rec, Clean(r)',
             UNCHANGED <<points, pointIds>>,
             \A j \in Ids : job'[j].rec = job[j].rec /\ (j # k.job => job'[j] = job[j])
      PROVE  SerialInv'
  <2>1. /\ \A t \in Sweepers \ {s} : sweeper'[t] = sweeper[t]
        /\ sweeper'[s].job = NoId /\ Held(s)' \subseteq k.queue
    <3>1. sweeper' = [sweeper EXCEPT ![s] = IF k.queue = {} THEN IdleSweeper
                        ELSE [k EXCEPT !.pc = "next", !.job = NoId, !.set = NoId]]
      BY <1>5 DEF SweepNext
    <3>2. PICK n : n = [k EXCEPT !.pc = "next", !.job = NoId, !.set = NoId]
      OBVIOUS
    <3>3. n.job = NoId /\ n.queue = k.queue
      BY <1>0, <3>2 DEF SweeperState
    <3>4. sweeper'[s] = IdleSweeper \/ sweeper'[s] = n
      BY <1>0, <3>1, <3>2 DEF TypeOK
    <3>. QED BY <1>0, <3>1, <3>3, <3>4 DEF TypeOK, Held, IdleSweeper, NoId, Ids
  <2>2. \A j \in Held(s)' : j \in Ids /\ j # k.job /\ job[j].q = "pending"
    BY <1>0, <1>1, <2>1 DEF SweeperInPlace
  <2>3. NoId \notin Ids /\ (sweeper[s].queue = {} => sweeper'[s] = IdleSweeper)
    BY <1>0, <1>5 DEF NoId, Ids, SweepNext, TypeOK
  <2>4. SweeperInPlace(s)'
    <3>1. sweeper'[s].job \notin sweeper'[s].queue
      BY <2>1, <2>2, <2>3 DEF Held
    <3>2. \A j \in Held(s)' : job'[j].q = "pending"
      BY <1>5, <2>2
    <3>. QED BY <2>1, <2>3, <3>1, <3>2 DEF SweeperInPlace
  <2>5. r \in Records /\ s \in SweepersOn(r)
    BY <1>1, <1>5 DEF SweepersOn, Held
  <2>6. OthersUntouched(r)
    BY <1>0, <1>5 DEF OthersUntouched, Untouched
  <2>7. \A j \in Ids : Present(j)' => Present(j)
    BY <1>1, <1>5 DEF Present
  <2>. QED BY <1>0, <1>5, <2>1, <2>4, <2>5, <2>6, <2>7, SerialSweeper
<1>6. ASSUME SweepTo(s, "retry"), UNCHANGED job, k.job \in Ids,
             \A h \in Ids : chunkSet[h].rec # job[k.job].rec =>
                (h \in points' <=> h \in points) /\ (h \in pointIds' <=> h \in pointIds)
      PROVE  SerialInv'
  <2>1. \A r, g : OnTheWay("retry", r, g)'
    BY DEF OnTheWay
  <2>. QED BY <1>4, <1>6, <2>1
<1>7. PICK r, g : r = job[k.job].rec /\ g = k.set
  OBVIOUS
<1>8. k.job \in Ids => OnTheWay(k.pc, r, g) /\ r \in Records
  BY <1>0, <1>1, <1>7 DEF SweeperInPlace
<1>9. k.job \in Ids /\ k.set \in Ids /\ OnTheWay(k.pc, r, g)
        /\ k.pc \in {"embed", "deleteVectors", "upsert", "pointIds"} =>
           StoredOf(r) = {g} /\ chunkSet[g].rec = r /\ g \in stored
  BY <1>7 DEF OnTheWay, StoredOf, SetsOf
<1>10. ASSUME NEW j \in Ids, LoadChunks(s, j)
       PROVE  SerialInv'
  <2>1. PICK q : q = job[j].rec
    OBVIOUS
  <2>2. /\ UNCHANGED <<pointIds, points, job>> /\ k.pc = "next" /\ j \in k.queue
        /\ \A t \in Sweepers \ {s} : sweeper'[t] = sweeper[t]
        /\ sweeper'[s].job = j /\ sweeper'[s].queue = k.queue \ {j}
        /\ \/ sweeper'[s].pc = "embed" /\ sweeper'[s].set \in StoredOf(q)
           \/ StoredOf(q) = {}
           \/ sweeper'[s].pc = "retry"
    BY <1>0, <1>10, <2>1, LoadChunksLocals DEF LoadChunks, stores
  <2>3. j \in Held(s) /\ q \in Records /\ s \in SweepersOn(q) /\ Clean(q)'
    BY <1>1, <1>2, <2>1, <2>2
  <2>4. StoredOf(q) # {}
    <3>1. Present(j) /\ Armed(j)
      BY <1>0, <1>1, <2>3 DEF Present, SweepersArmed
    <3>2. Exists(q)
      BY <1>0, <2>1, <3>1 DEF JobsExist
    <3>3. HasArmedSet(q)
      BY <1>0, <2>1, <2>3, <3>1, <3>2 DEF ArmedHasSet
    <3>. QED BY <3>3 DEF HasArmedSet
  <2>5. SweeperInPlace(s)'
    <3>1. Held(s)' \subseteq Held(s)
      BY <2>2, <2>3 DEF Held
    <3>2. \A i \in Held(s)' : job'[i].q = "pending"
      BY <1>1, <2>2, <3>1
    <3>3. ASSUME sweeper'[s].pc = "embed", sweeper'[s].set \in StoredOf(q)
          PROVE  StoredOf(q)' = {sweeper'[s].set}
      <4>1. \A h \in StoredOf(q) : h = sweeper'[s].set
        BY <1>0, <3>3 DEF StoredOf, SetsOf, OneChunkSetPerRecord
      <4>2. StoredOf(q)' = StoredOf(q)
        BY <1>0 DEF StoredOf, SetsOf
      <4>. QED BY <3>3, <4>1, <4>2
    <3>4. job'[sweeper'[s].job].rec = q
      BY <2>1, <2>2
    <3>. QED BY <2>2, <2>4, <3>2, <3>3, <3>4 DEF SweeperInPlace, OnTheWay, StoredOf, SetsOf
  <2>6. OthersUntouched(q)
    BY <1>3, <2>2
  <2>. QED BY <1>0, <2>2, <2>3, <2>5, <2>6, SerialSweeper DEF Present
<1>11. CASE SweepEmbed(s)
  <2>1. UNCHANGED <<pointIds, points, job>> /\ k.pc = "embed" /\ k.job \in Ids /\ k.set \in Ids
    BY <1>0, <1>11 DEF SweepEmbed, stores, SweeperLocals
  <2>2. CASE SweepTo(s, "retry")
    BY <1>6, <2>1, <2>2
  <2>3. CASE SweepTo(s, "deleteVectors")
    <3>1. StoredOf(r)' = {g}
      BY <1>0, <1>8, <1>9, <2>1 DEF StoredOf, SetsOf
    <3>2. OnTheWay("deleteVectors", r, g)'
      BY <3>1 DEF OnTheWay
    <3>. QED BY <1>4, <1>7, <2>1, <2>3, <3>2
  <2>. QED BY <1>11, <2>2, <2>3 DEF SweepEmbed
<1>12. CASE SweepDeleteVectors(s)
  <2>1. UNCHANGED <<pointIds, job>> /\ k.pc = "deleteVectors" /\ k.job \in Ids /\ k.set \in Ids
    BY <1>0, <1>12 DEF SweepDeleteVectors, rows, SweeperLocals
  <2>2. \A h \in Ids : chunkSet[h].rec # r =>
          (h \in points' <=> h \in points) /\ (h \in pointIds' <=> h \in pointIds)
    BY <1>7, <1>12, <2>1 DEF SweepDeleteVectors, VectorCall, SetsOf
  <2>3. CASE SweepTo(s, "retry")
    BY <1>6, <1>7, <2>1, <2>2, <2>3
  <2>4. CASE points' = points \ SetsOf(r) /\ SweepTo(s, "upsert")
    <3>1. StoredOf(r)' = {g} /\ PointsOf(r)' = {}
      BY <1>0, <1>8, <1>9, <2>1, <2>4 DEF StoredOf, PointsOf, SetsOf
    <3>2. OnTheWay("upsert", r, g)'
      BY <3>1 DEF OnTheWay
    <3>. QED BY <1>4, <1>7, <2>1, <2>2, <2>4, <3>2
  <2>. QED BY <1>7, <1>12, <2>3, <2>4 DEF SweepDeleteVectors, VectorCall
<1>13. CASE SweepUpsert(s)
  <2>1. UNCHANGED <<pointIds, job>> /\ k.pc = "upsert" /\ k.job \in Ids /\ k.set \in Ids
    BY <1>0, <1>13 DEF SweepUpsert, rows, SweeperLocals
  <2>2. \A h \in Ids : chunkSet[h].rec # r =>
          (h \in points' <=> h \in points) /\ (h \in pointIds' <=> h \in pointIds)
    BY <1>7, <1>8, <1>9, <1>13, <2>1 DEF SweepUpsert, VectorCall
  <2>3. CASE SweepTo(s, "retry")
    BY <1>6, <1>7, <2>1, <2>2, <2>3
  <2>4. CASE points' = points \cup {g} /\ SweepTo(s, "pointIds")
    <3>1. StoredOf(r)' = {g} /\ PointsOf(r)' = {g}
      <4>1. PointsOf(r) = {}
        BY <1>8, <2>1 DEF OnTheWay
      <4>. QED BY <1>0, <1>7, <1>8, <1>9, <2>1, <2>4, <4>1 DEF StoredOf, PointsOf, SetsOf
    <3>2. OnTheWay("pointIds", r, g)'
      BY <3>1 DEF OnTheWay
    <3>. QED BY <1>4, <1>7, <2>1, <2>2, <2>4, <3>2
  <2>. QED BY <1>7, <1>13, <2>3, <2>4 DEF SweepUpsert, VectorCall
<1>14. CASE SweepPointIds(s)
  <2>1. UNCHANGED <<points, job>> /\ k.pc = "pointIds" /\ k.job \in Ids /\ k.set \in Ids
    BY <1>0, <1>14 DEF SweepPointIds, SweeperLocals
  <2>2. \A h \in Ids : chunkSet[h].rec # r =>
          (h \in points' <=> h \in points) /\ (h \in pointIds' <=> h \in pointIds)
    BY <1>7, <1>8, <1>9, <1>14, <2>1 DEF SweepPointIds
  <2>3. CASE SweepTo(s, "retry")
    BY <1>6, <1>7, <2>1, <2>2, <2>3
  <2>4. CASE pointIds' = pointIds \cup ({g} \cap stored) /\ SweepTo(s, "markQdrant")
    <3>1. StoredOf(r)' = {g} /\ PointsOf(r)' = {g} /\ g \in stored
      <4>1. PointsOf(r) = {g}
        BY <1>8, <2>1 DEF OnTheWay
      <4>. QED BY <1>0, <1>7, <1>8, <1>9, <2>1, <4>1 DEF StoredOf, PointsOf, SetsOf
    <3>2. OnTheWay("markQdrant", r, g)'
      BY <2>4, <3>1 DEF OnTheWay, Synced, InSync
    <3>. QED BY <1>4, <1>7, <2>1, <2>2, <2>4, <3>2
  <2>. QED BY <1>7, <1>14, <2>3, <2>4 DEF SweepPointIds
<1>15. CASE SweepMarkCompleted(s)
  <2>1. UNCHANGED <<pointIds, points>> /\ k.pc = "markQdrant" /\ k.job \in Ids
    BY <1>0, <1>15 DEF SweepMarkCompleted, SweeperLocals
  <2>2. CASE SweepTo(s, "retry") /\ UNCHANGED job
    BY <1>6, <2>1, <2>2
  <2>3. CASE SetQdrantCompleted(k.job) /\ SweepNext(s)
    <3>1. Synced(r)
      BY <1>8, <2>1 DEF OnTheWay
    <3>2. Synced(r)'
      BY <1>0, <2>1, <3>1 DEF Synced, InSync, StoredOf, PointsOf, SetsOf
    <3>. QED BY <1>0, <1>5, <1>7, <2>1, <2>3, <3>2, StaysClean, CompletedRows
  <2>. QED BY <1>15, <2>2, <2>3 DEF SweepMarkCompleted
<1>16. CASE SweepRetry(s)
  <2>1. UNCHANGED <<pointIds, points>> /\ k.pc = "retry" /\ k.job \in Ids /\ SweepNext(s)
    BY <1>0, <1>16 DEF SweepRetry, SweeperLocals
  <2>2. \/ UNCHANGED job \/ SetQdrantFailed(k.job, Attempt(s)) \/ SetQdrantPending(k.job, Attempt(s))
    BY <1>16 DEF SweepRetry
  <2>3. /\ \A j \in Ids : job'[j].rec = job[j].rec /\ (j # k.job => job'[j] = job[j])
        /\ job'[k.job].q \in {"pending", "failed"} /\ job'[k.job].rec = r
    BY <1>0, <1>1, <1>7, <2>1, <2>2, PendingRows, FailedRows
  <2>4. Clean(r)'
    <3>1. ~(Settled(r)')
      BY <2>1, <2>3 DEF Settled, JobsOf, Present
    <3>. QED BY <3>1, StaysClean
  <2>. QED BY <1>5, <1>7, <2>1, <2>3, <2>4
<1>. QED BY <1>10, <1>11, <1>12, <1>13, <1>14, <1>15, <1>16 DEF SweeperStep

\* Claims, timers and crashes change no record's index.
LEMMA SerialQuiet ==
  ASSUME SerialInv, WriteAheadInv', NoOverlap', UNCHANGED record,
         \A r \in Records : Untouched(r),
         \A j \in Ids : job'[j].rec = job[j].rec /\ job'[j].q = job[j].q,
         \A c \in Clients : client'[c] = client[c] \/ client'[c] = IdleClient,
         \A s \in Sweepers : sweeper'[s] = sweeper[s] \/ SweeperInPlace(s)'
  PROVE  SerialInv'
<1>0. /\ TypeOK /\ References /\ JobsExist
      /\ \A q \in Records : Clean(q)
      /\ \A d \in Clients : RequestInPlace(d)
      /\ \A t \in Sweepers : SweeperInPlace(t)
  BY DEF SerialInv, WriteAheadInv, StoreInv
<1>1. ASSUME NEW q \in Records PROVE Clean(q)'
  <2>1. MayBeLive(q)' => MayBeLive(q)
    BY DEF MayBeLive, ClientsOn, IdleClient
  <2>. QED BY <1>0, <2>1, UntouchedSame DEF Clean
<1>2. ASSUME NEW c \in Clients PROVE RequestInPlace(c)'
  <2>1. CASE client'[c] = client[c]
    BY <1>0, <2>1, RequestKept
  <2>2. CASE client'[c] = IdleClient
    BY <2>2 DEF RequestInPlace, IdleClient
  <2>. QED BY <2>1, <2>2
<1>3. ASSUME NEW s \in Sweepers PROVE SweeperInPlace(s)'
  BY <1>0, SweeperKept DEF References
<1>4. JobsExist'
  BY <1>0 DEF JobsExist, Present, Exists
<1>5. /\ (\A q \in Records : Clean(q))' /\ (\A d \in Clients : RequestInPlace(d))'
      /\ (\A t \in Sweepers : SweeperInPlace(t))'
  BY <1>1, <1>2, <1>3
<1>. QED BY <1>4, <1>5 DEF SerialInv

LEMMA SerialClaim ==
  ASSUME SerialInv, WriteAheadInv', NoOverlap', NEW s \in Sweepers, Claim(s)
  PROVE  SerialInv'
<1>0. TypeOK
  BY DEF SerialInv, WriteAheadInv, StoreInv
<1>1. PICK batch \in SUBSET Due :
        /\ job' = [j \in Ids |-> IF j \in batch
                                 THEN [job[j] EXCEPT !.retry = "later"] ELSE job[j]]
        /\ sweeper' = [sweeper EXCEPT ![s] =
              [IdleSweeper EXCEPT !.pc = "next", !.queue = batch,
                  !.tries = [j \in Ids |-> IF j \in batch THEN job[j].attempts ELSE 0]]]
  BY DEF Claim
<1>2. /\ UNCHANGED <<record, chunkSet, stored, pointIds, points, client>>
      /\ \A j \in Ids : /\ job'[j].rec = job[j].rec /\ job'[j].q = job[j].q
                         /\ job'[j].status = job[j].status
  BY <1>0, <1>1 DEF Claim, TypeOK, JobState
<1>3. \A r \in Records : Untouched(r)
  BY <1>2 DEF Untouched
<1>4. /\ Held(s)' = batch /\ sweeper'[s].job = NoId /\ sweeper'[s].queue = batch
      /\ \A t \in Sweepers \ {s} : sweeper'[t] = sweeper[t]
  BY <1>0, <1>1 DEF TypeOK, Held, IdleSweeper, NoId, Ids
<1>5. SweeperInPlace(s)'
  <2>1. \A j \in batch : j \in Ids /\ job'[j].q = "pending"
    BY <1>2 DEF Due
  <2>2. NoId \notin Ids
    BY DEF NoId, Ids
  <2>. QED BY <1>4, <2>1, <2>2 DEF SweeperInPlace
<1>. QED BY <1>2, <1>3, <1>4, <1>5, SerialQuiet

LEMMA SerialEnvironment ==
  ASSUME SerialInv, WriteAheadInv', NoOverlap', Crash \/ \E j \in Ids : Elapse(j)
  PROVE  SerialInv'
<1>0. TypeOK
  BY DEF SerialInv, WriteAheadInv, StoreInv
<1>1. /\ UNCHANGED <<record, chunkSet, stored, pointIds, points>>
      /\ \A j \in Ids : /\ job'[j].rec = job[j].rec /\ job'[j].q = job[j].q
                         /\ job'[j].status = job[j].status
  BY <1>0 DEF Crash, Elapse, stores, TypeOK, JobState
<1>2. \A r \in Records : Untouched(r)
  BY <1>1 DEF Untouched
<1>3. \A c \in Clients : client'[c] = client[c] \/ client'[c] = IdleClient
  BY <1>0 DEF Crash, Elapse, Proceed, At, TypeOK
<1>4. \A s \in Sweepers : sweeper'[s] = sweeper[s] \/ sweeper'[s] = IdleSweeper
  BY <1>0 DEF Crash, Elapse, TypeOK
<1>5. \A s \in Sweepers : sweeper'[s] = IdleSweeper => SweeperInPlace(s)'
  BY DEF SweeperInPlace, IdleSweeper, Held, NoId, Ids
<1>. QED BY <1>1, <1>2, <1>3, <1>4, <1>5, SerialQuiet

LEMMA SerialInit == Init => SerialInv
<1> SUFFICES ASSUME Init PROVE SerialInv
  OBVIOUS
<1>0. NoRecord \notin Records
  BY ConstantsAssumption
<1>1. NoOverlap
  BY <1>0 DEF Init, NoOverlap, ClientsOn, SweepersOn, IdleClient, IdleSweeper, NoId, Ids
<1>2. JobsExist
  BY DEF Init, JobsExist, Present
<1>3. \A r \in Records : Clean(r)
  BY DEF Init, Clean, Acknowledged, JobsOf, Present
<1>4. \A c \in Clients : RequestInPlace(c)
  BY DEF Init, RequestInPlace, IdleClient
<1>5. \A s \in Sweepers : SweeperInPlace(s)
  BY DEF Init, SweeperInPlace, IdleSweeper, Held, NoId, Ids
<1>. QED BY <1>1, <1>2, <1>3, <1>4, <1>5, WriteAheadInit DEF SerialInv

LEMMA SerialNext == SerialInv /\ [Next /\ NoOverlap']_vars => SerialInv'
<1> SUFFICES ASSUME SerialInv, [Next /\ NoOverlap']_vars PROVE SerialInv'
  OBVIOUS
<1>1. WriteAheadInv'
  BY WriteAheadStep DEF SerialInv
<1>2. CASE UNCHANGED vars
  <2>1. NoOverlap'
    BY <1>2 DEF vars, SerialInv, NoOverlap, ClientsOn, SweepersOn
  <2>2. \A r \in Records : Untouched(r)
    BY <1>2 DEF vars, Untouched
  <2>. QED BY <1>1, <1>2, <2>1, <2>2, SerialQuiet DEF vars
<1>3. CASE Next /\ NoOverlap'
  BY <1>1, <1>3, SerialStart, SerialStep, SerialClaim, SerialSweep, SerialEnvironment DEF Next
<1>. QED BY <1>2, <1>3

\* Wherever exceptions and crashes strike, a live record with a request that
\* reported success and no ingest job left to settle has in the vector index
\* exactly the points of its chunks, each known to its row, as long as no two
\* operations work on it at a time.
THEOREM AcknowledgedIsIndexed == SerialSpec => []AcknowledgedIndexed
<1>1. SerialInv => AcknowledgedIndexed
  BY DEF SerialInv, Clean, MayBeLive, Synced, AcknowledgedIndexed
<1>. QED BY <1>1, SerialInit, SerialNext, PTL DEF SerialSpec

LEMMA DeletesAll ==
  ASSUME SerialInv, [Next]_vars, NEW c \in Clients, NEW r, r = client[c].rec,
         client[c].pc = "deletePoints", client'[c].pc = "idle", points' # points,
         Acknowledged(r), Settled(r)
  PROVE  SetsOf(r) \cap points' = {}
<1>0. TypeOK /\ RequestInPlace(c) /\ ClientLocals(client[c]) /\ client[c] \in ClientState
  BY DEF SerialInv, WriteAheadInv, StoreInv, TypeOK
<1>1. client[c].op = "delete"
  BY <1>0 DEF ClientLocals, ClientState, OpKinds, WritePcs, UpdatePcs, StoredPcs
<1>2. client' # client /\ Next
  BY DEF vars
<1>3. PICK d \in Clients : ClientStep(d)
  <2>1. ~(\E d \in Clients, q \in Records : ClientStart(d, q))
    BY DEF ClientStart, AddMemory, ReadForUpdate, ArchiveRecord, stores
  <2>2. ~(\E s \in Sweepers : Claim(s) \/ SweeperStep(s))
    <3>1. ASSUME NEW s \in Sweepers, Claim(s) \/ SweepEmbed(s)  PROVE client' = client
      BY <3>1 DEF Claim, SweepEmbed, stores, rows
    <3>2. ASSUME NEW s \in Sweepers, NEW j \in Ids, LoadChunks(s, j)  PROVE client' = client
      BY <3>2 DEF LoadChunks
    <3>3. ASSUME NEW s \in Sweepers, SweepDeleteVectors(s) \/ SweepUpsert(s)
          PROVE  client' = client
      BY <3>3 DEF SweepDeleteVectors, SweepUpsert, rows
    <3>4. ASSUME NEW s \in Sweepers, SweepPointIds(s)  PROVE client' = client
      BY <3>4 DEF SweepPointIds
    <3>5. ASSUME NEW s \in Sweepers, SweepMarkCompleted(s) \/ SweepRetry(s)
          PROVE  client' = client
      BY <3>5 DEF SweepMarkCompleted, SweepRetry
    <3>. QED BY <1>2, <3>1, <3>2, <3>3, <3>4, <3>5 DEF SweeperStep
  <2>3. ~(Crash \/ \E j \in Ids : Elapse(j))
    BY DEF Crash, Elapse, stores
  <2>. QED BY <1>2, <2>1, <2>2, <2>3 DEF Next
<1>4. d = c
  BY <1>3, <1>0, RequestTouches DEF SerialInv, WriteAheadInv, StoreInv
<1>5. DeletePoints(c)
  BY <1>3, <1>4 DEF ClientStep, CreateJob, InsertChunks, WriteAhead, CommitUpdate, Embed,
       ReplaceChunks, DeleteVectors, Upsert, UpdatePointIds, MarkQdrantCompleted, MarkCompleted,
       DeleteOwnPoints, MarkRetry, EraseRecord
<1>6. points' = points \ {client[c].set}
  BY <1>5 DEF DeletePoints, VectorCall
<1>7. PointsOf(r) \subseteq {client[c].set}
  BY <1>0, <1>1 DEF RequestInPlace, DeleteInPlace
<1>. QED BY <1>6, <1>7 DEF PointsOf

\* With the same proviso, a delete_memory of a fully indexed record that takes
\* points away leaves none of it, although it deletes by the point ids that
\* the rows held when the record was archived.
THEOREM DeletesCompletely == SerialSpec => DeleteLeavesNoPoints
<1>1. SerialInv /\ [Next /\ NoOverlap']_vars =>
        [\A c \in Clients :
            LET r == client[c].rec IN
            client[c].pc = "deletePoints" /\ client'[c].pc = "idle" /\ points' # points
                /\ Acknowledged(r) /\ Settled(r)
            => SetsOf(r) \cap points' = {}]_vars
  BY DeletesAll
<1>. QED BY <1>1, SerialInit, SerialNext, PTL DEF SerialSpec, DeleteLeavesNoPoints

=============================================================================
