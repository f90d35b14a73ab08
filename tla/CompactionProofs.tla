-------------------------- MODULE CompactionProofs --------------------------
(***************************************************************************)
(* Compaction, for any number of records, runs, sweepers, restores and     *)
(* faults: its types, the bound on attempts and the counts of its runs;    *)
(* what a restore leaves, whether it ends well or not; what 'deleted'      *)
(* means; and, where runs do not overlap, that duplicates do not consume   *)
(* each other.                                                             *)
(***************************************************************************)
EXTENDS Compaction, FiniteSetTheorems, WellFoundedInduction, TLAPS

(***************************************************************************)
(* A group has a record to keep: of the sets of those which outrank one of *)
(* its records the least one is empty.                                     *)
(***************************************************************************)
LEMMA KeeperInGroup ==
  ASSUME TypeOK, NEW group \in SUBSET Records, group # {}
  PROVE  Keeper(group) \in group
<1> USE CompactionAssumption
<1> DEFINE above(k) == {q \in group : Outranks(q, k) /\ q # k}
           family == {above(k) : k \in group}
<1>1. IsFiniteSet(group)
  <2>1. IsFiniteSet(Records)
    BY FS_Interval DEF Records
  <2> QED
    BY <2>1, FS_Subset
<1>2. \A r \in group : record[r].weight \in Nat /\ r \in Nat
  <2> SUFFICES ASSUME NEW r \in group PROVE record[r].weight \in Nat /\ r \in Nat
    OBVIOUS
  <2>1. r \in Records /\ record[r] \in RecordState
    BY DEF TypeOK
  <2>2. record[r].weight \in Weights
    BY <2>1 DEF RecordState
  <2>3. Weights \subseteq Nat /\ MaxRecords \in Nat
    OBVIOUS
  <2>4. r \in Nat
    BY <2>1, <2>3 DEF Records
  <2> QED
    BY <2>2, <2>3, <2>4
<1>3. family \subseteq FiniteSubsetsOf(group) /\ family # {}
  <2>1. \A k \in group : IsFiniteSet(above(k))
    BY <1>1, FS_Subset
  <2>2. \A k \in group : above(k) \in FiniteSubsetsOf(group)
    BY <2>1 DEF FiniteSubsetsOf
  <2>3. PICK k \in group : TRUE
    OBVIOUS
  <2> HIDE DEF above
  <2> QED
    BY <2>2, <2>3
<1>4. PICK least \in family : \A T \in family : <<T, least>> \notin StrictSubsetOrdering(group)
  <2> HIDE DEF family
  <2> QED
    BY <1>3, FS_StrictSubsetOrderingWellFounded, WFMin, Zenon
<1>5. PICK k \in group : least = above(k)
  BY <1>4
<1>6. above(k) = {}
  <2> SUFFICES ASSUME NEW q \in above(k) PROVE FALSE
    OBVIOUS
  <2>1. above(q) \subseteq above(k)
    BY <1>2 DEF Outranks
  <2>2. q \in above(k) /\ q \notin above(q)
    OBVIOUS
  <2>3. <<above(q), above(k)>> \in StrictSubsetOrdering(group)
    BY <2>1, <2>2 DEF StrictSubsetOrdering
  <2> QED
    BY <1>4, <1>5, <2>2, <2>3
<1>7. \A r \in group : Outranks(k, r)
  BY <1>2, <1>6 DEF Outranks
<1> QED
  BY <1>7 DEF Keeper

LEMMA CandidatesTyped ==
  ASSUME TypeOK, NEW groups \in DuplicateGroups(Listed), NEW decayed \in SUBSET Listed
  PROVE  CollectCandidates(groups, decayed) \in SUBSET Candidate
<1>1. Listed \subseteq Records
  BY DEF Listed, Live
<1>2. \A g \in groups : g \in SUBSET Records /\ g # {}
  <2>1. \A g \in ExactGroups(Listed) : g \in SUBSET Records /\ g # {}
    BY <1>1 DEF ExactGroups
  <2>2. Representatives(Listed) \subseteq Listed
    BY DEF Representatives
  <2>3. \A g \in SemanticGroups(Listed) : g \in SUBSET Records /\ g # {}
    BY <1>1, <2>2 DEF SemanticGroups
  <2> QED
    BY <2>1, <2>3 DEF DuplicateGroups
<1>3. \A g \in groups : \A r \in g : [rec |-> r, kept |-> Keeper(g)] \in Candidate
  BY <1>2, KeeperInGroup DEF Candidate
<1>4. ArchivedOf(groups) \subseteq Candidate
  BY <1>3 DEF ArchivedOf
<1>5. \A r \in decayed : [rec |-> r, kept |-> NoRecord] \in Candidate
  BY <1>1 DEF Candidate
<1> QED
  BY <1>4, <1>5 DEF CollectCandidates

-----------------------------------------------------------------------------
(***************************************************************************)
(* Types.  A step of an actor changes what is in its own locals and a few  *)
(* rows: one lemma for each kind of actor.                                 *)
(***************************************************************************)
LEMMA IdleTyped ==
  /\ NoArchive \in ArchiveState /\ IdleCompactor \in CompactorState
  /\ IdleSweeper \in SweeperState /\ IdleUnarchiver \in UnarchiverState
  /\ IdleEditor \in EditorState
BY CompactionAssumption
   DEF NoArchive, ArchiveState, IdleCompactor, CompactorState, IdleSweeper, SweeperState,
       IdleUnarchiver, UnarchiverState, IdleEditor, EditorState

LEMMA TypeInit == Init => TypeOK
<1> SUFFICES ASSUME Init PROVE TypeOK
  OBVIOUS
<1> USE CompactionAssumption
<1> PICK content \in [1 .. Seeds -> Contents], weight \in [1 .. Seeds -> Weights],
         indexed \in SUBSET (1 .. Seeds) :
      /\ record = [r \in Records |->
            [state |-> IF r <= Seeds THEN "live" ELSE "none",
             content |-> content[IF r <= Seeds THEN r ELSE 1],
             weight |-> weight[IF r <= Seeds THEN r ELSE 1],
             updatedAt |-> 0, from |-> NoRecord]]
      /\ index = [r \in Records |-> IF r \in indexed THEN "ids" ELSE "none"]
      /\ points = indexed
  BY DEF Init
<1>1. \A r \in Records : (IF r <= Seeds THEN r ELSE 1) \in 1 .. Seeds
  BY DEF Records
<1>2. record \in [Records -> RecordState]
  BY <1>1 DEF RecordState
<1>3. points \in SUBSET Records /\ \A r \in Records : index[r] # "none" => record[r].state = "live"
  BY DEF Records
<1>4. run \in [Runs -> RunState]
  BY DEF Init, RunState
<1>5. archive \in [Records -> ArchiveState] /\ compactor \in [Compactors -> CompactorState]
        /\ sweeper \in [Sweepers -> SweeperState]
        /\ unarchiver \in [Unarchivers -> UnarchiverState] /\ editor \in [Editors -> EditorState]
  BY IdleTyped DEF Init
<1>6. index \in [Records -> {"none", "rows", "ids"}] /\ clock \in 0 .. MaxClock
        /\ crashes \in 0 .. MaxCrashes
  BY DEF Init
<1>7. /\ \A c \in Compactors : compactor[c].pc = "idle"
      /\ \A u \in Unarchivers : unarchiver[u].pc = "idle"
      /\ \A e \in Editors : editor[e].pc = "idle"
  BY DEF Init, IdleCompactor, IdleUnarchiver, IdleEditor
<1> QED
  BY <1>2, <1>3, <1>4, <1>5, <1>6, <1>7 DEF TypeOK

\* What a run's locals must be for TypeOK; likewise a restore's.
CompactorOK(k) ==
    /\ k \in CompactorState
    /\ k.pc \in {"vacuous", "delete", "markDeleted", "markPending"} => k.rec \in Records
    /\ k.pc \notin {"idle", "start", "limit", "create"} => k.run \in Runs

UnarchiverOK(k) ==
    /\ k \in UnarchiverState
    /\ k.pc # "idle" => k.queue # <<>>
    /\ k.pc \notin {"idle", "next"} => k.arch \in Records /\ k.rec \in Records

LEMMA MarkTypes ==
  ASSUME TypeOK, NEW r \in Records, NEW q \in {"pending", "deleted", "failed"},
         MarkQdrantStatus(r, q)
  PROVE  archive' \in [Records -> ArchiveState]
<1>1. archive[r] \in ArchiveState
  BY DEF TypeOK
<1> DEFINE row == archive[r]
<1>2. row.attempts + 1 \in Nat /\ (IF q = "pending" THEN "later" ELSE "null") \in {"null", "later", "due"}
  BY <1>1 DEF ArchiveState
<1> HIDE DEF row
<1>3. Marked(row, q) \in ArchiveState
  BY <1>1, <1>2 DEF Marked, ArchiveState, row
<1> QED
  BY <1>3 DEF TypeOK, MarkQdrantStatus, row

LEMMA CompactToTypes ==
  ASSUME TypeOK, NEW c \in Compactors,
         NEW pc \in {"create", "archive", "markDeleted", "markPending", "fail"},
         CompactTo(c, pc),
         pc # "create" => compactor[c].run \in Runs,
         pc \in {"markDeleted", "markPending"} => compactor[c].rec \in Records
  PROVE  compactor' = [compactor EXCEPT ![c] = [compactor[c] EXCEPT !.pc = pc]]
            /\ CompactorOK([compactor[c] EXCEPT !.pc = pc])
<1>1. compactor[c] \in CompactorState
  BY DEF TypeOK
<1>2. [compactor[c] EXCEPT !.pc = pc] \in CompactorState
  BY <1>1 DEF CompactorState
<1> QED
  BY <1>1, <1>2 DEF CompactTo, CompactorOK, CompactorState

LEMMA CompactorTypes ==
  ASSUME TypeOK, NEW c \in Compactors, ListMemory(c) \/ CompactorStep(c)
  PROVE  TypeOK'
<1> USE CompactionAssumption
<1> DEFINE k == compactor[c]
<1>1. k \in CompactorState /\ CompactorOK(k) /\ CompactorOK(IdleCompactor)
  BY IdleTyped DEF TypeOK, CompactorOK, IdleCompactor
<1>2. ASSUME NEW l, CompactorOK(l), compactor' = [compactor EXCEPT ![c] = l]
      PROVE  /\ compactor' \in [Compactors -> CompactorState]
             /\ \A d \in Compactors : CompactorOK(compactor'[d])
  BY <1>2 DEF TypeOK, CompactorOK
<1>3. /\ compactor' \in [Compactors -> CompactorState]
      /\ \A d \in Compactors : CompactorOK(compactor'[d])
  <2>1. CASE CompactEnd(c)
    BY <1>1, <1>2, <2>1 DEF CompactEnd
  <2>2. CASE ListMemory(c)
    <3>1. PICK groups \in DuplicateGroups(Listed), decayed \in SUBSET Listed :
            compactor' = [compactor EXCEPT ![c] =
              [IdleCompactor EXCEPT !.pc = "start", !.plan = CollectCandidates(groups, decayed)]]
      BY <2>2 DEF ListMemory
    <3> DEFINE l == [IdleCompactor EXCEPT !.pc = "start",
                                          !.plan = CollectCandidates(groups, decayed)]
    <3>2. CollectCandidates(groups, decayed) \in SUBSET Candidate
      BY CandidatesTyped
    <3>3. CompactorOK(l)
      BY <1>1, <3>2 DEF CompactorOK, CompactorState
    <3> HIDE DEF l
    <3> QED
      BY <1>2, <3>1, <3>3 DEF l
  <2>3. CASE StartCompaction(c) /\ ~ CompactEnd(c)
    <3> DEFINE l == [k EXCEPT !.pc = "limit", !.planGeneratedAt = clock + 1]
    <3>1. clock + 1 \in 0 .. MaxClock
      BY <2>3 DEF StartCompaction, TypeOK
    <3>2. CompactorOK(l)
      BY <1>1, <3>1 DEF CompactorOK, CompactorState
    <3>3. compactor' = [compactor EXCEPT ![c] = l]
      BY <2>3 DEF StartCompaction
    <3> HIDE DEF l
    <3> QED
      BY <1>2, <3>2, <3>3
  <2>4. CASE CreateCompactionRun(c) /\ ~ CompactEnd(c)
    <3>1. PICK u \in Runs :
            compactor' = [compactor EXCEPT ![c] = [k EXCEPT !.pc = "archive", !.run = u]]
      BY <2>4 DEF CreateCompactionRun
    <3> DEFINE l == [k EXCEPT !.pc = "archive", !.run = u]
    <3>2. CompactorOK(l)
      BY <1>1 DEF CompactorOK, CompactorState
    <3> HIDE DEF l
    <3> QED
      BY <1>2, <3>1, <3>2 DEF l
  <2>5. CASE ApplyCompactionRecord(c) /\ ~ CompactTo(c, "fail")
    <3>1. PICK e \in k.plan :
            \/ compactor' = [compactor EXCEPT ![c] = [k EXCEPT
                  !.pc = IF index[e.rec] = "ids" THEN "delete" ELSE "vacuous",
                  !.rec = e.rec, !.plan = @ \ {e}, !.count = Counted(c)]]
            \/ compactor' = [compactor EXCEPT ![c].plan = @ \ {e}]
      BY <2>5 DEF ApplyCompactionRecord
    <3> DEFINE l == [k EXCEPT !.pc = IF index[e.rec] = "ids" THEN "delete" ELSE "vacuous",
                              !.rec = e.rec, !.plan = k.plan \ {e}, !.count = Counted(c)]
               m == [k EXCEPT !.plan = k.plan \ {e}]
    <3>2. e.rec \in Records /\ k.pc = "archive" /\ Counted(c) \in Nat /\ k.run \in Runs
            /\ k.plan \ {e} \in SUBSET Candidate
      BY <1>1, <2>5 DEF ApplyCompactionRecord, CompactorOK, CompactorState, Candidate, Counted
    <3>3. CompactorOK(l) /\ CompactorOK(m)
      BY <1>1, <3>2 DEF CompactorOK, CompactorState
    <3>4. compactor' = [compactor EXCEPT ![c] = l] \/ compactor' = [compactor EXCEPT ![c] = m]
      BY <3>1
    <3> HIDE DEF l, m
    <3> QED
      BY <1>2, <3>3, <3>4
  <2>6. CASE \E pc \in {"create", "archive", "markDeleted", "markPending", "fail"} :
                /\ CompactTo(c, pc)
                /\ pc # "create" => k.run \in Runs
                /\ pc \in {"markDeleted", "markPending"} => k.rec \in Records
    BY <1>2, <2>6, CompactToTypes
  <2> QED
    BY <1>1, <2>1, <2>2, <2>3, <2>4, <2>5, <2>6
       DEF CompactorStep, CompactorOK, CountRecentApplyRuns, MarkVacuouslyDeleted,
           CompactDeletePoints, MarkDeleted, MarkPending, CompleteRun,
           ApplyCompactionRecord
<1>4. archive' \in [Records -> ArchiveState]
  <2>1. CASE ApplyCompactionRecord(c) /\ archive' # archive
    <3>1. PICK e \in k.plan : archive' = [archive EXCEPT ![e.rec] =
            [NoArchive EXCEPT !.q = "pending", !.run = k.run, !.kept = e.kept,
                 !.hasPoints = (index[e.rec] = "ids"),
                 !.retry = IF index[e.rec] = "ids" THEN "later" ELSE "null"]]
      BY <2>1 DEF ApplyCompactionRecord
    <3> DEFINE row(b) == [NoArchive EXCEPT !.q = "pending", !.run = k.run, !.kept = e.kept,
                             !.hasPoints = b, !.retry = IF b THEN "later" ELSE "null"]
    <3>2. e.rec \in Records /\ e.kept \in Records \cup {NoRecord} /\ k.run \in Runs
      BY <1>1, <2>1 DEF ApplyCompactionRecord, CompactorOK, CompactorState, Candidate
    <3>3. \A b \in BOOLEAN : row(b) \in ArchiveState
      BY <3>2 DEF NoArchive, ArchiveState
    <3>4. archive' = [archive EXCEPT ![e.rec] = row(index[e.rec] = "ids")]
      BY <3>1
    <3> HIDE DEF row
    <3> QED
      BY <3>3, <3>4 DEF TypeOK
  <2>2. CASE \E q \in {"pending", "deleted"} : k.rec \in Records /\ MarkQdrantStatus(k.rec, q)
    BY <2>2, MarkTypes
  <2>3. CASE archive' = archive
    BY <2>3 DEF TypeOK
  <2> QED
    BY <1>1, <2>1, <2>2, <2>3
       DEF CompactorStep, CompactorOK, ListMemory, StartCompaction, CountRecentApplyRuns,
           CreateCompactionRun, MarkVacuouslyDeleted, CompactDeletePoints, MarkDeleted,
           MarkPending, CompleteRun, rows
<1>5. run' \in [Runs -> RunState]
  <2>1. CASE CompleteRun(c) /\ run' # run
    <3> DEFINE v == run[k.run]
    <3>1. PICK status \in {"completed", "failed"}, count \in Nat :
            run' = [run EXCEPT ![k.run] = [v EXCEPT !.status = status, !.archivedCount = count]]
      BY <1>1, <2>1 DEF CompleteRun, CompactorState
    <3>2. k.run \in Runs /\ v \in RunState
      BY <1>1, <2>1 DEF CompleteRun, CompactorOK, TypeOK
    <3>3. [v EXCEPT !.status = status, !.archivedCount = count] \in RunState
      BY <3>2 DEF RunState
    <3> HIDE DEF v
    <3> QED
      BY <3>1, <3>3 DEF TypeOK
  <2>2. CASE CreateCompactionRun(c)
    <3>1. [status |-> "pending", recent |-> TRUE, archivedCount |-> 0] \in RunState
      BY DEF RunState
    <3> QED
      BY <2>2, <3>1 DEF CreateCompactionRun, TypeOK
  <2>3. CASE run' = run
    BY <2>3 DEF TypeOK
  <2> QED
    BY <2>1, <2>2, <2>3
       DEF CompactorStep, ListMemory, StartCompaction, CountRecentApplyRuns,
           ApplyCompactionRecord, MarkVacuouslyDeleted, CompactDeletePoints, MarkDeleted,
           MarkPending, rows
<1>6. /\ record' \in [Records -> RecordState] /\ index' \in [Records -> {"none", "rows", "ids"}]
      /\ \A r \in Records : index'[r] # "none" => record'[r].state = "live"
  <2>1. CASE UNCHANGED <<record, index>>
    BY <2>1 DEF TypeOK
  <2>2. CASE \E e \in k.plan : /\ record' = [record EXCEPT ![e.rec].state = "gone"]
                              /\ index' = Cascade(e.rec)
    <3>1. PICK e \in k.plan : /\ record' = [record EXCEPT ![e.rec].state = "gone"]
                              /\ index' = Cascade(e.rec)
      BY <2>2
    <3>2. record[e.rec] \in RecordState /\ e.rec \in Records
      BY <1>1 DEF TypeOK, CompactorState, Candidate
    <3>3. [record[e.rec] EXCEPT !.state = "gone"] \in RecordState
      BY <3>2 DEF RecordState
    <3> QED
      BY <3>1, <3>2, <3>3 DEF TypeOK, Cascade
  <2> QED
    BY <2>1, <2>2
       DEF CompactorStep, ListMemory, StartCompaction, CountRecentApplyRuns, CreateCompactionRun,
           ApplyCompactionRecord, MarkVacuouslyDeleted, CompactDeletePoints, MarkDeleted,
           MarkPending, CompleteRun, rows
<1>10. ASSUME clock' = clock \/ (clock < MaxClock /\ clock' = clock + 1)
       PROVE  clock' \in 0 .. MaxClock
  BY <1>10 DEF TypeOK
<1> USE DEF CompactorStep, ListMemory, StartCompaction, CountRecentApplyRuns,
            CreateCompactionRun, ApplyCompactionRecord, MarkVacuouslyDeleted,
            CompactDeletePoints, MarkDeleted, MarkPending, CompleteRun
<1>7. points' \in SUBSET Records
  <2>1. CASE \E ok \in BOOLEAN : VectorCall(points \ {k.rec}, ok)
    BY <2>1 DEF TypeOK, VectorCall
  <2>2. CASE points' = points
    BY <2>2 DEF TypeOK
  <2> QED
    BY <2>1, <2>2
<1>8. clock' = clock \/ (clock < MaxClock /\ clock' = clock + 1)
  OBVIOUS
<1>9. UNCHANGED <<sweeper, unarchiver, editor, crashes>>
  OBVIOUS
<1> QED
  BY <1>3, <1>4, <1>5, <1>6, <1>7, <1>8, <1>9, <1>10 DEF TypeOK, CompactorOK

LEMMA SweepWithTypes ==
  ASSUME TypeOK, NEW s \in Sweepers, NEW todo \in SUBSET Records,
         NEW failing \in SUBSET Records, SweepWith(s, todo, failing)
  PROVE  sweeper' \in [Sweepers -> SweeperState]
<1> DEFINE l == [sweeper[s] EXCEPT !.pc = "mark", !.todo = todo, !.failing = failing]
<1>1. l \in SweeperState
  BY DEF TypeOK, SweeperState
<1>2. sweeper' = [sweeper EXCEPT ![s] = IdleSweeper] \/ sweeper' = [sweeper EXCEPT ![s] = l]
  BY DEF SweepWith
<1> HIDE DEF l
<1> QED
  BY <1>1, <1>2, IdleTyped DEF TypeOK

LEMMA ClaimTypes ==
  ASSUME TypeOK, NEW s \in Sweepers, ClaimCleanup(s)
  PROVE  archive' \in [Records -> ArchiveState] /\ sweeper' \in [Sweepers -> SweeperState]
<1>1. PICK batch \in SUBSET Due :
        /\ archive' = [r \in Records |-> IF r \in batch
                         THEN [archive[r] EXCEPT !.retry = "later"] ELSE archive[r]]
        /\ sweeper' = [sweeper EXCEPT ![s] =
                [pc |-> "delete", todo |-> batch, failing |-> {},
                 tries |-> [r \in Records |-> IF r \in batch THEN archive[r].attempts ELSE 0]]]
  BY DEF ClaimCleanup
<1>2. ASSUME NEW r \in Records
      PROVE  /\ archive[r] \in ArchiveState /\ archive[r].attempts \in Nat
             /\ [archive[r] EXCEPT !.retry = "later"] \in ArchiveState
  <2>1. archive[r] \in ArchiveState
    BY DEF TypeOK
  <2> QED
    BY <2>1 DEF ArchiveState
<1>3. batch \in SUBSET Records
  BY DEF Due
<1> DEFINE tries == [r \in Records |-> IF r \in batch THEN archive[r].attempts ELSE 0]
           l == [pc |-> "delete", todo |-> batch, failing |-> {}, tries |-> tries]
<1>4. tries \in [Records -> Nat]
  BY <1>2
<1>5. sweeper' = [sweeper EXCEPT ![s] = l]
  BY <1>1
<1> HIDE DEF tries
<1>6. l \in SweeperState
  BY <1>3, <1>4 DEF SweeperState
<1> HIDE DEF l
<1> QED
  BY <1>1, <1>2, <1>5, <1>6 DEF TypeOK

LEMMA SweeperTypes ==
  ASSUME TypeOK, NEW s \in Sweepers, ClaimCleanup(s) \/ SweeperStep(s)
  PROVE  TypeOK'
<1> DEFINE k == sweeper[s]
<1>1. k.todo \in SUBSET Records /\ k.failing \in SUBSET Records
  BY DEF TypeOK, SweeperState
<1> USE DEF SweeperStep, SweepDeletePoints, SweepMarkDeleted, MarkRowFailure
<1>2. sweeper' \in [Sweepers -> SweeperState]
  <2>1. CASE ClaimCleanup(s)
    BY <2>1, ClaimTypes
  <2>2. CASE \E todo, failing \in SUBSET Records : SweepWith(s, todo, failing)
    BY <2>2, SweepWithTypes
  <2> QED
    BY <1>1, <2>1, <2>2
<1>3. archive' \in [Records -> ArchiveState]
  <2>1. CASE ClaimCleanup(s)
    BY <2>1, ClaimTypes
  <2>2. CASE \E r \in Records, q \in {"pending", "deleted", "failed"} : MarkQdrantStatus(r, q)
    BY <2>2, MarkTypes
  <2>3. CASE archive' = archive
    BY <2>3 DEF TypeOK
  <2> QED
    BY <1>1, <2>1, <2>2, <2>3 DEF rows
<1>4. points' \in SUBSET Records
  BY <1>1 DEF TypeOK, VectorCall, ClaimCleanup
<1>5. UNCHANGED <<record, index, run, clock, compactor, unarchiver, editor, crashes>>
  BY DEF ClaimCleanup, rows
<1> QED
  BY <1>2, <1>3, <1>4, <1>5 DEF TypeOK

-----------------------------------------------------------------------------
LEMMA RestoreNextTypes ==
  ASSUME TypeOK, NEW u \in Unarchivers, unarchiver[u].pc # "idle", RestoreNext(u)
  PROVE  \E l : UnarchiverOK(l) /\ unarchiver' = [unarchiver EXCEPT ![u] = l]
<1> DEFINE k == unarchiver[u]
           rest == Tail(k.queue)
           l == [IdleUnarchiver EXCEPT !.pc = "next", !.queue = rest,
                                       !.restorable = k.restorable]
<1>1. k.queue \in Seq(Records) \ {<<>>} /\ k.restorable \in SUBSET Records
  BY DEF TypeOK, UnarchiverState
<1>2. rest \in Seq(Records)
  BY <1>1
<1>3. UnarchiverOK(IdleUnarchiver) /\ (rest # <<>> => UnarchiverOK(l))
  BY <1>1, <1>2, IdleTyped DEF UnarchiverOK, UnarchiverState, IdleUnarchiver
<1>4. unarchiver' = [unarchiver EXCEPT ![u] = IdleUnarchiver]
        \/ (rest # <<>> /\ unarchiver' = [unarchiver EXCEPT ![u] = l])
  BY DEF RestoreNext
<1> QED
  BY <1>3, <1>4

LEMMA RestoreToTypes ==
  ASSUME TypeOK, NEW u \in Unarchivers, unarchiver[u].pc \notin {"idle", "next"},
         NEW pc \in {"embed", "upsert", "mark", "undoPoints", "undoRecord"}, RestoreTo(u, pc)
  PROVE  \E l : UnarchiverOK(l) /\ unarchiver' = [unarchiver EXCEPT ![u] = l]
<1> DEFINE l == [unarchiver[u] EXCEPT !.pc = pc]
<1>1. UnarchiverOK(unarchiver[u])
  BY DEF TypeOK, UnarchiverOK
<1>2. UnarchiverOK(l)
  BY <1>1 DEF UnarchiverOK, UnarchiverState
<1>3. unarchiver' = [unarchiver EXCEPT ![u] = l]
  BY DEF RestoreTo
<1> QED
  BY <1>2, <1>3

LEMMA UnarchiverTypes ==
  ASSUME TypeOK, NEW u \in Unarchivers, FindArchiveByIds(u) \/ UnarchiverStep(u)
  PROVE  TypeOK'
<1> USE CompactionAssumption
<1> DEFINE k == unarchiver[u]
<1>1. UnarchiverOK(k) /\ UnarchiverOK(IdleUnarchiver)
  BY IdleTyped DEF TypeOK, UnarchiverOK, IdleUnarchiver
<1>2. ASSUME FindArchiveByIds(u)
      PROVE  \E l : UnarchiverOK(l) /\ unarchiver' = [unarchiver EXCEPT ![u] = l]
  <2>1. PICK archiveIds \in Requests :
          unarchiver' = [unarchiver EXCEPT ![u] =
            [IdleUnarchiver EXCEPT !.pc = "next", !.queue = archiveIds,
                !.restorable = {a \in Archived : ~archive[a].unarchived}]]
    BY <1>2 DEF FindArchiveByIds
  <2> DEFINE restorable == {a \in Archived : ~archive[a].unarchived}
             l == [IdleUnarchiver EXCEPT !.pc = "next", !.queue = archiveIds,
                                         !.restorable = restorable]
  <2>2. restorable \in SUBSET Records /\ archiveIds \in Seq(Records) /\ archiveIds # <<>>
    BY DEF Archived
  <2>3. unarchiver' = [unarchiver EXCEPT ![u] = l]
    BY <2>1
  <2> HIDE DEF restorable
  <2>4. UnarchiverOK(l)
    BY <1>1, <2>2 DEF UnarchiverOK, UnarchiverState
  <2> QED
    BY <2>3, <2>4
<1>3. ASSUME RestoreToCanonical(u)
      PROVE  /\ \E l : UnarchiverOK(l) /\ unarchiver' = [unarchiver EXCEPT ![u] = l]
             /\ record' \in [Records -> RecordState]
             /\ \A r \in Records : index[r] # "none" => record'[r].state = "live"
  <2> DEFINE a == Head(k.queue)
  <2>1. k.queue \in Seq(Records) /\ k.queue # <<>>
    BY <1>1, <1>3 DEF RestoreToCanonical, UnarchiverOK, UnarchiverState
  <2>2. a \in Records
    BY <2>1
  <2> HIDE DEF a
  <2>3. CASE RestoreNext(u) /\ UNCHANGED record
    BY <1>3, <2>3, RestoreNextTypes DEF RestoreToCanonical, TypeOK
  <2>4. CASE \E r \in Records :
            /\ NextRecord(r)
            /\ record' = [record EXCEPT ![r] = [record[a] EXCEPT !.state = "live", !.from = a]]
            /\ unarchiver' = [unarchiver EXCEPT ![u] =
                                [k EXCEPT !.pc = "insert", !.arch = a, !.rec = r]]
    <3>1. PICK r \in Records :
            /\ record' = [record EXCEPT ![r] = [record[a] EXCEPT !.state = "live", !.from = a]]
            /\ unarchiver' = [unarchiver EXCEPT ![u] =
                                [k EXCEPT !.pc = "insert", !.arch = a, !.rec = r]]
      BY <2>4
    <3> DEFINE l == [k EXCEPT !.pc = "insert", !.arch = a, !.rec = r]
               copy == [record[a] EXCEPT !.state = "live", !.from = a]
    <3>2. record[a] \in RecordState
      BY <2>2 DEF TypeOK
    <3>3. copy \in RecordState /\ copy.state = "live"
      BY <2>2, <3>2 DEF RecordState
    <3>4. UnarchiverOK(l)
      BY <1>1, <1>3, <2>2 DEF UnarchiverOK, UnarchiverState, RestoreToCanonical
    <3>5. record' = [record EXCEPT ![r] = copy]
            /\ unarchiver' = [unarchiver EXCEPT ![u] = l]
      BY <3>1
    <3> HIDE DEF l, copy
    <3> QED
      BY <3>3, <3>4, <3>5 DEF TypeOK
  <2> QED
    BY <1>3, <2>3, <2>4 DEF RestoreToCanonical, a
<1>4. CASE FindArchiveByIds(u)
  BY <1>1, <1>2, <1>4 DEF FindArchiveByIds, rows, TypeOK, UnarchiverOK
<1>5. CASE RestoreToCanonical(u)
  BY <1>1, <1>3, <1>5 DEF RestoreToCanonical, TypeOK, UnarchiverOK
<1>6. CASE UnarchiverStep(u) /\ ~ RestoreToCanonical(u)
  <2> USE DEF UnarchiverStep, RestoreInsertChunks, RestoreEmbed, RestoreUpsert, RestorePointIds,
              MarkUnarchived, UndoPoints, UndoRecord
  <2>1. k.pc \notin {"idle", "next"} /\ k.rec \in Records /\ k.arch \in Records
    BY <1>1, <1>6 DEF UnarchiverOK
  <2>2. \E l : UnarchiverOK(l) /\ unarchiver' = [unarchiver EXCEPT ![u] = l]
    <3>1. CASE \E pc \in {"embed", "upsert", "mark", "undoPoints", "undoRecord"} :
                RestoreTo(u, pc)
      BY <2>1, <3>1, RestoreToTypes
    <3>2. CASE RestoreNext(u)
      BY <2>1, <3>2, RestoreNextTypes
    <3>3. CASE unarchiver' = [unarchiver EXCEPT ![u] =
                                [k EXCEPT !.pc = "pointIds", !.upserted = TRUE]]
      <4>1. UnarchiverOK([k EXCEPT !.pc = "pointIds", !.upserted = TRUE])
        BY <1>1, <2>1 DEF UnarchiverOK, UnarchiverState
      <4> QED
        BY <3>3, <4>1
    <3> QED
      BY <1>6, <3>1, <3>2, <3>3 DEF RestoreThrow
  <2>3. /\ record' \in [Records -> RecordState]
        /\ index' \in [Records -> {"none", "rows", "ids"}]
        /\ \A r \in Records : index'[r] # "none" => record'[r].state = "live"
    <3>1. CASE UNCHANGED <<record, index>>
      BY <3>1 DEF TypeOK
    <3>2. CASE /\ record' = [record EXCEPT ![k.rec].state = "gone"]
               /\ index' = Cascade(k.rec)
      <4>1. record[k.rec] \in RecordState
        BY <2>1 DEF TypeOK
      <4>2. [record[k.rec] EXCEPT !.state = "gone"] \in RecordState
        BY <4>1 DEF RecordState
      <4> QED
        BY <2>1, <3>2, <4>2 DEF TypeOK, Cascade
    <3>3. CASE /\ UNCHANGED record
               /\ \/ k.rec \in Live /\ index' = [index EXCEPT ![k.rec] = "rows"]
                  \/ index' = [index EXCEPT ![k.rec] = IF @ = "rows" THEN "ids" ELSE @]
      BY <2>1, <3>3 DEF TypeOK, Live
    <3> QED
      BY <1>6, <3>1, <3>2, <3>3 DEF rows
  <2>4. archive' \in [Records -> ArchiveState]
    <3>1. CASE archive' = [archive EXCEPT ![k.arch].unarchived = TRUE]
      <4>1. archive[k.arch] \in ArchiveState
        BY <2>1 DEF TypeOK
      <4>2. [archive[k.arch] EXCEPT !.unarchived = TRUE] \in ArchiveState
        BY <4>1 DEF ArchiveState
      <4> QED
        BY <3>1, <4>2 DEF TypeOK
    <3>2. CASE archive' = archive
      BY <3>2 DEF TypeOK
    <3> QED
      BY <1>6, <3>1, <3>2 DEF rows
  <2>5. points' \in SUBSET Records
    BY <1>6, <2>1 DEF VectorCall, TypeOK
  <2>6. UNCHANGED <<run, clock, compactor, sweeper, editor, crashes>>
    BY <1>6 DEF rows
  <2> QED
    BY <2>2, <2>3, <2>4, <2>5, <2>6 DEF TypeOK, UnarchiverOK
<1> QED
  BY <1>4, <1>5, <1>6

LEMMA EditorTypes ==
  ASSUME TypeOK, NEW e \in Editors,
         (\E r \in Records : BeginUpdate(e, r)) \/ CommitUpdate(e)
  PROVE  TypeOK'
<1> USE CompactionAssumption
<1>1. CASE \E r \in Records : BeginUpdate(e, r)
  <2> PICK r \in Records : BeginUpdate(e, r)
    BY <1>1
  <2>1. clock' = clock + 1 /\ clock < MaxClock /\ clock \in 0 .. MaxClock
    BY DEF BeginUpdate, TypeOK
  <2>2. clock' \in 0 .. MaxClock
    BY <2>1
  <2>3. [pc |-> "commit", rec |-> r, stamp |-> clock + 1] \in EditorState
    BY <2>1, <2>2 DEF EditorState
  <2> QED
    BY <2>2, <2>3 DEF BeginUpdate, TypeOK, rows
<1>2. CASE CommitUpdate(e)
  <2> DEFINE r == editor[e].rec
  <2>1. r \in Records /\ editor[e].stamp \in 0 .. MaxClock /\ record[r] \in RecordState
    BY <1>2 DEF CommitUpdate, TypeOK, EditorState
  <2> HIDE DEF r
  <2>2. record' \in [Records -> RecordState]
          /\ \A q \in Records : record'[q].state = record[q].state
    <3>1. CASE UNCHANGED record
      BY <3>1 DEF TypeOK
    <3>2. CASE \E content \in Contents, weight \in Weights :
                record' = [record EXCEPT ![r] =
                    [@ EXCEPT !.content = content, !.weight = weight,
                              !.updatedAt = editor[e].stamp]]
      <4> PICK content \in Contents, weight \in Weights :
                record' = [record EXCEPT ![r] =
                    [@ EXCEPT !.content = content, !.weight = weight,
                              !.updatedAt = editor[e].stamp]]
        BY <3>2
      <4> DEFINE new == [record[r] EXCEPT !.content = content, !.weight = weight,
                                          !.updatedAt = editor[e].stamp]
      <4>1. new \in RecordState /\ new.state = record[r].state
        BY <2>1 DEF RecordState
      <4>2. record' = [record EXCEPT ![r] = new]
        OBVIOUS
      <4> HIDE DEF new
      <4> QED
        BY <2>1, <4>1, <4>2 DEF TypeOK
    <3> QED
      BY <1>2, <3>1, <3>2 DEF CommitUpdate, r
  <2>3. /\ editor' \in [Editors -> EditorState] /\ editor'[e].pc = "idle"
        /\ \A d \in Editors \ {e} : editor'[d] = editor[d]
    BY <1>2, IdleTyped DEF CommitUpdate, TypeOK, IdleEditor
  <2>4. \A r0 \in Records : index[r0] # "none" => record'[r0].state = "live"
    BY <2>2 DEF TypeOK
  <2>5. ASSUME NEW d \in Editors, editor'[d].pc # "idle"  PROVE editor'[d].rec \in Records
    <3>1. d # e
      BY <2>3, <2>5
    <3> QED
      BY <2>3, <2>5, <3>1 DEF TypeOK
  <2>6. UNCHANGED <<index, archive, run, points, clock, compactor, sweeper, unarchiver, crashes>>
    BY <1>2 DEF CommitUpdate
  <2> QED
    BY <2>2, <2>3, <2>4, <2>5, <2>6 DEF TypeOK
<1> QED
  BY <1>1, <1>2

LEMMA TimeTypes ==
  ASSUME TypeOK, (\E r \in Records : RetryTimeReached(r)) \/ (\E u \in Runs : HourPasses(u))
                    \/ Crash
  PROVE  TypeOK'
<1>1. CASE \E r \in Records : RetryTimeReached(r)
  <2> PICK r \in Records : RetryTimeReached(r)
    BY <1>1
  <2>1. archive[r] \in ArchiveState
    BY DEF TypeOK
  <2>2. [archive[r] EXCEPT !.retry = "due"] \in ArchiveState
    BY <2>1 DEF ArchiveState
  <2> QED
    BY <2>2 DEF RetryTimeReached, TypeOK, actors
<1>2. CASE \E u \in Runs : HourPasses(u)
  <2> PICK u \in Runs : HourPasses(u)
    BY <1>2
  <2>1. run[u] \in RunState
    BY DEF TypeOK
  <2>2. [run[u] EXCEPT !.recent = FALSE] \in RunState
    BY <2>1 DEF RunState
  <2> QED
    BY <2>2 DEF HourPasses, TypeOK, actors
<1>3. CASE Crash
  <2>1. /\ compactor' \in [Compactors -> CompactorState]
        /\ \A c \in Compactors : compactor'[c] \in {compactor[c], IdleCompactor}
    BY <1>3, IdleTyped DEF Crash, CompactEnd, TypeOK
  <2>2. /\ unarchiver' \in [Unarchivers -> UnarchiverState]
        /\ \A u \in Unarchivers : unarchiver'[u] \in {unarchiver[u], IdleUnarchiver}
    BY <1>3, IdleTyped DEF Crash, TypeOK
  <2>3. sweeper' \in [Sweepers -> SweeperState]
    BY <1>3, IdleTyped DEF Crash, TypeOK
  <2>4. crashes' \in 0 .. MaxCrashes
    BY <1>3, CompactionAssumption DEF Crash, TypeOK
  <2>5. IdleCompactor.pc = "idle" /\ IdleUnarchiver.pc = "idle"
    BY DEF IdleCompactor, IdleUnarchiver
  <2> QED
    BY <1>3, <2>1, <2>2, <2>3, <2>4, <2>5 DEF Crash, TypeOK, rows
<1> QED
  BY <1>1, <1>2, <1>3

LEMMA TypeNext == TypeOK /\ [Next]_vars => TypeOK'
<1> SUFFICES ASSUME TypeOK, [Next]_vars PROVE TypeOK'
  OBVIOUS
<1>1. CASE UNCHANGED vars
  BY <1>1 DEF vars, TypeOK
<1> QED
  BY <1>1, CompactorTypes, SweeperTypes, UnarchiverTypes, EditorTypes, TimeTypes DEF Next

\* The rows and the locals of every actor have their types, whatever overlaps.
THEOREM TypeCorrect == Spec => []TypeOK
BY TypeInit, TypeNext, PTL DEF Spec

-----------------------------------------------------------------------------
(***************************************************************************)
(* The rows of the archive.  A row is made by a run that holds its record, *)
(* and never goes; its attempts only grow, and what a sweeper remembers of *)
(* them is at most what they are.                                          *)
(***************************************************************************)
Marking == {"vacuous", "delete", "markDeleted", "markPending"}
Held(c) == compactor[c].pc \in Marking
Swept(s) == sweeper[s].todo \cup sweeper[s].failing

OutboxInv ==
    /\ TypeOK
    /\ \A r \in Archived : record[r].state = "gone"
    /\ \A c \in Compactors : Held(c) => compactor[c].rec \in Archived
    /\ \A s \in Sweepers : \A r \in Swept(s) :
            r \in Archived /\ sweeper[s].tries[r] <= archive[r].attempts
    /\ GivesUpAfterMaxAttempts

\* What a step may do to the rows.
SameRow(r) ==
    archive'[r].q = archive[r].q /\ archive'[r].attempts = archive[r].attempts
        /\ archive'[r].run = archive[r].run

MarkedRow(r, q) ==
    /\ r \in Archived /\ q \in {"pending", "deleted", "failed"}
    /\ q = "failed" => archive[r].attempts + 1 >= MaxAttempts
    /\ archive'[r].q = q /\ archive'[r].attempts = archive[r].attempts + 1
    /\ archive'[r].run = archive[r].run
    /\ \A t \in Records \ {r} : SameRow(t)

\* Run c has archived record r.
AddedRow(c, r) ==
    /\ compactor[c].pc = "archive" /\ r \in Live
    /\ archive'[r].q = "pending" /\ archive'[r].attempts = 0
    /\ archive'[r].run = compactor[c].run
    /\ \A t \in Records \ {r} : SameRow(t)
    /\ record' = [record EXCEPT ![r].state = "gone"]
    /\ compactor'[c].rec = r /\ compactor'[c].run = compactor[c].run
    /\ compactor'[c].count = compactor[c].count + 1
    /\ compactor'[c].pc \in Marking
    /\ \A d \in Compactors \ {c} : compactor'[d] = compactor[d]
    /\ UNCHANGED <<run, sweeper>>

RowsStep ==
    \/ \A r \in Records : SameRow(r)
    \/ \E r \in Records, q \in {"pending", "deleted", "failed"} : MarkedRow(r, q)
    \/ \E c \in Compactors, r \in Records : AddedRow(c, r)

LEMMA MarkMarks ==
  ASSUME TypeOK, NEW r \in Archived, NEW q \in {"pending", "deleted", "failed"},
         MarkQdrantStatus(r, q), q = "failed" => archive[r].attempts + 1 >= MaxAttempts
  PROVE  MarkedRow(r, q)
<1>1. r \in Records /\ archive[r] \in ArchiveState
  BY DEF TypeOK, Archived
<1>2. archive' = [archive EXCEPT ![r] = Marked(archive[r], q)]
  BY DEF MarkQdrantStatus
<1>3. /\ Marked(archive[r], q).q = q
      /\ Marked(archive[r], q).attempts = archive[r].attempts + 1
      /\ Marked(archive[r], q).run = archive[r].run
  BY <1>1 DEF Marked, ArchiveState
<1> QED
  BY <1>1, <1>2, <1>3 DEF MarkedRow, SameRow, TypeOK

LEMMA AddAdds ==
  ASSUME TypeOK, NEW c \in Compactors, ApplyCompactionRecord(c), archive' # archive
  PROVE  \E r \in Records : AddedRow(c, r)
<1> DEFINE k == compactor[c]
<1>1. PICK e \in k.plan :
        /\ Deletable(c, e.rec)
        /\ record' = [record EXCEPT ![e.rec].state = "gone"]
        /\ archive' = [archive EXCEPT ![e.rec] =
                [NoArchive EXCEPT !.q = "pending", !.run = k.run, !.kept = e.kept,
                     !.hasPoints = (index[e.rec] = "ids"),
                     !.retry = IF index[e.rec] = "ids" THEN "later" ELSE "null"]]
        /\ compactor' = [compactor EXCEPT ![c] = [k EXCEPT
                !.pc = IF index[e.rec] = "ids" THEN "delete" ELSE "vacuous",
                !.rec = e.rec, !.plan = @ \ {e}, !.count = Counted(c)]]
  BY DEF ApplyCompactionRecord
<1>2. k \in CompactorState
  BY DEF TypeOK
<1> DEFINE r == e.rec
           row(b) == [NoArchive EXCEPT !.q = "pending", !.run = k.run, !.kept = e.kept,
                                       !.hasPoints = b, !.retry = IF b THEN "later" ELSE "null"]
           l == [k EXCEPT !.pc = IF index[r] = "ids" THEN "delete" ELSE "vacuous",
                          !.rec = r, !.plan = k.plan \ {e}, !.count = Counted(c)]
<1>3. r \in Records /\ r \in Live
  BY <1>1, <1>2 DEF CompactorState, Candidate, Deletable
<1>4. \A b \in BOOLEAN : row(b).q = "pending" /\ row(b).attempts = 0 /\ row(b).run = k.run
  BY DEF NoArchive
<1>5. l.pc \in Marking /\ l.rec = r /\ l.run = k.run /\ l.count = k.count + 1
  BY <1>2 DEF CompactorState, Marking, Counted
<1>6. archive' = [archive EXCEPT ![r] = row(index[r] = "ids")]
        /\ compactor' = [compactor EXCEPT ![c] = l]
  BY <1>1
<1>7. (index[r] = "ids") \in BOOLEAN
  OBVIOUS
<1> HIDE DEF row, l
<1>8. /\ archive'[r].q = "pending" /\ archive'[r].attempts = 0 /\ archive'[r].run = k.run
      /\ \A t \in Records \ {r} : archive'[t] = archive[t]
  BY <1>3, <1>4, <1>6, <1>7 DEF TypeOK
<1>9. compactor'[c] = l /\ \A d \in Compactors \ {c} : compactor'[d] = compactor[d]
  BY <1>6 DEF TypeOK
<1>10. k.pc = "archive" /\ UNCHANGED <<run, sweeper>>
  BY DEF ApplyCompactionRecord
<1> HIDE DEF r
<1>11. record' = [record EXCEPT ![r].state = "gone"]
  BY <1>1 DEF r
<1> QED
  BY <1>3, <1>5, <1>8, <1>9, <1>10, <1>11 DEF AddedRow, SameRow

LEMMA StepIsRowsStep ==
  ASSUME OutboxInv, [Next]_vars
  PROVE  RowsStep
<1> USE DEF OutboxInv
<1>1. ASSUME archive' = archive  PROVE RowsStep
  BY <1>1 DEF RowsStep, SameRow
<1>2. ASSUME NEW c \in Compactors, ListMemory(c) \/ CompactorStep(c)  PROVE RowsStep
  <2>1. CASE ApplyCompactionRecord(c)
    BY <1>1, <2>1, AddAdds DEF RowsStep
  <2>2. CASE MarkVacuouslyDeleted(c) \/ MarkDeleted(c) \/ MarkPending(c)
    <3>1. compactor[c].rec \in Archived /\ compactor[c].rec \in Records
      BY <2>2 DEF MarkVacuouslyDeleted, MarkDeleted, MarkPending, Held, Marking, Archived
    <3>2. archive' = archive \/ \E q \in {"pending", "deleted"} : MarkQdrantStatus(compactor[c].rec, q)
      BY <2>2 DEF MarkVacuouslyDeleted, MarkDeleted, MarkPending
    <3> QED
      BY <1>1, <3>1, <3>2, MarkMarks DEF RowsStep
  <2> QED
    BY <1>1, <1>2, <2>1, <2>2
       DEF CompactorStep, ListMemory, StartCompaction, CountRecentApplyRuns,
           CreateCompactionRun, CompactDeletePoints, CompleteRun, rows
<1>3. ASSUME NEW s \in Sweepers, ClaimCleanup(s) \/ SweeperStep(s)  PROVE RowsStep
  <2>1. CASE ClaimCleanup(s)
    <3>1. PICK batch \in SUBSET Due :
            archive' = [r \in Records |-> IF r \in batch
                         THEN [archive[r] EXCEPT !.retry = "later"] ELSE archive[r]]
      BY <2>1 DEF ClaimCleanup
    <3>2. ASSUME NEW r \in Records  PROVE SameRow(r)
      <4>1. archive[r] \in ArchiveState
        BY DEF TypeOK
      <4>2. archive'[r] \in {archive[r], [archive[r] EXCEPT !.retry = "later"]}
        BY <3>1
      <4> QED
        BY <4>1, <4>2 DEF SameRow, ArchiveState
    <3> QED
      BY <3>2 DEF RowsStep
  <2>2. CASE SweepMarkDeleted(s) /\ archive' # archive
    <3>1. PICK r \in sweeper[s].todo : MarkQdrantStatus(r, "deleted")
      BY <2>2 DEF SweepMarkDeleted
    <3>2. r \in Archived /\ r \in Records
      BY DEF Swept, Archived
    <3> QED
      BY <3>1, <3>2, MarkMarks DEF RowsStep
  <2>3. CASE MarkRowFailure(s) /\ archive' # archive
    <3>1. PICK r \in sweeper[s].failing :
            MarkQdrantStatus(r, IF GivesUp(s, r) THEN "failed" ELSE "pending")
      BY <2>3 DEF MarkRowFailure
    <3>2. r \in Archived /\ r \in Records /\ sweeper[s].tries[r] <= archive[r].attempts
      BY DEF Swept, Archived
    <3>3. sweeper[s].tries[r] \in Nat /\ archive[r].attempts \in Nat
      <4>1. sweeper[s] \in SweeperState /\ archive[r] \in ArchiveState
        BY <3>2 DEF TypeOK
      <4> QED
        BY <3>2, <4>1 DEF SweeperState, ArchiveState
    <3>4. GivesUp(s, r) => archive[r].attempts + 1 >= MaxAttempts
      BY <3>2, <3>3, CompactionAssumption DEF GivesUp
    <3> QED
      BY <3>1, <3>2, <3>4, MarkMarks DEF RowsStep
  <2> QED
    BY <1>1, <1>3, <2>1, <2>2, <2>3 DEF SweeperStep, SweepDeletePoints, rows
<1>4. ASSUME NEW u \in Unarchivers, FindArchiveByIds(u) \/ UnarchiverStep(u)  PROVE RowsStep
  <2>1. CASE MarkUnarchived(u) /\ archive' # archive
    <3> DEFINE a == unarchiver[u].arch
    <3>1. archive' = [archive EXCEPT ![a].unarchived = TRUE] /\ a \in Records
      BY <2>1 DEF MarkUnarchived, TypeOK
    <3>2. archive[a] \in ArchiveState
      BY <3>1 DEF TypeOK
    <3> HIDE DEF a
    <3>3. ASSUME NEW r \in Records  PROVE SameRow(r)
      BY <3>1, <3>2 DEF SameRow, ArchiveState, TypeOK
    <3> QED
      BY <3>3 DEF RowsStep
  <2> QED
    BY <1>1, <1>4, <2>1
       DEF UnarchiverStep, FindArchiveByIds, RestoreToCanonical, RestoreInsertChunks, RestoreEmbed,
           RestoreUpsert, RestorePointIds, MarkUnarchived, UndoPoints, UndoRecord, rows
<1>5. ASSUME NEW r \in Records, RetryTimeReached(r)  PROVE RowsStep
  <2>1. archive[r] \in ArchiveState /\ archive' = [archive EXCEPT ![r].retry = "due"]
    BY <1>5 DEF TypeOK, RetryTimeReached
  <2>2. ASSUME NEW t \in Records  PROVE SameRow(t)
    BY <2>1 DEF SameRow, ArchiveState, TypeOK
  <2> QED
    BY <2>2 DEF RowsStep
<1> QED
  BY <1>1, <1>2, <1>3, <1>4, <1>5
     DEF Next, BeginUpdate, CommitUpdate, HourPasses, Crash, rows, vars

-----------------------------------------------------------------------------
(***************************************************************************)
(* OutboxInv is inductive.                                                 *)
(***************************************************************************)
LEMMA GoneForGood ==
  ASSUME TypeOK, [Next]_vars, NEW r \in Records, record[r].state = "gone"
  PROVE  record'[r].state = "gone"
<1>1. CASE \E c \in Compactors : ApplyCompactionRecord(c)
  BY <1>1 DEF ApplyCompactionRecord, TypeOK, RecordState
<1>2. CASE \E u \in Unarchivers : RestoreToCanonical(u)
  <2>1. CASE \E q \in Records : \E l : record[q].state = "none" /\ record' = [record EXCEPT ![q] = l]
    BY <2>1 DEF TypeOK
  <2>2. \A q \in Records : NextRecord(q) => record[q].state = "none"
    BY CompactionAssumption DEF NextRecord, Records
  <2> QED
    BY <1>2, <2>1, <2>2 DEF RestoreToCanonical
<1>3. CASE \E u \in Unarchivers : UndoRecord(u)
  BY <1>3 DEF UndoRecord, TypeOK, RecordState
<1>4. CASE \E e \in Editors : CommitUpdate(e)
  BY <1>4 DEF CommitUpdate, Live, TypeOK
<1>5. CASE record' = record
  BY <1>5
<1> QED
  BY <1>1, <1>2, <1>3, <1>4, <1>5
     DEF Next, CompactorStep, SweeperStep, UnarchiverStep, ListMemory, StartCompaction,
         CountRecentApplyRuns, CreateCompactionRun, MarkVacuouslyDeleted, CompactDeletePoints,
         MarkDeleted, MarkPending, CompleteRun, ClaimCleanup, SweepDeletePoints,
         SweepMarkDeleted, MarkRowFailure, FindArchiveByIds, RestoreInsertChunks, RestoreEmbed,
         RestoreUpsert, RestorePointIds, MarkUnarchived, UndoPoints, BeginUpdate,
         RetryTimeReached, HourPasses, Crash, rows, vars

\* A row stays, and its attempts do not shrink.
LEMMA RowsGrow ==
  ASSUME TypeOK, \A r \in Archived : record[r].state = "gone", RowsStep, NEW r \in Archived
  PROVE  r \in Archived' /\ archive[r].attempts <= archive'[r].attempts
<1>1. r \in Records /\ archive[r].q # "absent" /\ archive[r].attempts \in Nat
  BY DEF Archived, TypeOK, ArchiveState
<1>2. CASE SameRow(r)
  BY <1>1, <1>2 DEF SameRow, Archived
<1>3. CASE \E q \in {"pending", "deleted", "failed"} : MarkedRow(r, q)
  BY <1>1, <1>3 DEF MarkedRow, Archived
<1>4. \A c \in Compactors : ~ AddedRow(c, r)
  BY DEF AddedRow, Live
<1> QED
  BY <1>1, <1>2, <1>3, <1>4 DEF RowsStep, MarkedRow, AddedRow

\* Which row a run marks next, and which a sweeper.
LEMMA HeldStep ==
  ASSUME OutboxInv, [Next]_vars, NEW c \in Compactors, Held(c)'
  PROVE  \/ Held(c) /\ compactor'[c].rec = compactor[c].rec
         \/ \E r \in Records : AddedRow(c, r)
<1> USE DEF Held, Marking
<1>1. compactor[c] \in CompactorState /\ DOMAIN compactor = Compactors
  BY DEF OutboxInv, TypeOK
<1>2. CASE compactor'[c] = compactor[c]
  BY <1>2
<1>3. CASE compactor'[c] = IdleCompactor
  BY <1>3 DEF IdleCompactor
<1>4. CASE CompactDeletePoints(c) \/ MarkDeleted(c)
  BY <1>1, <1>4 DEF CompactDeletePoints, MarkDeleted, CompactTo, CompactorState
<1>5. CASE ApplyCompactionRecord(c)
  <2>1. CASE archive' # archive
    BY <1>5, <2>1, AddAdds DEF OutboxInv
  <2>2. CASE compactor' = [compactor EXCEPT ![c].pc = "fail"]
    BY <1>1, <2>2
  <2>3. CASE \E plan : compactor' = [compactor EXCEPT ![c].plan = plan]
    <3>1. compactor'[c].pc = compactor[c].pc
      BY <1>1, <2>3 DEF CompactorState
    <3> QED
      BY <1>5, <3>1 DEF ApplyCompactionRecord
  <2>4. CASE \E e \in compactor[c].plan : Deletable(c, e.rec) /\ archive' = [archive EXCEPT ![e.rec] =
                [NoArchive EXCEPT !.q = "pending", !.run = compactor[c].run, !.kept = e.kept,
                     !.hasPoints = (index[e.rec] = "ids"),
                     !.retry = IF index[e.rec] = "ids" THEN "later" ELSE "null"]]
    <3>1. PICK e \in compactor[c].plan :
            Deletable(c, e.rec) /\ archive' = [archive EXCEPT ![e.rec] =
                [NoArchive EXCEPT !.q = "pending", !.run = compactor[c].run, !.kept = e.kept,
                     !.hasPoints = (index[e.rec] = "ids"),
                     !.retry = IF index[e.rec] = "ids" THEN "later" ELSE "null"]]
      BY <2>4
    <3>2. e.rec \in Live /\ e.rec \in Records
      BY <3>1 DEF Deletable, Live
    <3>3. archive'[e.rec].q = "pending"
      BY <3>1, <3>2 DEF OutboxInv, TypeOK, NoArchive
    <3>4. archive[e.rec].q = "absent"
      BY <3>2 DEF OutboxInv, Archived, Live
    <3> QED
      BY <2>1, <3>3, <3>4
  <2> QED
    BY <1>5, <2>1, <2>2, <2>3, <2>4 DEF ApplyCompactionRecord, CompactTo
<1>6. ASSUME NEW pc \in {"create", "archive"}, CompactTo(c, pc)  PROVE FALSE
  BY <1>1, <1>6 DEF CompactTo
<1>7. CASE ListMemory(c) \/ StartCompaction(c) \/ CreateCompactionRun(c)
  BY <1>1, <1>3, <1>7 DEF ListMemory, StartCompaction, CreateCompactionRun, CompactorState, IdleCompactor,
                          CompactEnd
<1>8. ASSUME NEW d \in Compactors, d # c, ListMemory(d) \/ CompactorStep(d)
      PROVE  compactor'[c] = compactor[c]
  <2>1. \E l : compactor' = [compactor EXCEPT ![d] = l]
    BY <1>8 DEF CompactorStep, ListMemory, StartCompaction, CountRecentApplyRuns,
                CreateCompactionRun, ApplyCompactionRecord, MarkVacuouslyDeleted,
                CompactDeletePoints, MarkDeleted, MarkPending, CompleteRun, CompactTo, CompactEnd
  <2> QED
    BY <1>1, <1>8, <2>1
<1>9. CASE ListMemory(c) \/ CompactorStep(c)
  <2>1. CASE CompactEnd(c)
    BY <1>1, <1>3, <2>1 DEF CompactEnd
  <2> QED
    BY <1>4, <1>5, <1>6, <1>7, <1>9, <2>1
       DEF CompactorStep, CountRecentApplyRuns, MarkVacuouslyDeleted, MarkPending, CompleteRun
<1>10. CASE Crash
  BY <1>1, <1>2, <1>3, <1>10 DEF Crash, CompactEnd
<1>11. CASE compactor' = compactor
  BY <1>2, <1>11
<1> QED
  BY <1>2, <1>8, <1>9, <1>10, <1>11
     DEF Next, SweeperStep, UnarchiverStep, ClaimCleanup, SweepDeletePoints, SweepMarkDeleted,
         MarkRowFailure, FindArchiveByIds, RestoreToCanonical, RestoreInsertChunks,
         RestoreEmbed, RestoreUpsert, RestorePointIds, MarkUnarchived, UndoPoints, UndoRecord,
         BeginUpdate, CommitUpdate, RetryTimeReached, HourPasses, actors, vars

LEMMA SweptStep ==
  ASSUME OutboxInv, [Next]_vars, NEW s \in Sweepers, NEW r \in Swept(s)'
  PROVE  \/ r \in Swept(s) /\ sweeper'[s].tries[r] = sweeper[s].tries[r]
         \/ r \in Archived /\ sweeper'[s].tries[r] = archive[r].attempts
<1> USE DEF Swept
<1> DEFINE k == sweeper[s]
<1>1. k \in SweeperState /\ DOMAIN sweeper = Sweepers
  BY DEF OutboxInv, TypeOK
<1>2. CASE sweeper'[s] = k
  BY <1>2
<1>3. CASE sweeper'[s] = IdleSweeper
  BY <1>3 DEF IdleSweeper
<1>4. ASSUME NEW todo \in SUBSET Swept(s), NEW failing \in SUBSET Swept(s),
             SweepWith(s, todo, failing)
      PROVE  r \in Swept(s) /\ sweeper'[s].tries[r] = k.tries[r]
  <2>1. sweeper'[s] = [k EXCEPT !.pc = "mark", !.todo = todo, !.failing = failing]
    BY <1>1, <1>3, <1>4 DEF SweepWith, IdleSweeper
  <2> QED
    BY <1>1, <1>4, <2>1 DEF SweeperState
<1>5. CASE SweeperStep(s)
  BY <1>4, <1>5 DEF SweeperStep, SweepDeletePoints, SweepMarkDeleted, MarkRowFailure
<1>6. CASE ClaimCleanup(s)
  <2>1. PICK batch \in SUBSET Due :
          sweeper' = [sweeper EXCEPT ![s] =
                [pc |-> "delete", todo |-> batch, failing |-> {},
                 tries |-> [q \in Records |-> IF q \in batch THEN archive[q].attempts ELSE 0]]]
    BY <1>6 DEF ClaimCleanup
  <2>2. r \in batch /\ r \in Records /\ sweeper'[s].tries[r] = archive[r].attempts
    BY <1>1, <2>1 DEF Due
  <2> QED
    BY <2>2 DEF Due, Archived
<1>7. ASSUME NEW t \in Sweepers, t # s, ClaimCleanup(t) \/ SweeperStep(t)
      PROVE  sweeper'[s] = k
  <2>1. \E l : sweeper' = [sweeper EXCEPT ![t] = l]
    BY <1>7 DEF SweeperStep, ClaimCleanup, SweepDeletePoints, SweepMarkDeleted, MarkRowFailure,
                SweepWith
  <2> QED
    BY <1>1, <1>7, <2>1
<1>8. CASE Crash
  BY <1>1, <1>2, <1>3, <1>8 DEF Crash
<1>9. CASE sweeper' = sweeper
  BY <1>2, <1>9
<1> QED
  BY <1>2, <1>5, <1>6, <1>7, <1>8, <1>9
     DEF Next, CompactorStep, UnarchiverStep, ListMemory, StartCompaction,
         CountRecentApplyRuns, CreateCompactionRun, ApplyCompactionRecord, MarkVacuouslyDeleted,
         CompactDeletePoints, MarkDeleted, MarkPending, CompleteRun, FindArchiveByIds,
         RestoreToCanonical, RestoreInsertChunks, RestoreEmbed, RestoreUpsert, RestorePointIds,
         MarkUnarchived, UndoPoints, UndoRecord, BeginUpdate, CommitUpdate, RetryTimeReached,
         HourPasses, actors, vars

LEMMA OutboxInit == Init => OutboxInv
<1> SUFFICES ASSUME Init PROVE OutboxInv
  OBVIOUS
<1>1. TypeOK
  BY TypeInit
<1>2. Archived = {}
  BY DEF Init, Archived, NoArchive
<1>3. /\ \A c \in Compactors : ~ Held(c)
      /\ \A s \in Sweepers : Swept(s) = {}
      /\ \A r \in Records : archive[r].q = "absent"
  BY DEF Init, Held, Marking, Swept, IdleCompactor, IdleSweeper, NoArchive
<1> QED
  BY <1>1, <1>2, <1>3 DEF OutboxInv, GivesUpAfterMaxAttempts

LEMMA OutboxNext == OutboxInv /\ [Next]_vars => OutboxInv'
<1> SUFFICES ASSUME OutboxInv, [Next]_vars PROVE OutboxInv'
  OBVIOUS
<1>1. TypeOK' /\ RowsStep
  BY TypeNext, StepIsRowsStep DEF OutboxInv
<1>2. \A r \in Archived : r \in Archived' /\ archive[r].attempts <= archive'[r].attempts
  BY <1>1, RowsGrow DEF OutboxInv
<1>3. ASSUME NEW r \in Archived'  PROVE record'[r].state = "gone"
  <2>1. CASE r \in Archived
    <3>1. record[r].state = "gone" /\ r \in Records
      BY <2>1 DEF OutboxInv, Archived
    <3> QED
      BY <3>1, GoneForGood DEF OutboxInv
  <2>2. CASE r \notin Archived
    <3>1. PICK c \in Compactors, t \in Records : AddedRow(c, t)
      BY <1>1, <2>2 DEF RowsStep, SameRow, MarkedRow, Archived
    <3>2. r = t
      BY <2>2, <3>1 DEF AddedRow, SameRow, Archived
    <3> QED
      BY <3>1, <3>2 DEF AddedRow, OutboxInv, TypeOK, RecordState
  <2> QED
    BY <2>1, <2>2
<1>4. ASSUME NEW c \in Compactors, Held(c)'  PROVE compactor'[c].rec \in Archived'
  <2>1. CASE Held(c) /\ compactor'[c].rec = compactor[c].rec
    BY <1>2, <2>1 DEF OutboxInv
  <2>2. CASE \E r \in Records : AddedRow(c, r)
    BY <2>2 DEF AddedRow, Archived
  <2> QED
    BY <1>4, <2>1, <2>2, HeldStep
<1>5. ASSUME NEW s \in Sweepers, NEW r \in Swept(s)'
      PROVE  r \in Archived' /\ sweeper'[s].tries[r] <= archive'[r].attempts
  <2>1. r \in Archived /\ sweeper'[s].tries[r] <= archive[r].attempts
    <3>1. CASE r \in Swept(s) /\ sweeper'[s].tries[r] = sweeper[s].tries[r]
      BY <3>1 DEF OutboxInv
    <3>2. CASE r \in Archived /\ sweeper'[s].tries[r] = archive[r].attempts
      BY <3>2 DEF Archived, OutboxInv, TypeOK, ArchiveState
    <3> QED
      BY <3>1, <3>2, SweptStep
  <2>2. sweeper'[s].tries[r] \in Nat /\ archive[r].attempts \in Nat /\ archive'[r].attempts \in Nat
    <3>1. r \in Records /\ sweeper'[s] \in SweeperState /\ archive[r] \in ArchiveState
            /\ archive'[r] \in ArchiveState
      BY <1>1, <2>1 DEF Archived, OutboxInv, TypeOK
    <3> QED
      BY <3>1 DEF SweeperState, ArchiveState
  <2> QED
    BY <1>2, <2>1, <2>2
<1>6. ASSUME NEW r \in Records, archive'[r].q = "failed"
      PROVE  archive'[r].attempts >= MaxAttempts
  BY <1>1, <1>6 DEF RowsStep, SameRow, MarkedRow, AddedRow, OutboxInv, GivesUpAfterMaxAttempts
<1> QED
  BY <1>1, <1>3, <1>4, <1>5, <1>6 DEF OutboxInv, GivesUpAfterMaxAttempts

\* A row is given up only after MaxAttempts attempts, whoever made them: what a
\* sweeper remembers of a row it claimed is never more than the row has had.
THEOREM GivesUpAtBound == Spec => []GivesUpAfterMaxAttempts
<1>1. OutboxInv => GivesUpAfterMaxAttempts
  BY DEF OutboxInv
<1> QED
  BY <1>1, OutboxInit, OutboxNext, PTL DEF Spec

-----------------------------------------------------------------------------
(***************************************************************************)
(* The counts.  A run under way is one run's alone, is pending, and has    *)
(* counted the rows that name it.                                          *)
(***************************************************************************)
RowsOf(u) == {r \in Archived : archive[r].run = u}
HasRun(c) == compactor[c].pc \in {"archive", "fail"} \cup Marking

CountInv ==
    /\ OutboxInv
    /\ \A c \in Compactors :
        IF HasRun(c)
        THEN /\ run[compactor[c].run].status = "pending"
             /\ compactor[c].count = Cardinality(RowsOf(compactor[c].run))
        ELSE compactor[c].count = 0
    /\ \A c, d \in Compactors :
        HasRun(c) /\ HasRun(d) /\ compactor[c].run = compactor[d].run => c = d
    /\ \A u \in Runs : run[u].status = "absent" => RowsOf(u) = {}
    /\ CompletedRunCountsItsRows

\* What a step may do to a run's locals and to its row.
Created(c, u) ==
    /\ ~ HasRun(c) /\ HasRun(c)' /\ run[u].status = "absent"
    /\ compactor'[c].run = u /\ compactor'[c].count = compactor[c].count
    /\ run'[u].status = "pending"
    /\ \A v \in Runs \ {u} : run'[v] = run[v]
    /\ \A d \in Compactors \ {c} : compactor'[d] = compactor[d]

Completed(c, status) ==
    /\ HasRun(c) /\ compactor'[c] = IdleCompactor
    /\ status \in {"completed", "failed"} /\ run'[compactor[c].run].status = status
    /\ status = "completed" => run'[compactor[c].run].archivedCount = compactor[c].count
    /\ \A v \in Runs \ {compactor[c].run} : run'[v] = run[v]
    /\ \A d \in Compactors \ {c} : compactor'[d] = compactor[d]

SameRuns ==
    \A u \in Runs : run'[u].status = run[u].status /\ run'[u].archivedCount = run[u].archivedCount

Continued(c) ==
    \/ HasRun(c) /\ HasRun(c)' /\ compactor'[c].run = compactor[c].run
        /\ compactor'[c].count = compactor[c].count
    \/ ~ HasRun(c)' /\ compactor'[c].count = 0

RunsStep ==
    \/ \E c \in Compactors, u \in Runs : Created(c, u)
    \/ \E c \in Compactors, status \in {"completed", "failed"} : Completed(c, status)
    \/ SameRuns /\ \A c \in Compactors : Continued(c)

LEMMA CompactorRunsStep ==
  ASSUME TypeOK, NEW c \in Compactors, ListMemory(c) \/ CompactorStep(c), record' = record,
         ~ HasRun(c) => compactor[c].count = 0
  PROVE  \/ \E u \in Runs : Created(c, u)
         \/ \E status \in {"completed", "failed"} : Completed(c, status)
         \/ run' = run /\ Continued(c)
<1> USE DEF HasRun, Marking
<1> DEFINE k == compactor[c]
<1>1. k \in CompactorState /\ DOMAIN compactor = Compactors
  BY DEF TypeOK
<1>2. ASSUME compactor' = [compactor EXCEPT ![c] = IdleCompactor]  PROVE Continued(c)
  BY <1>1, <1>2 DEF Continued, IdleCompactor
<1>3. ASSUME NEW pc \in {"archive", "fail", "markDeleted", "markPending"},
             HasRun(c), CompactTo(c, pc)
      PROVE  Continued(c)
  BY <1>1, <1>3 DEF CompactTo, Continued, CompactorState
<1>4. CASE ListMemory(c)
  <2>1. PICK plan : compactor' = [compactor EXCEPT ![c] =
                                    [IdleCompactor EXCEPT !.pc = "start", !.plan = plan]]
    BY <1>4 DEF ListMemory
  <2>2. compactor'[c].pc = "start" /\ compactor'[c].count = 0
    BY <1>1, <2>1 DEF IdleCompactor
  <2> QED
    BY <1>4, <2>2 DEF ListMemory, Continued, rows
<1>5. CASE StartCompaction(c)
  <2>1. CASE compactor' = [compactor EXCEPT ![c] =
                            [@ EXCEPT !.pc = "limit", !.planGeneratedAt = clock + 1]]
    <3>1. k.pc = "start" /\ k.count = 0
      BY <1>5 DEF StartCompaction
    <3>2. compactor'[c].pc = "limit" /\ compactor'[c].count = 0
      BY <1>1, <2>1, <3>1 DEF CompactorState
    <3> QED
      BY <1>5, <3>2 DEF StartCompaction, Continued, rows
  <2> QED
    BY <1>2, <1>5, <2>1 DEF StartCompaction, CompactEnd, rows
<1>6. CASE CountRecentApplyRuns(c)
  <2>1. CASE CompactTo(c, "create")
    <3>1. k.count = 0
      BY <1>6 DEF CountRecentApplyRuns
    <3>2. compactor'[c].pc = "create" /\ compactor'[c].count = 0
      BY <1>1, <2>1, <3>1 DEF CompactTo, CompactorState
    <3> QED
      BY <1>6, <3>2 DEF CountRecentApplyRuns, Continued, rows
  <2> QED
    BY <1>2, <1>6, <2>1 DEF CountRecentApplyRuns, CompactEnd, rows
<1>7. CASE CreateCompactionRun(c) /\ run' # run
  <2>1. PICK u \in Runs :
          /\ NextRun(u)
          /\ run' = [run EXCEPT ![u] =
                    [status |-> "pending", recent |-> TRUE, archivedCount |-> 0]]
          /\ compactor' = [compactor EXCEPT ![c] = [@ EXCEPT !.pc = "archive", !.run = u]]
    BY <1>7 DEF CreateCompactionRun
  <2>2. run[u].status = "absent"
    BY <2>1, CompactionAssumption DEF NextRun, Runs
  <2>3. compactor'[c] = [k EXCEPT !.pc = "archive", !.run = u]
          /\ \A d \in Compactors \ {c} : compactor'[d] = compactor[d]
    BY <1>1, <2>1
  <2>4. compactor'[c].pc = "archive" /\ compactor'[c].run = u /\ compactor'[c].count = k.count
    BY <1>1, <2>3 DEF CompactorState
  <2>5. Created(c, u)
    BY <1>7, <2>1, <2>2, <2>3, <2>4 DEF Created, CreateCompactionRun, TypeOK
  <2> QED
    BY <2>5
<1>8. CASE CreateCompactionRun(c) /\ run' = run
  <2>1. CASE CompactEnd(c)
    BY <1>2, <1>8, <2>1 DEF CompactEnd
  <2>2. CASE ~ CompactEnd(c)
    <3>1. PICK u \in Runs : run' = [run EXCEPT ![u] =
                    [status |-> "pending", recent |-> TRUE, archivedCount |-> 0]] /\ NextRun(u)
      BY <1>8, <2>2 DEF CreateCompactionRun
    <3>2. run[u].status = "absent"
      BY <3>1, CompactionAssumption DEF NextRun, Runs
    <3>3. run'[u].status = "pending"
      BY <3>1 DEF TypeOK
    <3> QED
      BY <1>8, <3>2, <3>3
  <2> QED
    BY <2>1, <2>2
<1>9. CASE ApplyCompactionRecord(c)
  <2>1. PICK e \in k.plan :
          \/ compactor' = [compactor EXCEPT ![c].plan = @ \ {e}]
          \/ CompactTo(c, "fail")
          \/ Deletable(c, e.rec) /\ record' = [record EXCEPT ![e.rec].state = "gone"]
    BY <1>9 DEF ApplyCompactionRecord
  <2>2. ~ (Deletable(c, e.rec) /\ record' = [record EXCEPT ![e.rec].state = "gone"])
    BY DEF Deletable, Live, TypeOK, RecordState
  <2>3. ASSUME compactor' = [compactor EXCEPT ![c].plan = @ \ {e}]  PROVE Continued(c)
    BY <1>1, <1>9, <2>3 DEF Continued, CompactorState, ApplyCompactionRecord
  <2>4. HasRun(c) /\ run' = run
    BY <1>9 DEF ApplyCompactionRecord
  <2> QED
    BY <1>3, <2>1, <2>2, <2>3, <2>4
<1>10. CASE MarkVacuouslyDeleted(c)
  BY <1>2, <1>3, <1>10 DEF MarkVacuouslyDeleted, CompactEnd
<1>11. CASE CompactDeletePoints(c)
  <2>1. HasRun(c) /\ run' = run
          /\ \E pc \in {"archive", "fail", "markDeleted", "markPending"} : CompactTo(c, pc)
    BY <1>11 DEF CompactDeletePoints, rows
  <2> QED
    BY <1>3, <2>1
<1>12. CASE MarkDeleted(c) \/ MarkPending(c)
  BY <1>3, <1>12 DEF MarkDeleted, MarkPending
<1>13. CASE CompleteRun(c) /\ run' = run
  BY <1>2, <1>13 DEF CompleteRun, CompactEnd
<1>14. CASE CompleteRun(c) /\ run' # run
  <2>1. PICK status \in {"completed", "failed"}, count \in Nat :
          /\ run' = [run EXCEPT ![k.run] = [@ EXCEPT !.status = status, !.archivedCount = count]]
          /\ status = "completed" => count = k.count
    BY <1>1, <1>14 DEF CompleteRun, CompactorState
  <2>2. k.run \in Runs /\ run[k.run] \in RunState /\ k.pc \in {"archive", "fail"}
    BY <1>14 DEF CompleteRun, TypeOK
  <2>3. run'[k.run].status = status /\ run'[k.run].archivedCount = count
    BY <2>1, <2>2 DEF TypeOK, RunState
  <2>4. Completed(c, status)
    BY <1>1, <1>14, <2>1, <2>2, <2>3 DEF Completed, CompleteRun, CompactEnd, TypeOK
  <2> QED
    BY <2>4
<1> QED
  BY <1>4, <1>5, <1>6, <1>7, <1>8, <1>9, <1>10, <1>11, <1>12, <1>13, <1>14 DEF CompactorStep

LEMMA CompactorLeavesOthers ==
  ASSUME TypeOK, NEW c \in Compactors, ListMemory(c) \/ CompactorStep(c)
  PROVE  \A d \in Compactors \ {c} : compactor'[d] = compactor[d]
<1>1. DOMAIN compactor = Compactors
  BY DEF TypeOK
<1>2. ASSUME \E k : compactor' = [compactor EXCEPT ![c] = k]
      PROVE  \A d \in Compactors \ {c} : compactor'[d] = compactor[d]
  BY <1>1, <1>2
<1>3. CASE ListMemory(c) \/ StartCompaction(c) \/ CountRecentApplyRuns(c) \/ CreateCompactionRun(c)
  BY <1>2, <1>3 DEF ListMemory, StartCompaction, CountRecentApplyRuns, CreateCompactionRun,
                    CompactTo, CompactEnd
<1>4. CASE ApplyCompactionRecord(c)
  BY <1>2, <1>4 DEF ApplyCompactionRecord, CompactTo
<1>5. CASE \/ MarkVacuouslyDeleted(c) \/ CompactDeletePoints(c) \/ MarkDeleted(c)
           \/ MarkPending(c) \/ CompleteRun(c)
  BY <1>2, <1>5 DEF MarkVacuouslyDeleted, CompactDeletePoints, MarkDeleted, MarkPending,
                    CompleteRun, CompactTo, CompactEnd
<1> QED
  BY <1>3, <1>4, <1>5 DEF CompactorStep

LEMMA StepIsRunsStep ==
  ASSUME CountInv, [Next]_vars
  PROVE  RunsStep \/ \E c \in Compactors, r \in Records : AddedRow(c, r)
<1>1. TypeOK
  BY DEF CountInv, OutboxInv
<1>2. ASSUME NEW c \in Compactors, compactor'[c] = compactor[c]  PROVE Continued(c)
  BY <1>2 DEF CountInv, Continued, HasRun
<1>3. CASE compactor' = compactor /\ SameRuns
  BY <1>2, <1>3 DEF RunsStep
<1>4. ASSUME NEW c \in Compactors, ListMemory(c) \/ CompactorStep(c)
      PROVE  RunsStep \/ \E r \in Records : AddedRow(c, r)
  <2>1. CASE record' = record
    <3>1. ~ HasRun(c) => compactor[c].count = 0
      BY DEF CountInv
    <3>2. \/ \E u \in Runs : Created(c, u)
          \/ \E status \in {"completed", "failed"} : Completed(c, status)
          \/ run' = run /\ Continued(c)
      BY <1>1, <1>4, <2>1, <3>1, CompactorRunsStep
    <3>3. \A d \in Compactors \ {c} : Continued(d)
      BY <1>1, <1>2, <1>4, CompactorLeavesOthers
    <3> QED
      BY <3>2, <3>3 DEF RunsStep, SameRuns
  <2>2. CASE record' # record
    <3>1. ApplyCompactionRecord(c)
      BY <1>4, <2>2 DEF ListMemory, CompactorStep, StartCompaction, CountRecentApplyRuns,
         CreateCompactionRun, MarkVacuouslyDeleted, CompactDeletePoints, MarkDeleted,
         MarkPending, CompleteRun, rows
    <3>2. CASE archive' # archive
      BY <1>1, <3>1, <3>2, AddAdds
    <3>3. CASE archive' = archive
      <4>1. PICK e \in compactor[c].plan :
              /\ Deletable(c, e.rec)
              /\ archive' = [archive EXCEPT ![e.rec] =
                [NoArchive EXCEPT !.q = "pending", !.run = compactor[c].run, !.kept = e.kept,
                     !.hasPoints = (index[e.rec] = "ids"),
                     !.retry = IF index[e.rec] = "ids" THEN "later" ELSE "null"]]
        BY <2>2, <3>1 DEF ApplyCompactionRecord
      <4>2. e.rec \in Records /\ record[e.rec].state = "live"
        BY <4>1 DEF Deletable, Live
      <4>3. archive'[e.rec].q = "pending"
        BY <1>1, <4>1, <4>2 DEF TypeOK, NoArchive
      <4> QED
        BY <3>3, <4>2, <4>3 DEF CountInv, OutboxInv, Archived
    <3> QED
      BY <3>2, <3>3
  <2> QED
    BY <2>1, <2>2
<1>5. ASSUME NEW u \in Runs, HourPasses(u)  PROVE compactor' = compactor /\ SameRuns
  <2>1. run' = [run EXCEPT ![u].recent = FALSE]
    BY <1>5 DEF HourPasses
  <2>2. run \in [Runs -> RunState]
    BY <1>1 DEF TypeOK
  <2> QED
    BY <1>5, <2>1, <2>2 DEF HourPasses, actors, SameRuns, RunState
<1>6. CASE Crash
  <2>1. run' = run
    BY <1>6 DEF Crash, rows
  <2>2. \A c \in Compactors : compactor'[c] \in {compactor[c], IdleCompactor}
    BY <1>1, <1>6 DEF Crash, CompactEnd, TypeOK
  <2>3. \A c \in Compactors : compactor'[c] = IdleCompactor => Continued(c)
    BY DEF Continued, HasRun, Marking, IdleCompactor
  <2> QED
    BY <1>2, <2>1, <2>2, <2>3 DEF RunsStep, SameRuns
<1>7. ASSUME NEW s \in Sweepers, ClaimCleanup(s) \/ SweeperStep(s)
      PROVE  compactor' = compactor /\ run' = run
  BY <1>7 DEF ClaimCleanup, SweeperStep, SweepDeletePoints, SweepMarkDeleted, MarkRowFailure, rows
<1>8. ASSUME NEW u \in Unarchivers, FindArchiveByIds(u) \/ UnarchiverStep(u)
      PROVE  compactor' = compactor /\ run' = run
  BY <1>8 DEF FindArchiveByIds, UnarchiverStep, RestoreToCanonical, RestoreInsertChunks,
     RestoreEmbed, RestoreUpsert, RestorePointIds, MarkUnarchived, UndoPoints, UndoRecord, rows
<1>9. ASSUME NEW e \in Editors, (\E r \in Records : BeginUpdate(e, r)) \/ CommitUpdate(e)
      PROVE  compactor' = compactor /\ run' = run
  BY <1>9 DEF BeginUpdate, CommitUpdate, rows
<1>10. ASSUME NEW r \in Records, RetryTimeReached(r)  PROVE compactor' = compactor /\ run' = run
  BY <1>10 DEF RetryTimeReached, actors
<1>11. CASE UNCHANGED vars
  BY <1>3, <1>11 DEF vars, SameRuns
<1> QED
  BY <1>3, <1>4, <1>5, <1>6, <1>7, <1>8, <1>9, <1>10, <1>11 DEF Next, SameRuns

\* The rows that name a run change only when a run adds one.
LEMMA RowsOfKept ==
  ASSUME CountInv, [Next]_vars, ~ \E c \in Compactors, r \in Records : AddedRow(c, r)
  PROVE  \A u : RowsOf(u)' = RowsOf(u)
<1>1. CASE \A r \in Records : SameRow(r)
  BY <1>1 DEF SameRow, RowsOf, Archived
<1>2. CASE \E r \in Records, q \in {"pending", "deleted", "failed"} : MarkedRow(r, q)
  BY <1>2 DEF MarkedRow, SameRow, RowsOf, Archived
<1> QED
  BY <1>1, <1>2, StepIsRowsStep DEF RowsStep, CountInv

LEMMA RowsOfAdded ==
  ASSUME CountInv, NEW c \in Compactors, NEW r \in Records, AddedRow(c, r)
  PROVE  /\ \A u : u # compactor[c].run => RowsOf(u)' = RowsOf(u)
         /\ Cardinality(RowsOf(compactor[c].run)') = Cardinality(RowsOf(compactor[c].run)) + 1
<1> DEFINE mine == RowsOf(compactor[c].run)
<1>1. r \notin Archived /\ r \in Archived'
  BY DEF AddedRow, CountInv, OutboxInv, Live, Archived
<1>2. \A t \in Records \ {r} : (t \in Archived') = (t \in Archived) /\ archive'[t].run = archive[t].run
  BY DEF AddedRow, SameRow, Archived
<1>3. \A u : u # compactor[c].run => RowsOf(u)' = RowsOf(u)
  BY <1>1, <1>2 DEF RowsOf, AddedRow, Archived
<1>4. mine' = mine \cup {r} /\ r \notin mine
  <2>1. RowsOf(compactor[c].run)' = {t \in Archived' : archive'[t].run = compactor[c].run}
    BY DEF RowsOf, AddedRow
  <2> QED
    BY <1>1, <1>2, <2>1 DEF RowsOf, AddedRow, Archived
<1>5. IsFiniteSet(Records) /\ mine \subseteq Records
  BY FS_Interval, CompactionAssumption DEF Records, RowsOf, Archived
<1>6. IsFiniteSet(mine)
  BY <1>5, FS_Subset
<1>7. Cardinality(mine \cup {r}) = Cardinality(mine) + 1
  BY <1>4, <1>6, FS_AddElement
<1> QED
  BY <1>3, <1>4, <1>7

LEMMA CountInit == Init => CountInv
<1> SUFFICES ASSUME Init  PROVE CountInv
  OBVIOUS
<1>1. Archived = {}
  BY DEF Init, Archived, NoArchive
<1>2. \A u \in Runs : run[u].status = "absent" /\ RowsOf(u) = {}
  BY <1>1 DEF Init, RowsOf
<1>3. \A c \in Compactors : compactor[c].pc = "idle" /\ compactor[c].count = 0
  BY DEF Init, IdleCompactor
<1>4. \A c \in Compactors : ~ HasRun(c)
  BY <1>3 DEF HasRun, Marking
<1> QED
  BY <1>2, <1>3, <1>4, OutboxInit DEF CountInv, CompletedRunCountsItsRows

LEMMA CountNext ==
  ASSUME CountInv, [Next]_vars
  PROVE  CountInv'
<1>1. OutboxInv /\ OutboxInv' /\ TypeOK
  BY OutboxNext DEF CountInv, OutboxInv
<1>2. ASSUME NEW c \in Compactors, NEW r \in Records, AddedRow(c, r)  PROVE CountInv'
  <2>1. HasRun(c) /\ HasRun(c)' /\ compactor'[c].run = compactor[c].run /\ run' = run
    BY <1>2 DEF AddedRow, HasRun
  <2>2. \A d \in Compactors \ {c} : compactor'[d] = compactor[d] /\ (HasRun(d)' <=> HasRun(d))
    BY <1>2 DEF AddedRow, HasRun
  <2>3. compactor'[c].count = Cardinality(RowsOf(compactor[c].run)')
    BY <1>2, <2>1, RowsOfAdded DEF AddedRow, CountInv
  <2>4. \A u : u # compactor[c].run => RowsOf(u)' = RowsOf(u)
    BY <1>2, RowsOfAdded
  <2>5. compactor[c].run \in Runs /\ run[compactor[c].run].status = "pending"
    BY <1>1, <1>2, <2>1 DEF CountInv, TypeOK, AddedRow
  <2>6. (\A d \in Compactors : IF HasRun(d)
            THEN /\ run[compactor[d].run].status = "pending"
                 /\ compactor[d].count = Cardinality(RowsOf(compactor[d].run))
            ELSE compactor[d].count = 0)'
    <3>1. TAKE d \in Compactors
    <3>2. CASE d = c
      BY <2>1, <2>3, <2>5, <3>2 DEF RowsOf, Archived
    <3>3. CASE d # c /\ HasRun(d)
      <4>1. compactor[d].run # compactor[c].run
        BY <2>1, <3>3 DEF CountInv
      <4>2. RowsOf(compactor[d].run)' = RowsOf(compactor[d].run)
        BY <2>2, <2>4, <3>3, <4>1 DEF RowsOf, Archived
      <4> QED
        BY <2>1, <2>2, <3>3, <4>2 DEF CountInv
    <3>4. CASE d # c /\ ~ HasRun(d)
      BY <2>2, <3>4 DEF CountInv
    <3> QED
      BY <3>2, <3>3, <3>4
  <2>7. (\A d, e \in Compactors :
            HasRun(d) /\ HasRun(e) /\ compactor[d].run = compactor[e].run => d = e)'
    BY <2>1, <2>2 DEF CountInv
  <2>8. (\A u \in Runs : run[u].status = "absent" => RowsOf(u) = {})'
    BY <2>1, <2>4, <2>5 DEF CountInv
  <2>9. CompletedRunCountsItsRows'
    BY <2>1, <2>4, <2>5 DEF CountInv, CompletedRunCountsItsRows, RowsOf
  <2> QED
    BY <1>1, <2>6, <2>7, <2>8, <2>9 DEF CountInv
<1>3. CASE ~ \E c \in Compactors, r \in Records : AddedRow(c, r)
  <2>1. \A u : RowsOf(u)' = RowsOf(u)
    BY <1>3, RowsOfKept
  <2>2. ASSUME NEW c \in Compactors, compactor'[c].run = compactor[c].run
        PROVE  RowsOf(compactor[c].run)' = RowsOf(compactor[c].run)
    BY <2>1, <2>2 DEF RowsOf, Archived
  <2>3. ASSUME NEW c \in Compactors, NEW u \in Runs, Created(c, u)  PROVE CountInv'
    <3>1. /\ ~ HasRun(c) /\ HasRun(c)' /\ compactor'[c].run = u /\ compactor'[c].count = 0
          /\ run[u].status = "absent" /\ run'[u].status = "pending" /\ RowsOf(u) = {}
      BY <2>3 DEF Created, CountInv
    <3>2. \A d \in Compactors \ {c} : compactor'[d] = compactor[d] /\ (HasRun(d)' <=> HasRun(d))
      BY <2>3 DEF Created, HasRun
    <3>3. \A d \in Compactors \ {c} : HasRun(d) => compactor[d].run # u
      BY <3>1 DEF CountInv
    <3>4. \A v \in Runs \ {u} : run'[v] = run[v]
      BY <2>3 DEF Created
    <3>5. Cardinality(RowsOf(compactor[c].run)') = 0
      <4>1. RowsOf(compactor[c].run)' = RowsOf(u)'
        BY <3>1 DEF RowsOf, Archived
      <4> QED
        BY <2>1, <3>1, <4>1, FS_EmptySet
    <3>6. (\A d \in Compactors : IF HasRun(d)
              THEN /\ run[compactor[d].run].status = "pending"
                   /\ compactor[d].count = Cardinality(RowsOf(compactor[d].run))
              ELSE compactor[d].count = 0)'
      <4>1. TAKE d \in Compactors
      <4>2. CASE d = c
        BY <3>1, <3>5, <4>2
      <4>3. CASE d # c /\ HasRun(d)
        <5>1. RowsOf(compactor[d].run)' = RowsOf(compactor[d].run)
          BY <2>2, <3>2, <4>3
        <5>2. compactor[d].run \in Runs \ {u}
          BY <1>1, <3>3, <4>3 DEF HasRun, Marking, TypeOK
        <5> QED
          BY <3>2, <3>4, <4>3, <5>1, <5>2 DEF CountInv
      <4>4. CASE d # c /\ ~ HasRun(d)
        BY <3>2, <4>4 DEF CountInv
      <4> QED
        BY <4>2, <4>3, <4>4
    <3>7. (\A d, e \in Compactors :
              HasRun(d) /\ HasRun(e) /\ compactor[d].run = compactor[e].run => d = e)'
      BY <3>1, <3>2, <3>3 DEF CountInv
    <3>8. (\A v \in Runs : run[v].status = "absent" => RowsOf(v) = {})'
      BY <2>1, <3>1, <3>4 DEF CountInv
    <3>9. CompletedRunCountsItsRows'
      BY <2>1, <3>1, <3>4 DEF CountInv, CompletedRunCountsItsRows, RowsOf
    <3> QED
      BY <1>1, <3>6, <3>7, <3>8, <3>9 DEF CountInv
  <2>4. ASSUME NEW c \in Compactors, NEW status \in {"completed", "failed"}, Completed(c, status)
        PROVE  CountInv'
    <3> DEFINE u == compactor[c].run
    <3>1. /\ HasRun(c) /\ u \in Runs /\ run'[u].status = status
          /\ status = "completed" => run'[u].archivedCount = Cardinality(RowsOf(u))
      BY <1>1, <2>4 DEF Completed, CountInv, HasRun, Marking, TypeOK
    <3>2. ~ HasRun(c)' /\ compactor'[c].count = 0
      BY <2>4 DEF Completed, HasRun, Marking, IdleCompactor
    <3>3. \A d \in Compactors \ {c} : compactor'[d] = compactor[d] /\ (HasRun(d)' <=> HasRun(d))
      BY <2>4 DEF Completed, HasRun
    <3>4. \A v \in Runs \ {u} : run'[v] = run[v]
      BY <2>4 DEF Completed
    <3>5. \A d \in Compactors \ {c} : HasRun(d) => compactor[d].run \in Runs \ {u}
      BY <1>1, <3>1 DEF CountInv, HasRun, Marking, TypeOK
    <3>6. (\A d \in Compactors : IF HasRun(d)
              THEN /\ run[compactor[d].run].status = "pending"
                   /\ compactor[d].count = Cardinality(RowsOf(compactor[d].run))
              ELSE compactor[d].count = 0)'
      <4>1. TAKE d \in Compactors
      <4>2. CASE d = c
        BY <3>2, <4>2
      <4>3. CASE d # c /\ HasRun(d)
        <5>1. RowsOf(compactor[d].run)' = RowsOf(compactor[d].run)
          BY <2>2, <3>3, <4>3
        <5> QED
          BY <3>3, <3>4, <3>5, <4>3, <5>1 DEF CountInv
      <4>4. CASE d # c /\ ~ HasRun(d)
        BY <3>3, <4>4 DEF CountInv
      <4> QED
        BY <4>2, <4>3, <4>4
    <3>7. (\A d, e \in Compactors :
              HasRun(d) /\ HasRun(e) /\ compactor[d].run = compactor[e].run => d = e)'
      BY <3>2, <3>3 DEF CountInv
    <3>8. (\A v \in Runs : run[v].status = "absent" => RowsOf(v) = {})'
      BY <2>1, <3>1, <3>4 DEF CountInv
    <3>9. CompletedRunCountsItsRows'
      <4>1. SUFFICES ASSUME NEW v \in Runs, run'[v].status = "completed"
                     PROVE  run'[v].archivedCount = Cardinality(RowsOf(v)')
        BY DEF CompletedRunCountsItsRows, RowsOf
      <4>2. CASE v = u
        <5>1. RowsOf(v)' = RowsOf(v)
          BY <2>1
        <5> QED
          BY <3>1, <4>1, <4>2, <5>1
      <4>3. CASE v # u
        BY <2>1, <3>4, <4>1, <4>3 DEF CountInv, CompletedRunCountsItsRows, RowsOf
      <4> QED
        BY <4>2, <4>3
    <3> QED
      BY <1>1, <3>6, <3>7, <3>8, <3>9 DEF CountInv
  <2>5. CASE SameRuns /\ \A c \in Compactors : Continued(c)
    <3>1. (\A d \in Compactors : IF HasRun(d)
              THEN /\ run[compactor[d].run].status = "pending"
                   /\ compactor[d].count = Cardinality(RowsOf(compactor[d].run))
              ELSE compactor[d].count = 0)'
      <4>1. TAKE d \in Compactors
      <4>2. CASE HasRun(d)'
        <5>1. HasRun(d) /\ compactor'[d].run = compactor[d].run
                /\ compactor'[d].count = compactor[d].count
          BY <2>5, <4>2 DEF Continued
        <5>2. RowsOf(compactor[d].run)' = RowsOf(compactor[d].run)
          BY <2>2, <5>1
        <5>3. compactor[d].run \in Runs
          BY <1>1, <5>1 DEF HasRun, Marking, TypeOK
        <5> QED
          BY <2>5, <4>2, <5>1, <5>2, <5>3 DEF CountInv, SameRuns
      <4>3. CASE ~ HasRun(d)'
        BY <2>5, <4>3 DEF Continued
      <4> QED
        BY <4>2, <4>3
    <3>2. (\A d, e \in Compactors :
              HasRun(d) /\ HasRun(e) /\ compactor[d].run = compactor[e].run => d = e)'
      BY <2>5 DEF Continued, CountInv
    <3>3. (\A v \in Runs : run[v].status = "absent" => RowsOf(v) = {})'
      BY <2>1, <2>5 DEF CountInv, SameRuns
    <3>4. CompletedRunCountsItsRows'
      BY <2>1, <2>5 DEF CountInv, CompletedRunCountsItsRows, RowsOf, SameRuns
    <3> QED
      BY <1>1, <3>1, <3>2, <3>3, <3>4 DEF CountInv
  <2> QED
    BY <1>3, <2>3, <2>4, <2>5, StepIsRunsStep DEF RunsStep
<1> QED
  BY <1>2, <1>3

\* A run that says completed has archived as many records as it says.
THEOREM CountsItsRows == Spec => []CompletedRunCountsItsRows
<1>1. CountInv => CompletedRunCountsItsRows
  BY DEF CountInv
<1>2. CountInv /\ [Next]_vars => CountInv'
  BY CountNext
<1> QED
  BY <1>1, <1>2, CountInit, PTL DEF Spec

-----------------------------------------------------------------------------
(***************************************************************************)
(* The restores, whatever goes wrong and however many overlap: a copy is   *)
(* one restore's alone until its archive row is marked, and how much of it *)
(* there is follows from how far that restore is.                          *)
(***************************************************************************)
Restoring(u) == unarchiver[u].pc \notin {"idle", "next"}

Searchable(r) == r \in Archived \/ (index[r] = "ids" /\ r \in points)

CopyOK(u) ==
    LET k == unarchiver[u]
        r == k.rec IN
    /\ k.arch \in Archived /\ record[r].from = k.arch
    /\ r \in Live \cup Archived
    /\ r \in Live =>
        /\ k.pc \in {"embed", "upsert", "pointIds"} => index[r] = "rows"
        /\ k.pc \in {"pointIds", "mark"} => r \in points
        /\ k.pc = "mark" => index[r] = "ids"

CopyInv ==
    /\ OutboxInv
    /\ \A a \in Records : archive[a].unarchived =>
        a \in Archived /\ \E r \in Restores(a) : ~RestoringIn(r) /\ Searchable(r)
    /\ \A u \in Unarchivers :
        /\ unarchiver[u].restorable \subseteq Archived
        /\ IF Restoring(u) THEN CopyOK(u) ELSE unarchiver[u].rec = NoRecord
    /\ \A u, v \in Unarchivers :
        Restoring(u) /\ unarchiver[u].rec = unarchiver[v].rec => u = v

\* What a restore that has ended has left, if its archive row was not marked.
LeftoverInv ==
    /\ CopyInv
    /\ \A r \in Records :
        record[r].from # NoRecord /\ ~RestoringIn(r) /\ ~archive[record[r].from].unarchived
            => r \notin Live

\* No points that the compensation would not know of.
PointsKnown(u) ==
    LET k == unarchiver[u] IN
    /\ k.pc \in {"idle", "next", "insert", "embed", "upsert"} => ~k.upserted
    /\ k.pc \in {"insert", "embed", "upsert", "undoRecord"} => k.rec \notin points
    /\ k.pc \in {"pointIds", "mark"} => k.upserted

FailedInv ==
    /\ LeftoverInv
    /\ \A r \in points : record[r].state # "none"
    /\ \A u \in Unarchivers : PointsKnown(u)
    /\ \A r \in Records :
        record[r].from # NoRecord /\ ~RestoringIn(r) /\ ~archive[record[r].from].unarchived
            => r \notin points

-----------------------------------------------------------------------------
\* What compactors, sweepers, editors, time and crashes leave of all that.
OthersStep ==
    /\ \A v \in Unarchivers :
        unarchiver'[v] = unarchiver[v] \/ ("crash" \in Faults /\ unarchiver'[v] = IdleUnarchiver)
    /\ \A r \in Records :
        /\ record'[r].from = record[r].from
        /\ record[r].state # "none" => record'[r].state # "none"
        /\ archive'[r].unarchived = archive[r].unarchived
        /\ r \in Archived => r \in Archived'
        /\ r \in Live' => r \in Live /\ index'[r] = index[r]
        /\ r \in Live => r \in Live' \/ r \in Archived'
        /\ r \in points => r \in points' \/ r \in Archived
        /\ r \in points' => r \in points

LEMMA ArchivedRecord ==
  ASSUME TypeOK, NEW c \in Compactors, ApplyCompactionRecord(c)
  PROVE  \/ UNCHANGED <<record, index, archive>>
         \/ \E r \in Live :
              /\ record' = [record EXCEPT ![r].state = "gone"]
              /\ index' = [index EXCEPT ![r] = "none"]
              /\ \E row : /\ archive' = [archive EXCEPT ![r] = row]
                          /\ row.q = "pending" /\ row.unarchived = FALSE
                          /\ \E e \in compactor[c].plan : r = e.rec /\ row.kept = e.kept
<1> DEFINE k == compactor[c]
<1>1. ASSUME NEW e \in k.plan,
        Deletable(c, e.rec),
        record' = [record EXCEPT ![e.rec].state = "gone"],
        index' = Cascade(e.rec),
        archive' = [archive EXCEPT ![e.rec] =
                [NoArchive EXCEPT !.q = "pending", !.run = k.run, !.kept = e.kept,
                     !.hasPoints = (index[e.rec] = "ids"),
                     !.retry = IF index[e.rec] = "ids" THEN "later" ELSE "null"]]
      PROVE  \E r \in Live :
              /\ record' = [record EXCEPT ![r].state = "gone"]
              /\ index' = [index EXCEPT ![r] = "none"]
              /\ \E row : /\ archive' = [archive EXCEPT ![r] = row]
                          /\ row.q = "pending" /\ row.unarchived = FALSE
                          /\ \E f \in compactor[c].plan : r = f.rec /\ row.kept = f.kept
  <2> DEFINE r == e.rec
             row == [NoArchive EXCEPT !.q = "pending", !.run = k.run, !.kept = e.kept,
                     !.hasPoints = (index[r] = "ids"),
                     !.retry = IF index[r] = "ids" THEN "later" ELSE "null"]
  <2>1. row.q = "pending" /\ row.unarchived = FALSE /\ row.kept = e.kept
    BY DEF NoArchive
  <2>2. archive' = [archive EXCEPT ![r] = row]
    BY <1>1
  <2>3. r \in Live /\ index' = [index EXCEPT ![r] = "none"]
    BY <1>1 DEF Deletable, Cascade
  <2>4. record' = [record EXCEPT ![r].state = "gone"]
    BY <1>1
  <2>5. \E f \in compactor[c].plan : r = f.rec /\ row.kept = f.kept
    BY <2>1
  <2> HIDE DEF row, r
  <2> QED
    BY <2>1, <2>2, <2>3, <2>4, <2>5
<1> QED
  BY <1>1 DEF ApplyCompactionRecord

LEMMA MarkedStays ==
  ASSUME TypeOK, NEW r, NEW q \in {"pending", "deleted", "failed"},
         archive' = [archive EXCEPT ![r] = Marked(archive[r], q)], NEW t \in Records
  PROVE  archive'[t].unarchived = archive[t].unarchived /\ (t \in Archived => t \in Archived')
<1>1. archive \in [Records -> ArchiveState]
  BY DEF TypeOK
<1>2. CASE t = r
  <2>1. archive'[t] = Marked(archive[t], q) /\ archive[t] \in ArchiveState
    BY <1>1, <1>2
  <2>2. Marked(archive[t], q).unarchived = archive[t].unarchived /\ Marked(archive[t], q).q = q
    BY <2>1 DEF Marked, ArchiveState
  <2> QED
    BY <2>1, <2>2 DEF Archived
<1>3. CASE t # r
  BY <1>1, <1>3 DEF Archived
<1> QED
  BY <1>2, <1>3

LEMMA CompactorIsOther ==
  ASSUME OutboxInv, \A a \in Records : archive[a].unarchived => a \in Archived,
         NEW c \in Compactors, ListMemory(c) \/ CompactorStep(c)
  PROVE  OthersStep
<1>1. TypeOK /\ archive \in [Records -> ArchiveState] /\ record \in [Records -> RecordState]
        /\ DOMAIN index = Records
  BY DEF OutboxInv, TypeOK
<1>2. CASE ApplyCompactionRecord(c)
  <2>1. unarchiver' = unarchiver /\ points' = points
    BY <1>2 DEF ApplyCompactionRecord
  <2>2. CASE UNCHANGED <<record, index, archive>>
    BY <2>1, <2>2 DEF OthersStep, Live, Archived
  <2>3. CASE \E r \in Live :
              /\ record' = [record EXCEPT ![r].state = "gone"]
              /\ index' = [index EXCEPT ![r] = "none"]
              /\ \E row : /\ archive' = [archive EXCEPT ![r] = row]
                          /\ row.q = "pending" /\ row.unarchived = FALSE
    <3>1. PICK r \in Live :
              /\ record' = [record EXCEPT ![r].state = "gone"]
              /\ index' = [index EXCEPT ![r] = "none"]
              /\ \E row : /\ archive' = [archive EXCEPT ![r] = row]
                          /\ row.q = "pending" /\ row.unarchived = FALSE
      BY <2>3
    <3>2. PICK row : /\ archive' = [archive EXCEPT ![r] = row]
                     /\ row.q = "pending" /\ row.unarchived = FALSE
      BY <3>1
    <3>3. r \in Records /\ record[r].state = "live"
      BY DEF Live
    <3>4. archive[r].unarchived = FALSE
      BY <1>1, <3>3 DEF OutboxInv, ArchiveState
    <3>5. \A q \in Records \ {r} :
            record'[q] = record[q] /\ index'[q] = index[q] /\ archive'[q] = archive[q]
      BY <1>1, <3>1, <3>2
    <3>6. /\ record'[r].from = record[r].from /\ record'[r].state = "gone"
          /\ archive'[r] = row
      BY <1>1, <3>1, <3>2, <3>3 DEF RecordState
    <3> QED
      BY <2>1, <3>1, <3>2, <3>3, <3>4, <3>5, <3>6 DEF OthersStep, Live, Archived
  <2> QED
    BY <1>1, <1>2, <2>2, <2>3, ArchivedRecord
<1>3. CASE MarkVacuouslyDeleted(c) \/ MarkDeleted(c) \/ MarkPending(c)
  <2>1. unarchiver' = unarchiver /\ UNCHANGED <<record, index, points>>
    BY <1>3 DEF MarkVacuouslyDeleted, MarkDeleted, MarkPending
  <2>2. archive' = archive \/ \E r, q : archive' = [archive EXCEPT ![r] = Marked(@, q)]
                                          /\ q \in {"pending", "deleted"}
    BY <1>3 DEF MarkVacuouslyDeleted, MarkDeleted, MarkPending, MarkQdrantStatus
  <2>3. \A r \in Records : /\ archive'[r].unarchived = archive[r].unarchived
                           /\ r \in Archived => r \in Archived'
    BY <1>1, <2>2, MarkedStays DEF Archived
  <2> QED
    BY <2>1, <2>3 DEF OthersStep, Live
<1>4. CASE CompactDeletePoints(c)
  <2>1. unarchiver' = unarchiver /\ UNCHANGED <<record, index, archive>>
    BY <1>4 DEF CompactDeletePoints, rows
  <2>2. compactor[c].rec \in Archived
    BY <1>4 DEF CompactDeletePoints, OutboxInv, Held, Marking
  <2>3. points' = points \/ points' = points \ {compactor[c].rec}
    BY <1>4 DEF CompactDeletePoints, VectorCall
  <2> QED
    BY <2>1, <2>2, <2>3 DEF OthersStep, Live, Archived
<1>5. ASSUME unarchiver' = unarchiver, UNCHANGED <<record, index, archive, points>>
      PROVE  OthersStep
  BY <1>5 DEF OthersStep, Live, Archived
<1> QED
  BY <1>2, <1>3, <1>4, <1>5
     DEF CompactorStep, ListMemory, StartCompaction, CountRecentApplyRuns,
         CreateCompactionRun, CompleteRun, rows

LEMMA SweeperIsOther ==
  ASSUME OutboxInv, NEW s \in Sweepers, ClaimCleanup(s) \/ SweeperStep(s)
  PROVE  OthersStep
<1>1. archive \in [Records -> ArchiveState] /\ Swept(s) \subseteq Archived
  BY DEF OutboxInv, TypeOK
<1>2. unarchiver' = unarchiver /\ UNCHANGED <<record, index>>
  BY DEF ClaimCleanup, SweeperStep, SweepDeletePoints, SweepMarkDeleted, MarkRowFailure, rows
<1>3. \A r \in Records : /\ archive'[r].unarchived = archive[r].unarchived
                         /\ r \in Archived => r \in Archived'
  <2>1. CASE ClaimCleanup(s)
    <3>1. \A r \in Records : archive'[r] \in {archive[r], [archive[r] EXCEPT !.retry = "later"]}
      BY <2>1 DEF ClaimCleanup
    <3> QED
      BY <1>1, <3>1 DEF ArchiveState, Archived
  <2>2. CASE archive' = archive
    BY <2>2 DEF Archived
  <2>3. ASSUME NEW r, NEW q \in {"pending", "deleted", "failed"}, MarkQdrantStatus(r, q)
        PROVE  \A t \in Records : /\ archive'[t].unarchived = archive[t].unarchived
                                  /\ t \in Archived => t \in Archived'
    BY <2>3, MarkedStays DEF MarkQdrantStatus, OutboxInv
  <2> QED
    BY <2>1, <2>2, <2>3 DEF SweeperStep, SweepDeletePoints, SweepMarkDeleted, MarkRowFailure, rows
<1>4. points' \subseteq points /\ \A r \in points : r \in points' \/ r \in Archived
  BY <1>1 DEF ClaimCleanup, SweeperStep, SweepDeletePoints, SweepMarkDeleted, MarkRowFailure,
              VectorCall, Swept
<1> QED
  BY <1>2, <1>3, <1>4 DEF OthersStep, Live

LEMMA EditorIsOther ==
  ASSUME TypeOK, NEW e \in Editors, (\E r \in Records : BeginUpdate(e, r)) \/ CommitUpdate(e)
  PROVE  OthersStep
<1>1. UNCHANGED <<points, index, archive, unarchiver>>
  BY DEF BeginUpdate, CommitUpdate, rows
<1>2. \A r \in Records : record'[r].state = record[r].state /\ record'[r].from = record[r].from
  <2>1. CASE record' = record
    BY <2>1
  <2>2. CASE record' # record
    <3> DEFINE q == editor[e].rec
    <3>1. PICK content, weight : record' = [record EXCEPT ![q] =
                    [@ EXCEPT !.content = content, !.weight = weight,
                              !.updatedAt = editor[e].stamp]]
      BY <2>2 DEF BeginUpdate, CommitUpdate, rows
    <3> HIDE DEF q
    <3>2. record \in [Records -> RecordState]
      BY DEF TypeOK
    <3>3. \A r \in Records \ {q} : record'[r] = record[r]
      BY <3>1, <3>2
    <3>4. ASSUME q \in Records
          PROVE  record'[q].state = record[q].state /\ record'[q].from = record[q].from
      BY <3>1, <3>2, <3>4 DEF RecordState
    <3> QED
      BY <3>3, <3>4
  <2> QED
    BY <2>1, <2>2
<1> QED
  BY <1>1, <1>2 DEF OthersStep, Live, Archived

LEMMA TimeIsOther ==
  ASSUME TypeOK,
         \/ \E r \in Records : RetryTimeReached(r)
         \/ \E u \in Runs : HourPasses(u)
         \/ Crash
         \/ UNCHANGED vars
  PROVE  OthersStep
<1>1. archive \in [Records -> ArchiveState] /\ DOMAIN unarchiver = Unarchivers
  BY DEF TypeOK
<1>2. UNCHANGED <<record, index, points>>
  BY DEF RetryTimeReached, HourPasses, Crash, rows, vars
<1>3. \A v \in Unarchivers :
        unarchiver'[v] = unarchiver[v] \/ ("crash" \in Faults /\ unarchiver'[v] = IdleUnarchiver)
  BY <1>1 DEF RetryTimeReached, HourPasses, Crash, actors, vars
<1>4. \A r \in Records : /\ archive'[r].unarchived = archive[r].unarchived
                         /\ r \in Archived => r \in Archived'
  <2>1. CASE archive' = archive
    BY <2>1 DEF Archived
  <2>2. CASE \E r \in Records : archive' = [archive EXCEPT ![r].retry = "due"]
    BY <1>1, <2>2 DEF ArchiveState, Archived
  <2> QED
    BY <2>1, <2>2 DEF RetryTimeReached, HourPasses, Crash, rows, vars
<1> QED
  BY <1>2, <1>3, <1>4 DEF OthersStep, Live

\* Every step is one of those, or a restore's.
LEMMA StepIsOther ==
  ASSUME CopyInv, [Next]_vars,
         \A u \in Unarchivers : ~ FindArchiveByIds(u) /\ ~ UnarchiverStep(u)
  PROVE  OthersStep
<1>1. OutboxInv /\ TypeOK /\ \A a \in Records : archive[a].unarchived => a \in Archived
  BY DEF CopyInv, OutboxInv
<1> QED
  BY <1>1, CompactorIsOther, SweeperIsOther, EditorIsOther, TimeIsOther DEF Next

LEMMA OthersKeepCopies ==
  ASSUME CopyInv, OthersStep, OutboxInv'
  PROVE  CopyInv' /\ \A r \in Records : RestoringIn(r)' => RestoringIn(r)
<1> USE DEF OthersStep
<1>1. /\ OutboxInv /\ TypeOK
      /\ \A r \in Archived : r \in Records /\ r \in Archived'
      /\ NoRecord \notin Records
  BY DEF CopyInv, OutboxInv, Archived, NoRecord, Records
<1>2. ASSUME NEW u \in Unarchivers
      PROVE  \/ unarchiver'[u] = unarchiver[u] /\ Restoring(u)' = Restoring(u)
             \/ /\ ~ Restoring(u)' /\ unarchiver'[u].rec = NoRecord
                /\ unarchiver'[u].restorable = {}
  BY DEF Restoring, IdleUnarchiver
<1>3. \A r \in Records : RestoringIn(r)' => RestoringIn(r)
  BY <1>1, <1>2 DEF RestoringIn
<1>4. ASSUME NEW r \in Records, Searchable(r)  PROVE Searchable(r)'
  <2>1. CASE r \in Archived
    BY <2>1 DEF Searchable
  <2>2. CASE r \notin Archived
    <3>1. index[r] = "ids" /\ r \in points /\ r \in Live
      BY <1>1, <1>4, <2>2 DEF Searchable, TypeOK, Live
    <3> QED
      BY <2>2, <3>1 DEF Searchable
  <2> QED
    BY <2>1, <2>2
<1>5. ASSUME NEW a \in Records, archive'[a].unarchived
      PROVE  a \in Archived' /\ \E r \in Restores(a)' : ~RestoringIn(r)' /\ Searchable(r)'
  <2>1. a \in Archived /\ \E r \in Restores(a) : ~RestoringIn(r) /\ Searchable(r)
    BY <1>5 DEF CopyInv
  <2>2. \A r \in Restores(a) : r \in Restores(a)' /\ r \in Records
    BY DEF Restores
  <2> QED
    BY <1>3, <1>4, <2>1, <2>2
<1>6. ASSUME NEW u \in Unarchivers
      PROVE  /\ unarchiver'[u].restorable \subseteq Archived'
             /\ IF Restoring(u)' THEN CopyOK(u)' ELSE unarchiver'[u].rec = NoRecord
  <2>1. CASE unarchiver'[u] = unarchiver[u] /\ Restoring(u)' = Restoring(u)
    <3>1. unarchiver[u].restorable \subseteq Archived
      BY DEF CopyInv
    <3>2. ASSUME Restoring(u)  PROVE CopyOK(u)'
      <4>1. CopyOK(u) /\ unarchiver[u].rec \in Records /\ unarchiver[u].arch \in Records
        BY <3>2, <1>1 DEF CopyInv, Restoring, TypeOK
      <4> QED
        BY <1>1, <2>1, <4>1 DEF CopyOK, OutboxInv, Live
    <3> QED
      BY <1>1, <2>1, <3>1, <3>2 DEF CopyInv
  <2> QED
    BY <1>2, <2>1
<1>7. ASSUME NEW u \in Unarchivers, NEW v \in Unarchivers, Restoring(u)',
             unarchiver'[u].rec = unarchiver'[v].rec
      PROVE  u = v
  <2>1. Restoring(u) /\ unarchiver'[u].rec = unarchiver[u].rec /\ unarchiver[u].rec \in Records
    BY <1>1, <1>2, <1>7 DEF Restoring, TypeOK
  <2>2. unarchiver'[v] = unarchiver[v]
    BY <1>1, <1>2, <1>7, <2>1
  <2>3. unarchiver[u].rec = unarchiver[v].rec
    BY <1>7, <2>1, <2>2
  <2>4. \A w, x \in Unarchivers : Restoring(w) /\ unarchiver[w].rec = unarchiver[x].rec => w = x
    BY DEF CopyInv
  <2> QED
    BY <2>1, <2>3, <2>4
<1> QED
  BY <1>3, <1>5, <1>6, <1>7 DEF CopyInv

-----------------------------------------------------------------------------
(***************************************************************************)
(* What a step of restore u does: it goes by an id, makes a copy, works on *)
(* it, marks its archive row, or gives it up.                              *)
(***************************************************************************)
Frame(u, r) ==
    /\ \A v \in Unarchivers \ {u} : unarchiver'[v] = unarchiver[v]
    /\ \A q \in Records \ {r} :
        record'[q] = record[q] /\ index'[q] = index[q] /\ (q \in points' <=> q \in points)
    /\ \A a \in Records : archive'[a].q = archive[a].q

Over(u) ==
    /\ ~ Restoring(u)' /\ unarchiver'[u].rec = NoRecord /\ ~ unarchiver'[u].upserted
    /\ unarchiver'[u].restorable \subseteq unarchiver[u].restorable
    /\ unarchiver'[u].queue = Tail(unarchiver[u].queue)

GoesBy(u) ==
    /\ Frame(u, NoRecord) /\ ~ Restoring(u) /\ archive' = archive
    /\ \/ unarchiver[u].pc = "next" /\ Over(u)
       \/ /\ unarchiver'[u].pc = "next" /\ unarchiver'[u].rec = NoRecord
          /\ ~ unarchiver'[u].upserted /\ unarchiver'[u].queue \in Requests
          /\ unarchiver'[u].restorable = {a \in Archived : ~archive[a].unarchived}

MakesCopy(u, r) ==
    LET k == unarchiver[u]
        a == Head(k.queue) IN
    /\ Frame(u, r) /\ k.pc = "next" /\ record[r].state = "none"
    /\ a \in k.restorable
    /\ record'[r].state = "live" /\ record'[r].from = a
    /\ UNCHANGED <<index, points, archive>>
    /\ unarchiver'[u] = [k EXCEPT !.pc = "insert", !.arch = a, !.rec = r]

WorksOn(u) ==
    LET k == unarchiver[u]
        l == unarchiver'[u] IN
    /\ Frame(u, k.rec) /\ Restoring(u) /\ Restoring(u)'
    /\ l.rec = k.rec /\ l.arch = k.arch /\ l.queue = k.queue /\ l.restorable = k.restorable
    /\ UNCHANGED <<record, archive>>
    /\ CopyOK(u)'

MarksRow(u) ==
    LET k == unarchiver[u] IN
    /\ Frame(u, k.rec) /\ k.pc = "mark" /\ Over(u)
    /\ archive' = [archive EXCEPT ![k.arch].unarchived = TRUE]
    /\ UNCHANGED <<record, index, points>>

GivesCopyUp(u) ==
    LET r == unarchiver[u].rec IN
    /\ Frame(u, r) /\ unarchiver[u].pc = "undoRecord" /\ Over(u)
    /\ record'[r].from = record[r].from
    /\ record'[r].state = "gone" \/ ("undo" \in Faults /\ record'[r] = record[r])
    /\ UNCHANGED <<archive, points>>

LEMMA RestoreNextEnds ==
  ASSUME TypeOK, NEW u \in Unarchivers, unarchiver[u].pc # "idle", RestoreNext(u)
  PROVE  Over(u) /\ \A v \in Unarchivers \ {u} : unarchiver'[v] = unarchiver[v]
<1> DEFINE k == unarchiver[u]
           rest == Tail(k.queue)
           l == [IdleUnarchiver EXCEPT !.pc = "next", !.queue = rest,
                                       !.restorable = k.restorable]
<1>1. DOMAIN unarchiver = Unarchivers /\ k.queue \in Seq(Records) /\ k.queue # <<>>
  BY DEF TypeOK, UnarchiverState
<1>2. unarchiver' = [unarchiver EXCEPT ![u] = IF rest = <<>> THEN IdleUnarchiver ELSE l]
  BY DEF RestoreNext
<1>3. unarchiver'[u] = (IF rest = <<>> THEN IdleUnarchiver ELSE l)
        /\ \A v \in Unarchivers \ {u} : unarchiver'[v] = unarchiver[v]
  BY <1>1, <1>2
<1>4. CASE rest = <<>>
  BY <1>3, <1>4 DEF Over, Restoring, IdleUnarchiver
<1>5. CASE rest # <<>>
  <2>1. unarchiver'[u] = l
    BY <1>3, <1>5
  <2>2. /\ l.pc = "next" /\ l.rec = NoRecord /\ l.upserted = FALSE
        /\ l.queue = rest /\ l.restorable = k.restorable
    BY DEF IdleUnarchiver
  <2> HIDE DEF l
  <2> QED
    BY <1>3, <2>1, <2>2 DEF Over, Restoring
<1> QED
  BY <1>4, <1>5

LEMMA RestoreToMoves ==
  ASSUME TypeOK, NEW u \in Unarchivers, NEW pc, RestoreTo(u, pc)
  PROVE  /\ unarchiver'[u] = [unarchiver[u] EXCEPT !.pc = pc]
         /\ \A v \in Unarchivers \ {u} : unarchiver'[v] = unarchiver[v]
         /\ unarchiver'[u].pc = pc
         /\ unarchiver'[u].rec = unarchiver[u].rec /\ unarchiver'[u].arch = unarchiver[u].arch
         /\ unarchiver'[u].queue = unarchiver[u].queue
         /\ unarchiver'[u].restorable = unarchiver[u].restorable
         /\ unarchiver'[u].upserted = unarchiver[u].upserted
<1>1. DOMAIN unarchiver = Unarchivers /\ unarchiver[u] \in UnarchiverState
  BY DEF TypeOK
<1> QED
  BY <1>1 DEF RestoreTo, UnarchiverState

LEMMA FindGoesBy ==
  ASSUME CopyInv, NEW u \in Unarchivers, FindArchiveByIds(u)
  PROVE  GoesBy(u)
<1>1. TypeOK /\ DOMAIN unarchiver = Unarchivers
  BY DEF CopyInv, OutboxInv, TypeOK
<1>2. PICK archiveIds \in Requests :
          unarchiver' = [unarchiver EXCEPT ![u] =
            [IdleUnarchiver EXCEPT !.pc = "next", !.queue = archiveIds,
                !.restorable = {a \in Archived : ~archive[a].unarchived}]]
  BY DEF FindArchiveByIds
<1> DEFINE l == [IdleUnarchiver EXCEPT !.pc = "next", !.queue = archiveIds,
                    !.restorable = {a \in Archived : ~archive[a].unarchived}]
<1>3. unarchiver'[u] = l /\ \A v \in Unarchivers \ {u} : unarchiver'[v] = unarchiver[v]
  BY <1>1, <1>2
<1>4. /\ l.pc = "next" /\ l.rec = NoRecord /\ l.upserted = FALSE /\ l.queue = archiveIds
      /\ l.restorable = {a \in Archived : ~archive[a].unarchived}
  BY DEF IdleUnarchiver
<1>5. Frame(u, NoRecord)
  BY <1>3 DEF Frame, FindArchiveByIds, rows
<1> HIDE DEF l
<1> QED
  BY <1>3, <1>4, <1>5 DEF GoesBy, FindArchiveByIds, Restoring, rows

LEMMA CanonicalMakesCopy ==
  ASSUME CopyInv, NEW u \in Unarchivers, RestoreToCanonical(u)
  PROVE  GoesBy(u) \/ \E r \in Records : MakesCopy(u, r)
<1> DEFINE k == unarchiver[u]
           a == Head(k.queue)
<1>1. TypeOK /\ DOMAIN unarchiver = Unarchivers /\ k.pc = "next" /\ k \in UnarchiverState
        /\ UNCHANGED <<index, points, archive>>
  BY DEF CopyInv, OutboxInv, TypeOK, RestoreToCanonical
<1>2. CASE RestoreNext(u) /\ UNCHANGED record
  <2>1. Over(u) /\ \A v \in Unarchivers \ {u} : unarchiver'[v] = unarchiver[v]
    BY <1>1, <1>2, RestoreNextEnds
  <2> QED
    BY <1>1, <1>2, <2>1 DEF GoesBy, Frame, Restoring
<1>3. CASE \E r \in Records :
            /\ ~Skipped(u, a)
            /\ NextRecord(r)
            /\ record' = [record EXCEPT ![r] = [record[a] EXCEPT !.state = "live", !.from = a]]
            /\ unarchiver' = [unarchiver EXCEPT ![u] =
                                [k EXCEPT !.pc = "insert", !.arch = a, !.rec = r]]
  <2>1. PICK r \in Records :
            /\ a \in k.restorable
            /\ NextRecord(r)
            /\ record' = [record EXCEPT ![r] = [record[a] EXCEPT !.state = "live", !.from = a]]
            /\ unarchiver' = [unarchiver EXCEPT ![u] =
                                [k EXCEPT !.pc = "insert", !.arch = a, !.rec = r]]
    BY <1>3 DEF Skipped
  <2>2. record[r].state = "none"
    BY <2>1, CompactionAssumption DEF NextRecord, Records
  <2>3. a \in Records /\ record[a] \in RecordState /\ DOMAIN record = Records
    BY <1>1, <2>1 DEF CopyInv, Archived, TypeOK, UnarchiverState
  <2> HIDE DEF a
  <2>4. /\ record'[r].state = "live" /\ record'[r].from = a
        /\ \A q \in Records \ {r} : record'[q] = record[q]
    BY <2>1, <2>3 DEF RecordState
  <2>5. /\ unarchiver'[u] = [k EXCEPT !.pc = "insert", !.arch = a, !.rec = r]
        /\ \A v \in Unarchivers \ {u} : unarchiver'[v] = unarchiver[v]
    BY <1>1, <2>1
  <2>6. MakesCopy(u, r)
    BY <1>1, <2>1, <2>2, <2>4, <2>5 DEF MakesCopy, Frame, a
  <2> QED
    BY <2>6
<1> QED
  BY <1>2, <1>3 DEF RestoreToCanonical

LEMMA CopySteps ==
  ASSUME CopyInv, NEW u \in Unarchivers, UnarchiverStep(u), unarchiver[u].pc # "next"
  PROVE  WorksOn(u) \/ MarksRow(u) \/ GivesCopyUp(u)
<1> DEFINE k == unarchiver[u]
           r == k.rec
<1>1. /\ TypeOK /\ k \in UnarchiverState /\ DOMAIN unarchiver = Unarchivers
      /\ index \in [Records -> {"none", "rows", "ids"}] /\ record \in [Records -> RecordState]
      /\ archive \in [Records -> ArchiveState]
      /\ \A q \in Records : index[q] # "none" => record[q].state = "live"
  BY DEF CopyInv, OutboxInv, TypeOK
<1>2. Restoring(u)
  BY DEF UnarchiverStep, RestoreToCanonical, RestoreInsertChunks, RestoreEmbed, RestoreUpsert,
         RestorePointIds, MarkUnarchived, UndoPoints, UndoRecord, Restoring
<1>3. CopyOK(u) /\ r \in Records /\ k.arch \in Records
  BY <1>1, <1>2 DEF CopyInv, Restoring, TypeOK
<1>4. ASSUME UNCHANGED <<record, archive>>,
             \A q \in Records \ {r} : index'[q] = index[q] /\ (q \in points' <=> q \in points),
             \A v \in Unarchivers \ {u} : unarchiver'[v] = unarchiver[v],
             unarchiver'[u].rec = r, unarchiver'[u].arch = k.arch,
             unarchiver'[u].queue = k.queue, unarchiver'[u].restorable = k.restorable,
             unarchiver'[u].pc \notin {"idle", "next"},
             r \in Live =>
                LET pc == unarchiver'[u].pc IN
                /\ pc \in {"embed", "upsert", "pointIds"} => index'[r] = "rows"
                /\ pc \in {"pointIds", "mark"} => r \in points'
                /\ pc = "mark" => index'[r] = "ids"
      PROVE  WorksOn(u)
  <2>1. CopyOK(u)'
    BY <1>3, <1>4 DEF CopyOK, Live, Archived
  <2>2. Frame(u, r)
    BY <1>4 DEF Frame
  <2>3. Restoring(u)'
    BY <1>4 DEF Restoring
  <2> QED
    BY <1>2, <1>4, <2>1, <2>2, <2>3 DEF WorksOn
<1>5. ASSUME NEW pc \in {"undoPoints", "undoRecord"}, RestoreTo(u, pc),
             UNCHANGED <<record, archive, index>>,
             \A q \in Records \ {r} : q \in points' <=> q \in points
      PROVE  WorksOn(u)
  BY <1>1, <1>4, <1>5, RestoreToMoves
<1>6. ASSUME RestoreThrow(u), UNCHANGED <<record, archive, index>>,
             \A q \in Records \ {r} : q \in points' <=> q \in points
      PROVE  WorksOn(u)
  BY <1>5, <1>6 DEF RestoreThrow
<1>7. ASSUME NEW pc \in {"embed", "upsert", "mark"}, RestoreTo(u, pc),
              UNCHANGED <<record, archive, points>>,
              \A q \in Records \ {r} : index'[q] = index[q],
              r \in Live =>
                /\ pc \in {"embed", "upsert"} => index'[r] = "rows"
                /\ pc = "mark" => index'[r] = "ids" /\ r \in points
       PROVE  WorksOn(u)
  <2>1. /\ unarchiver'[u].pc = pc /\ unarchiver'[u].rec = r /\ unarchiver'[u].arch = k.arch
        /\ unarchiver'[u].queue = k.queue /\ unarchiver'[u].restorable = k.restorable
        /\ \A v \in Unarchivers \ {u} : unarchiver'[v] = unarchiver[v]
    BY <1>1, <1>7, RestoreToMoves
  <2> QED
    BY <1>4, <1>7, <2>1
<1>8. CASE RestoreInsertChunks(u)
  <2>1. UNCHANGED <<record, archive, points>>
    BY <1>8 DEF RestoreInsertChunks
  <2>2. CASE r \in Live /\ index' = [index EXCEPT ![r] = "rows"] /\ RestoreTo(u, "embed")
    <3>1. index'[r] = "rows" /\ \A q \in Records \ {r} : index'[q] = index[q]
      BY <1>1, <1>3, <2>2
    <3> QED
      BY <1>7, <2>1, <2>2, <3>1
  <2> QED
    BY <1>6, <1>8, <2>1, <2>2 DEF RestoreInsertChunks
<1>9. CASE RestoreEmbed(u)
  <2>1. UNCHANGED <<record, archive, points, index>> /\ k.pc = "embed"
    BY <1>9 DEF RestoreEmbed, rows
  <2>2. CASE RestoreTo(u, "upsert")
    BY <1>3, <1>7, <2>1, <2>2 DEF CopyOK
  <2> QED
    BY <1>6, <1>9, <2>1, <2>2 DEF RestoreEmbed
<1>10. CASE RestoreUpsert(u)
  <2>1. UNCHANGED <<record, archive, index>> /\ k.pc = "upsert"
    BY <1>10 DEF RestoreUpsert, rows
  <2>2. \A q \in Records \ {r} : q \in points' <=> q \in points
    BY <1>10 DEF RestoreUpsert, VectorCall
  <2>3. CASE /\ points' = points \cup {r}
             /\ unarchiver' = [unarchiver EXCEPT ![u] =
                                        [@ EXCEPT !.pc = "pointIds", !.upserted = TRUE]]
    <3>1. /\ unarchiver'[u].rec = r /\ unarchiver'[u].arch = k.arch
          /\ unarchiver'[u].queue = k.queue /\ unarchiver'[u].restorable = k.restorable
          /\ unarchiver'[u].pc = "pointIds"
          /\ \A v \in Unarchivers \ {u} : unarchiver'[v] = unarchiver[v]
      BY <1>1, <2>3 DEF UnarchiverState
    <3> QED
      BY <1>3, <1>4, <2>1, <2>2, <2>3, <3>1 DEF CopyOK
  <2> QED
    BY <1>6, <1>10, <2>1, <2>2, <2>3 DEF RestoreUpsert, VectorCall
<1>11. CASE RestorePointIds(u)
  <2>1. UNCHANGED <<record, archive, points>> /\ k.pc = "pointIds"
    BY <1>11 DEF RestorePointIds
  <2>2. CASE index' = [index EXCEPT ![r] = IF @ = "rows" THEN "ids" ELSE @] /\ RestoreTo(u, "mark")
    <3>1. /\ index[r] = "rows" => index'[r] = "ids"
          /\ \A q \in Records \ {r} : index'[q] = index[q]
      BY <1>1, <1>3, <2>2
    <3> QED
      BY <1>3, <1>7, <2>1, <2>2, <3>1 DEF CopyOK
  <2> QED
    BY <1>6, <1>11, <2>1, <2>2 DEF RestorePointIds
<1>12. CASE MarkUnarchived(u)
  <2>1. UNCHANGED <<record, index, points>> /\ k.pc = "mark"
    BY <1>12 DEF MarkUnarchived
  <2>2. CASE archive' = [archive EXCEPT ![k.arch].unarchived = TRUE] /\ RestoreNext(u)
    <3>1. Over(u) /\ \A v \in Unarchivers \ {u} : unarchiver'[v] = unarchiver[v]
      BY <1>1, <2>1, <2>2, RestoreNextEnds
    <3>2. \A a \in Records : archive'[a].q = archive[a].q
      BY <1>1, <1>3, <2>2 DEF ArchiveState
    <3> QED
      BY <2>1, <2>2, <3>1, <3>2 DEF MarksRow, Frame
  <2> QED
    BY <1>6, <1>12, <2>1, <2>2 DEF MarkUnarchived
<1>13. CASE UndoPoints(u)
  <2>1. UNCHANGED <<record, archive, index>> /\ RestoreTo(u, "undoRecord")
    BY <1>13 DEF UndoPoints, rows
  <2>2. \A q \in Records \ {r} : q \in points' <=> q \in points
    BY <1>13 DEF UndoPoints
  <2> QED
    BY <1>5, <2>1, <2>2
<1>14. CASE UndoRecord(u)
  <2>1. UNCHANGED <<archive, points>> /\ RestoreNext(u) /\ k.pc = "undoRecord"
    BY <1>14 DEF UndoRecord
  <2>2. Over(u) /\ \A v \in Unarchivers \ {u} : unarchiver'[v] = unarchiver[v]
    BY <1>1, <2>1, RestoreNextEnds
  <2>3. CASE record' = [record EXCEPT ![r].state = "gone"] /\ index' = Cascade(r)
    <3>1. /\ record'[r].from = record[r].from /\ record'[r].state = "gone"
          /\ \A q \in Records \ {r} : record'[q] = record[q] /\ index'[q] = index[q]
      BY <1>1, <1>3, <2>3 DEF RecordState, Cascade
    <3> QED
      BY <2>1, <2>2, <3>1 DEF GivesCopyUp, Frame
  <2>4. CASE "undo" \in Faults /\ UNCHANGED <<record, index>>
    BY <2>1, <2>2, <2>4 DEF GivesCopyUp, Frame
  <2> QED
    BY <1>14, <2>3, <2>4 DEF UndoRecord
<1> QED
  BY <1>8, <1>9, <1>10, <1>11, <1>12, <1>13, <1>14 DEF UnarchiverStep, RestoreToCanonical

-----------------------------------------------------------------------------
\* What a step of restore u leaves of the other restores and of the copies.
LEMMA FrameKeeps ==
  ASSUME CopyInv, OutboxInv', NEW u \in Unarchivers, NEW r \in Records \cup {NoRecord},
         Frame(u, r),
         \A v \in Unarchivers \ {u} : r \in Records => unarchiver[v].rec # r,
         unarchiver[u].rec \in {NoRecord, r},
         r \in Records => RestoringIn(r) \/ record[r].state = "none",
         unarchiver'[u].restorable \subseteq Archived,
         IF Restoring(u)' THEN CopyOK(u)' /\ unarchiver'[u].rec = r
                          ELSE unarchiver'[u].rec = NoRecord,
         \A a \in Records : archive'[a].unarchived => archive[a].unarchived \/
            (a \in Archived /\ r \in Restores(a)' /\ ~RestoringIn(r)' /\ Searchable(r)')
  PROVE  CopyInv' /\ \A q \in Records \ {r} : RestoringIn(q)' <=> RestoringIn(q)
<1>1. /\ TypeOK /\ TypeOK' /\ NoRecord \notin Records
      /\ \A v \in Unarchivers : Restoring(v) => unarchiver[v].rec \in Records
      /\ \A v \in Unarchivers : Restoring(v)' => unarchiver'[v].rec \in Records
  BY DEF CopyInv, OutboxInv, TypeOK, Restoring, NoRecord, Records
<1>2. /\ \A v \in Unarchivers \ {u} :
            unarchiver'[v] = unarchiver[v] /\ Restoring(v)' = Restoring(v)
      /\ \A q \in Records \ {r} :
            record'[q] = record[q] /\ index'[q] = index[q] /\ (q \in points' <=> q \in points)
      /\ Archived' = Archived /\ Archived \subseteq Records
  BY DEF Frame, Restoring, Archived
<1>3. ASSUME NEW q \in Records \ {r}  PROVE RestoringIn(q)' <=> RestoringIn(q)
  <2>1. unarchiver[u].rec # q /\ unarchiver'[u].rec # q
    BY <1>1
  <2> QED
    BY <1>2, <2>1 DEF RestoringIn
<1>4. ASSUME NEW a \in Records, archive'[a].unarchived
      PROVE  a \in Archived' /\ \E q \in Restores(a)' : ~RestoringIn(q)' /\ Searchable(q)'
  <2>1. CASE archive[a].unarchived
    <3>1. PICK q \in Restores(a) : ~RestoringIn(q) /\ Searchable(q) /\ a \in Archived
      BY <2>1 DEF CopyInv
    <3>2. q \in Records /\ (q \in Archived => record[q].state = "gone")
            /\ (index[q] = "ids" => record[q].state = "live")
      BY <1>1 DEF Restores, CopyInv, OutboxInv, TypeOK
    <3>3. q # r
      BY <3>1, <3>2 DEF Searchable
    <3>4. q \in Restores(a)' /\ Searchable(q)' /\ ~RestoringIn(q)'
      BY <1>2, <1>3, <3>1, <3>2, <3>3 DEF Restores, Searchable
    <3> QED
      BY <1>2, <3>1, <3>4
  <2> QED
    BY <1>2, <1>4, <2>1
<1>5. ASSUME NEW v \in Unarchivers
      PROVE  /\ unarchiver'[v].restorable \subseteq Archived'
             /\ IF Restoring(v)' THEN CopyOK(v)' ELSE unarchiver'[v].rec = NoRecord
  <2>1. CASE v = u
    BY <1>2, <2>1
  <2>2. CASE v # u
    <3>1. unarchiver'[v] = unarchiver[v] /\ Restoring(v)' = Restoring(v)
            /\ unarchiver[v].restorable \subseteq Archived
      BY <1>2, <2>2 DEF CopyInv
    <3>2. ASSUME Restoring(v)  PROVE CopyOK(v)'
      <4> DEFINE q == unarchiver[v].rec
      <4>1. CopyOK(v) /\ q \in Records \ {r} /\ unarchiver[v].arch \in Archived
        BY <1>1, <2>2, <3>2 DEF CopyInv, CopyOK
      <4>2. unarchiver'[v].rec = q /\ record'[q] = record[q] /\ index'[q] = index[q]
              /\ (q \in points' <=> q \in points) /\ Archived' = Archived
        BY <1>2, <3>1, <4>1
      <4> QED
        BY <3>1, <4>1, <4>2 DEF CopyOK, Live
    <3> QED
      BY <1>2, <3>1, <3>2 DEF CopyInv
  <2> QED
    BY <2>1, <2>2
<1>6. ASSUME NEW v \in Unarchivers, NEW w \in Unarchivers, Restoring(v)',
             unarchiver'[v].rec = unarchiver'[w].rec
      PROVE  v = w
  <2>1. unarchiver'[v].rec \in Records
    BY <1>1, <1>6
  <2>2. CASE v # u /\ w # u
    <3>1. Restoring(v) /\ unarchiver[v].rec = unarchiver[w].rec
      BY <1>2, <1>6, <2>2
    <3>2. \A x, y \in Unarchivers : Restoring(x) /\ unarchiver[x].rec = unarchiver[y].rec => x = y
      BY DEF CopyInv
    <3> QED
      BY <3>1, <3>2
  <2>3. CASE v = u \/ w = u
    BY <1>1, <1>2, <1>6, <2>1, <2>3
  <2> QED
    BY <2>2, <2>3
<1> QED
  BY <1>3, <1>4, <1>5, <1>6 DEF CopyInv

LEMMA OwnCopy ==
  ASSUME CopyInv, NEW u \in Unarchivers, Restoring(u)
  PROVE  LET r == unarchiver[u].rec IN
         /\ r \in Records /\ RestoringIn(r)
         /\ \A v \in Unarchivers \ {u} : unarchiver[v].rec # r
<1>1. unarchiver[u].rec \in Records
  BY DEF CopyInv, OutboxInv, TypeOK, Restoring
<1> QED
  BY <1>1 DEF CopyInv, RestoringIn

\* A record that was never made is nobody's copy.
LEMMA FreshCopy ==
  ASSUME CopyInv, NEW u \in Unarchivers, NEW r \in Records, record[r].state = "none"
  PROVE  unarchiver[u].rec # r
<1>1. CASE Restoring(u)
  <2>1. unarchiver[u].rec \in Live \cup Archived
    BY <1>1 DEF CopyInv, CopyOK
  <2> QED
    BY <2>1 DEF CopyInv, OutboxInv, Live
<1>2. CASE ~ Restoring(u)
  BY <1>2 DEF CopyInv, NoRecord, Records
<1> QED
  BY <1>1, <1>2

LEMMA GoesByKeeps ==
  ASSUME CopyInv, OutboxInv', NEW u \in Unarchivers, GoesBy(u)
  PROVE  CopyInv' /\ \A q \in Records : RestoringIn(q)' <=> RestoringIn(q)
<1>1. /\ Frame(u, NoRecord) /\ ~ Restoring(u)' /\ unarchiver'[u].rec = NoRecord
      /\ unarchiver[u].rec = NoRecord /\ archive' = archive /\ NoRecord \notin Records
      /\ unarchiver[u].restorable \subseteq Archived
  BY DEF GoesBy, CopyInv, Over, Restoring, NoRecord, Records
<1>2. unarchiver'[u].restorable \subseteq Archived
  BY <1>1 DEF GoesBy, Over
<1> QED
  BY <1>1, <1>2, FrameKeeps

LEMMA MakesCopyKeeps ==
  ASSUME CopyInv, OutboxInv', NEW u \in Unarchivers, NEW r \in Records, MakesCopy(u, r)
  PROVE  /\ CopyInv' /\ \A q \in Records \ {r} : RestoringIn(q)' <=> RestoringIn(q)
         /\ RestoringIn(r)' /\ record'[r].from \in Records
         /\ unarchiver'[u].pc = "insert" /\ unarchiver'[u].rec = r
         /\ unarchiver'[u].arch = Head(unarchiver[u].queue)
         /\ unarchiver'[u].queue = unarchiver[u].queue
         /\ unarchiver'[u].restorable = unarchiver[u].restorable
         /\ unarchiver'[u].upserted = unarchiver[u].upserted
<1> DEFINE a == Head(unarchiver[u].queue)
<1>1. unarchiver[u] \in UnarchiverState /\ ~ Restoring(u) /\ unarchiver[u].rec = NoRecord
        /\ unarchiver[u].restorable \subseteq Archived
  BY DEF CopyInv, OutboxInv, TypeOK, MakesCopy, Restoring
<1>2. a \in unarchiver[u].restorable /\ a \in Archived
  BY <1>1 DEF MakesCopy
<1> HIDE DEF a
<1>3. /\ unarchiver'[u].pc = "insert" /\ unarchiver'[u].rec = r
      /\ unarchiver'[u].arch = a /\ unarchiver'[u].queue = unarchiver[u].queue
      /\ unarchiver'[u].restorable = unarchiver[u].restorable
      /\ unarchiver'[u].upserted = unarchiver[u].upserted
  BY <1>1 DEF MakesCopy, a, UnarchiverState
<1>4. Restoring(u)' /\ CopyOK(u)' /\ RestoringIn(r)'
  BY <1>2, <1>3 DEF MakesCopy, a, Restoring, CopyOK, RestoringIn, Archived, Live
<1>5. \A v \in Unarchivers \ {u} : unarchiver[v].rec # r
  BY FreshCopy DEF MakesCopy
<1>6. CopyInv' /\ \A q \in Records \ {r} : RestoringIn(q)' <=> RestoringIn(q)
  BY <1>1, <1>3, <1>4, <1>5, FrameKeeps DEF MakesCopy
<1>7. record'[r].from \in Records
  BY <1>2 DEF MakesCopy, a, Archived
<1> QED
  BY <1>3, <1>4, <1>6, <1>7 DEF a

LEMMA WorksOnKeeps ==
  ASSUME CopyInv, OutboxInv', NEW u \in Unarchivers, WorksOn(u)
  PROVE  CopyInv' /\ \A q \in Records : RestoringIn(q)' <=> RestoringIn(q)
<1>1. PICK r \in Records : /\ unarchiver[u].rec = r /\ RestoringIn(r)
                           /\ \A v \in Unarchivers \ {u} : unarchiver[v].rec # r
  BY OwnCopy DEF WorksOn
<1>2. /\ Frame(u, r) /\ Restoring(u)' /\ CopyOK(u)' /\ unarchiver'[u].rec = r
      /\ unarchiver'[u].restorable \subseteq Archived /\ archive' = archive
  BY <1>1 DEF WorksOn, CopyInv
<1>3. RestoringIn(r)'
  BY <1>2 DEF RestoringIn
<1> QED
  BY <1>1, <1>2, <1>3, FrameKeeps

LEMMA MarksRowKeeps ==
  ASSUME CopyInv, OutboxInv', NEW u \in Unarchivers, MarksRow(u)
  PROVE  /\ CopyInv' /\ \A q \in Records \ {unarchiver[u].rec} : RestoringIn(q)' <=> RestoringIn(q)
         /\ record[unarchiver[u].rec].from = unarchiver[u].arch
         /\ unarchiver[u].rec \in Records /\ unarchiver[u].arch \in Records
         /\ \A a \in Records : archive'[a].unarchived <=> archive[a].unarchived \/ a = unarchiver[u].arch
<1>1. PICK r \in Records : /\ unarchiver[u].rec = r /\ RestoringIn(r)
                           /\ \A v \in Unarchivers \ {u} : unarchiver[v].rec # r
  BY OwnCopy DEF MarksRow, Restoring
<1>2. PICK b \in Records : /\ unarchiver[u].arch = b /\ b \in Archived /\ record[r].from = b
                           /\ CopyOK(u)
  BY <1>1 DEF MarksRow, CopyInv, CopyOK, Restoring, Archived
<1>3. /\ Frame(u, r) /\ ~ Restoring(u)' /\ unarchiver'[u].rec = NoRecord
      /\ unarchiver'[u].restorable \subseteq Archived
      /\ archive' = [archive EXCEPT ![b].unarchived = TRUE]
      /\ UNCHANGED <<record, index, points>> /\ unarchiver[u].pc = "mark" /\ Restoring(u)
  BY <1>1, <1>2 DEF MarksRow, Over, CopyInv, Restoring
<1>4. archive \in [Records -> ArchiveState]
  BY DEF CopyInv, OutboxInv, TypeOK
<1>5. \A a \in Records : archive'[a].unarchived <=> archive[a].unarchived \/ a = b
  BY <1>3, <1>2, <1>4 DEF ArchiveState
<1>6. r \in Restores(b)' /\ Searchable(r)'
  <2>1. Searchable(r)
    BY <1>3, <1>2, <1>1 DEF CopyOK, Searchable
  <2> QED
    BY <1>3, <1>2, <2>1 DEF Searchable, Restores, Frame, Archived
<1>7. ~ RestoringIn(r)'
  BY <1>3, <1>1 DEF RestoringIn, Frame, NoRecord, Records
<1>8. CopyInv' /\ \A q \in Records \ {r} : RestoringIn(q)' <=> RestoringIn(q)
  BY <1>3, <1>2, <1>5, <1>6, <1>7, <1>1, FrameKeeps
<1> QED
  BY <1>2, <1>5, <1>1, <1>8

LEMMA GivesCopyUpKeeps ==
  ASSUME CopyInv, OutboxInv', NEW u \in Unarchivers, GivesCopyUp(u)
  PROVE  /\ CopyInv' /\ \A q \in Records \ {unarchiver[u].rec} : RestoringIn(q)' <=> RestoringIn(q)
         /\ unarchiver[u].rec \in Records
<1>1. PICK r \in Records : /\ unarchiver[u].rec = r /\ RestoringIn(r)
                           /\ \A v \in Unarchivers \ {u} : unarchiver[v].rec # r
  BY OwnCopy DEF GivesCopyUp, Restoring
<1>2. /\ Frame(u, r) /\ ~ Restoring(u)' /\ unarchiver'[u].rec = NoRecord
      /\ unarchiver'[u].restorable \subseteq Archived /\ archive' = archive
  BY <1>1 DEF GivesCopyUp, Over, CopyInv
<1>3. CopyInv' /\ \A q \in Records \ {r} : RestoringIn(q)' <=> RestoringIn(q)
  BY <1>1, <1>2, FrameKeeps
<1> QED
  BY <1>1, <1>3

\* The cases of a step, for the invariants about copies.
LEMMA RestoreSteps ==
  ASSUME CopyInv, [Next]_vars
  PROVE  \/ OthersStep
         \/ \E u \in Unarchivers :
              /\ FindArchiveByIds(u) \/ UnarchiverStep(u)
              /\ \/ GoesBy(u) \/ (\E r \in Records : MakesCopy(u, r))
                 \/ WorksOn(u) \/ MarksRow(u) \/ GivesCopyUp(u)
<1>1. ASSUME NEW u \in Unarchivers, UnarchiverStep(u)
      PROVE  \/ GoesBy(u) \/ (\E r \in Records : MakesCopy(u, r))
             \/ WorksOn(u) \/ MarksRow(u) \/ GivesCopyUp(u)
  <2>1. CASE unarchiver[u].pc = "next"
    <3>1. RestoreToCanonical(u)
      BY <1>1, <2>1 DEF UnarchiverStep, RestoreInsertChunks, RestoreEmbed, RestoreUpsert,
                        RestorePointIds, MarkUnarchived, UndoPoints, UndoRecord
    <3> QED
      BY <3>1, CanonicalMakesCopy
  <2>2. CASE unarchiver[u].pc # "next"
    BY <1>1, <2>2, CopySteps
  <2> QED
    BY <2>1, <2>2
<1> QED
  BY <1>1, StepIsOther, FindGoesBy

LEMMA CopyInit == Init => CopyInv
<1> SUFFICES ASSUME Init  PROVE CopyInv
  OBVIOUS
<1>1. OutboxInv
  BY OutboxInit
<1>2. \A a \in Records : archive[a].unarchived = FALSE
  BY DEF Init, NoArchive
<1>3. \A u \in Unarchivers : ~ Restoring(u) /\ unarchiver[u].rec = NoRecord
                               /\ unarchiver[u].restorable = {}
  BY DEF Init, IdleUnarchiver, Restoring
<1> QED
  BY <1>1, <1>2, <1>3 DEF CopyInv

LEMMA CopyNext == CopyInv /\ [Next]_vars => CopyInv'
<1> SUFFICES ASSUME CopyInv, [Next]_vars  PROVE CopyInv'
  OBVIOUS
<1>1. OutboxInv'
  BY OutboxNext DEF CopyInv
<1> QED
  BY <1>1, RestoreSteps, OthersKeepCopies, GoesByKeeps, MakesCopyKeeps, WorksOnKeeps,
     MarksRowKeeps, GivesCopyUpKeeps

\* An archive row marked unarchived has a copy that can be found, or that was
\* archived in turn: whatever fails, crashes or overlaps, and however often an
\* id is given.
THEOREM FoundAgain == Spec => []UnarchivedHasSearchableCopy
<1>1. CopyInv => UnarchivedHasSearchableCopy
  BY DEF CopyInv, UnarchivedHasSearchableCopy, Searchable
<1> QED
  BY <1>1, CopyInit, CopyNext, PTL DEF Spec

-----------------------------------------------------------------------------
(***************************************************************************)
(* What 'deleted' means.  A row speaks of its points when it listed their  *)
(* ids, or when its record is no copy: nobody can upsert them again, for a *)
(* restore that has yet to do so has a copy whose chunks name no points.   *)
(***************************************************************************)
Early(u) == unarchiver[u].pc \in {"insert", "embed", "upsert"}

FreshInv ==
    /\ CopyInv
    /\ \A r \in Records : r \notin Archived => ~archive[r].hasPoints
    /\ \A u \in Unarchivers : Early(u) =>
          index[unarchiver[u].rec] # "ids" /\ ~archive[unarchiver[u].rec].hasPoints

Clear(r) == archive[r].hasPoints \/ record[r].from = NoRecord => r \notin points

Vacuous(c) == compactor[c].pc \in {"vacuous", "markDeleted"}

PointsInv ==
    /\ FreshInv
    /\ \A r \in Live : index[r] # "ids" => Clear(r)
    /\ \A c \in Compactors : Vacuous(c) => Clear(compactor[c].rec)
    /\ \A s \in Sweepers : sweeper[s].pc = "mark" => \A r \in sweeper[s].todo : Clear(r)
    /\ \A r \in Records : archive[r].q = "deleted" => Clear(r)

\* What every step leaves, and what a compactor's or a sweeper's step leaves behind.
ClearOn == \A r \in Records : r \in Archived \/ r \in Live' => (Clear(r) => Clear(r)')

CompactorKnows(c) == Vacuous(c)' => Clear(compactor[c].rec)'

SweeperKnows(s) == sweeper'[s].pc = "mark" => \A r \in sweeper'[s].todo : Clear(r)'

RowsKnow == \A r \in Records : archive'[r].q = "deleted" => Clear(r)'

LEMMA PointsTyped ==
  ASSUME PointsInv
  PROVE  OutboxInv /\ TypeOK /\ CopyInv /\ archive \in [Records -> ArchiveState]
  BY DEF PointsInv, FreshInv, CopyInv, OutboxInv, TypeOK

\* Only compaction writes the list of point ids, and in one statement with the row.
LEMMA IdsKept ==
  ASSUME OutboxInv, [Next]_vars, NEW r \in Records
  PROVE  \/ archive'[r].hasPoints = archive[r].hasPoints
         \/ r \in Live /\ r \in Archived' /\ archive'[r].hasPoints = (index[r] = "ids")
<1>1. archive \in [Records -> ArchiveState] /\ TypeOK
  BY DEF OutboxInv, TypeOK
<1>2. ASSUME NEW t, NEW q, MarkQdrantStatus(t, q)  PROVE archive'[r].hasPoints = archive[r].hasPoints
  BY <1>1, <1>2 DEF MarkQdrantStatus, Marked, ArchiveState
<1>3. ASSUME NEW c \in Compactors, ListMemory(c) \/ CompactorStep(c), ~ ApplyCompactionRecord(c)
      PROVE  archive'[r].hasPoints = archive[r].hasPoints
  BY <1>2, <1>3
     DEF CompactorStep, ListMemory, StartCompaction, CountRecentApplyRuns, CreateCompactionRun,
         MarkVacuouslyDeleted, CompactDeletePoints, MarkDeleted, MarkPending, CompleteRun, rows
<1>4. ASSUME NEW c \in Compactors, ApplyCompactionRecord(c)
      PROVE  \/ archive'[r].hasPoints = archive[r].hasPoints
             \/ r \in Live /\ r \in Archived' /\ archive'[r].hasPoints = (index[r] = "ids")
  <2>1. CASE archive' = archive
    BY <2>1
  <2>2. CASE archive' # archive
    <3>1. PICK e \in compactor[c].plan :
            /\ Deletable(c, e.rec)
            /\ archive' = [archive EXCEPT ![e.rec] =
                [NoArchive EXCEPT !.q = "pending", !.run = compactor[c].run, !.kept = e.kept,
                     !.hasPoints = (index[e.rec] = "ids"),
                     !.retry = IF index[e.rec] = "ids" THEN "later" ELSE "null"]]
      BY <1>4, <2>2 DEF ApplyCompactionRecord
    <3>2. PICK t : t = e.rec
      OBVIOUS
    <3>3. PICK row : row = [NoArchive EXCEPT !.q = "pending", !.run = compactor[c].run,
                     !.kept = e.kept, !.hasPoints = (index[t] = "ids"),
                     !.retry = IF index[t] = "ids" THEN "later" ELSE "null"]
      OBVIOUS
    <3>4. row.q = "pending" /\ row.hasPoints = (index[t] = "ids")
      BY <3>3 DEF NoArchive
    <3>5. archive' = [archive EXCEPT ![t] = row] /\ t \in Live
      BY <3>1, <3>2, <3>3 DEF Deletable
    <3> QED
      BY <1>1, <3>4, <3>5 DEF Archived
  <2> QED
    BY <2>1, <2>2
<1>5. ASSUME NEW s \in Sweepers, ClaimCleanup(s) \/ SweeperStep(s)
      PROVE  archive'[r].hasPoints = archive[r].hasPoints
  <2>1. CASE ClaimCleanup(s)
    <3>1. archive'[r] \in {archive[r], [archive[r] EXCEPT !.retry = "later"]}
      BY <2>1 DEF ClaimCleanup
    <3> QED
      BY <1>1, <3>1 DEF ArchiveState
  <2> QED
    BY <1>2, <1>5, <2>1 DEF SweeperStep, SweepDeletePoints, SweepMarkDeleted, MarkRowFailure, rows
<1>6. ASSUME NEW u \in Unarchivers, FindArchiveByIds(u) \/ UnarchiverStep(u)
      PROVE  archive'[r].hasPoints = archive[r].hasPoints
  <2>1. CASE archive' = [archive EXCEPT ![unarchiver[u].arch].unarchived = TRUE]
    BY <1>1, <2>1 DEF ArchiveState
  <2> QED
    BY <1>6, <2>1
       DEF UnarchiverStep, FindArchiveByIds, RestoreToCanonical, RestoreInsertChunks, RestoreEmbed,
           RestoreUpsert, RestorePointIds, MarkUnarchived, UndoPoints, UndoRecord, rows
<1>7. ASSUME NEW e \in Editors, (\E q \in Records : BeginUpdate(e, q)) \/ CommitUpdate(e)
      PROVE  archive' = archive
  BY <1>7 DEF BeginUpdate, CommitUpdate, rows
<1>8. ASSUME NEW q \in Records, RetryTimeReached(q)
      PROVE  archive'[r].hasPoints = archive[r].hasPoints
  BY <1>1, <1>8 DEF RetryTimeReached, ArchiveState
<1>9. CASE Crash \/ UNCHANGED vars \/ \E u \in Runs : HourPasses(u)
  BY <1>9 DEF Crash, HourPasses, rows, vars
<1> QED
  BY <1>3, <1>4, <1>5, <1>6, <1>7, <1>8, <1>9 DEF Next

\* How a restore comes to be early, and how points come to be there.
LEMMA EarlyOn ==
  ASSUME TypeOK, NEW u \in Unarchivers, UnarchiverStep(u), unarchiver[u].pc # "next",
         NEW r \in Records, r = unarchiver[u].rec
  PROVE  /\ Early(u)' => Early(u) /\ (index[r] # "ids" => index'[r] # "ids")
         /\ r \in points' => r \in points \/ Early(u)
<1> DEFINE k == unarchiver[u]
<1>1. /\ k \in UnarchiverState /\ DOMAIN unarchiver = Unarchivers
      /\ index \in [Records -> {"none", "rows", "ids"}]
  BY DEF TypeOK
<1>2. ASSUME NEW pc, RestoreTo(u, pc)  PROVE unarchiver'[u].pc = pc
  BY <1>2, RestoreToMoves
<1>3. ASSUME RestoreThrow(u)  PROVE ~ Early(u)'
  <2>1. PICK pc \in {"undoPoints", "undoRecord"} : RestoreTo(u, pc)
    BY <1>3 DEF RestoreThrow
  <2> QED
    BY <1>2, <2>1 DEF Early
<1>4. ASSUME RestoreNext(u), k.pc # "idle"  PROVE ~ Early(u)'
  BY <1>4, RestoreNextEnds DEF Over, Restoring, Early
<1>5. CASE RestoreInsertChunks(u)
  <2>1. points' = points /\ k.pc = "insert"
    BY <1>5 DEF RestoreInsertChunks
  <2>2. CASE index' = [index EXCEPT ![r] = "rows"]
    BY <1>1, <2>1, <2>2 DEF Early
  <2> QED
    BY <1>3, <1>5, <2>1, <2>2 DEF RestoreInsertChunks
<1>6. CASE RestoreEmbed(u)
  BY <1>6 DEF RestoreEmbed, rows, Early
<1>7. CASE RestoreUpsert(u)
  <2>1. Early(u) /\ index' = index
    BY <1>7 DEF RestoreUpsert, rows, Early
  <2> QED
    BY <2>1
<1>8. CASE RestorePointIds(u)
  <2>1. points' = points
    BY <1>8 DEF RestorePointIds
  <2>2. ~ Early(u)'
    BY <1>2, <1>3, <1>8 DEF RestorePointIds, Early
  <2> QED
    BY <2>1, <2>2
<1>9. CASE MarkUnarchived(u)
  <2>1. points' = points
    BY <1>9 DEF MarkUnarchived
  <2>2. ~ Early(u)'
    BY <1>3, <1>4, <1>9 DEF MarkUnarchived
  <2> QED
    BY <2>1, <2>2
<1>10. CASE UndoPoints(u)
  <2>1. r \in points' => r \in points
    BY <1>10 DEF UndoPoints
  <2>2. ~ Early(u)'
    BY <1>2, <1>10 DEF UndoPoints, Early
  <2> QED
    BY <2>1, <2>2
<1>11. CASE UndoRecord(u)
  <2>1. points' = points
    BY <1>11 DEF UndoRecord
  <2>2. ~ Early(u)'
    BY <1>4, <1>11 DEF UndoRecord
  <2> QED
    BY <2>1, <2>2
<1>12. ~ RestoreToCanonical(u)
  BY DEF RestoreToCanonical
<1> QED
  BY <1>5, <1>6, <1>7, <1>8, <1>9, <1>10, <1>11, <1>12 DEF UnarchiverStep

LEMMA FreshNext ==
  ASSUME FreshInv, [Next]_vars
  PROVE  FreshInv'
<1>1. CopyInv /\ CopyInv' /\ OutboxInv /\ OutboxInv' /\ TypeOK /\ TypeOK'
  BY CopyNext DEF FreshInv, CopyInv, OutboxInv
<1>2. \/ OthersStep
      \/ \E u \in Unarchivers :
            /\ FindArchiveByIds(u) \/ UnarchiverStep(u)
            /\ \/ GoesBy(u) \/ (\E r \in Records : MakesCopy(u, r))
               \/ WorksOn(u) \/ MarksRow(u) \/ GivesCopyUp(u)
  BY <1>1, RestoreSteps
<1>3. \A r \in Records : r \in Archived => r \in Archived'
  BY <1>2 DEF OthersStep, GoesBy, MakesCopy, WorksOn, MarksRow, GivesCopyUp, Frame, Archived
<1>4. \A r \in Records : r \notin Archived' => ~archive'[r].hasPoints
  BY <1>1, <1>3, IdsKept DEF FreshInv
<1>5. ASSUME NEW v \in Unarchivers, Early(v)
      PROVE  /\ unarchiver[v].rec \in Records /\ index[unarchiver[v].rec] # "ids"
             /\ ~archive'[unarchiver[v].rec].hasPoints
  <2>1. PICK r \in Records : r = unarchiver[v].rec
    BY <1>1, <1>5 DEF TypeOK, Early
  <2>2. index[r] # "ids" /\ ~archive[r].hasPoints
    BY <1>5, <2>1 DEF FreshInv
  <2> QED
    BY <1>1, <2>1, <2>2, IdsKept
<1>6. ASSUME NEW v \in Unarchivers, Early(v), unarchiver'[v] = unarchiver[v],
             NEW r \in Records, r = unarchiver[v].rec, index'[r] = index[r] \/ index'[r] # "ids"
      PROVE  index'[unarchiver'[v].rec] # "ids" /\ ~archive'[unarchiver'[v].rec].hasPoints
  BY <1>5, <1>6
<1>7. ASSUME OthersStep, NEW v \in Unarchivers, Early(v)'
      PROVE  index'[unarchiver'[v].rec] # "ids" /\ ~archive'[unarchiver'[v].rec].hasPoints
  <2>1. unarchiver'[v] = unarchiver[v] /\ Early(v)
    BY <1>7 DEF OthersStep, Early, IdleUnarchiver
  <2>2. PICK r \in Records : r = unarchiver[v].rec
    BY <1>5, <2>1
  <2>3. index'[r] = index[r] \/ index'[r] # "ids"
    BY <1>1, <1>7 DEF OthersStep, TypeOK, Live
  <2> QED
    BY <1>6, <2>1, <2>2, <2>3
<1>8. ASSUME NEW u \in Unarchivers,
             FindArchiveByIds(u) \/ UnarchiverStep(u),
             \/ GoesBy(u) \/ (\E r \in Records : MakesCopy(u, r))
             \/ WorksOn(u) \/ MarksRow(u) \/ GivesCopyUp(u),
             NEW v \in Unarchivers, Early(v)'
      PROVE  index'[unarchiver'[v].rec] # "ids" /\ ~archive'[unarchiver'[v].rec].hasPoints
  <2>1. CASE v # u
    <3>1. unarchiver'[v] = unarchiver[v]
      BY <1>8, <2>1 DEF GoesBy, MakesCopy, WorksOn, MarksRow, GivesCopyUp, Frame
    <3>2. PICK r \in Records : r = unarchiver[v].rec
      BY <1>5, <1>8, <3>1 DEF Early
    <3>3. Early(v) /\ Restoring(v)
      BY <1>8, <3>1 DEF Early, Restoring
    <3>4. ASSUME NEW q, Frame(u, q), q # r  PROVE index'[r] = index[r]
      BY <3>4 DEF Frame
    <3>5. unarchiver[u].rec # r
      BY <1>1, <2>1, <3>2, <3>3, OwnCopy
    <3>6. \A q \in Records : MakesCopy(u, q) => q # r
      BY <1>1, <3>2, FreshCopy DEF MakesCopy
    <3>7. index'[r] = index[r]
      <4>1. CASE GoesBy(u)
        BY <3>4, <4>1 DEF GoesBy, NoRecord, Records
      <4>2. CASE \E q \in Records : MakesCopy(u, q)
        BY <3>4, <3>6, <4>2 DEF MakesCopy
      <4>3. CASE WorksOn(u) \/ MarksRow(u) \/ GivesCopyUp(u)
        BY <3>4, <3>5, <4>3 DEF WorksOn, MarksRow, GivesCopyUp
      <4> QED
        BY <1>8, <4>1, <4>2, <4>3
    <3> QED
      BY <1>6, <3>1, <3>2, <3>3, <3>7
  <2>2. CASE v = u /\ \E r \in Records : MakesCopy(u, r)
    <3>1. PICK r \in Records : MakesCopy(u, r)
      BY <2>2
    <3>2. unarchiver'[u].rec = r /\ index' = index /\ archive' = archive /\ record[r].state = "none"
      BY <1>1, <3>1, MakesCopyKeeps DEF MakesCopy
    <3>3. index[r] # "ids" /\ r \notin Archived
      BY <1>1, <3>2 DEF TypeOK, OutboxInv
    <3> QED
      BY <2>2, <3>2, <3>3 DEF FreshInv
  <2>3. CASE v = u /\ WorksOn(u)
    <3>1. PICK r \in Records : r = unarchiver[u].rec
      BY <1>1, <2>3, OwnCopy DEF WorksOn
    <3>2. unarchiver[u].pc \notin {"idle", "next"} /\ unarchiver'[u].rec = r
      BY <2>3, <3>1 DEF WorksOn, Restoring
    <3>3. UnarchiverStep(u)
      BY <1>8, <3>2 DEF FindArchiveByIds
    <3>4. Early(u) /\ (index[r] # "ids" => index'[r] # "ids")
      BY <1>1, <1>8, <2>3, <3>1, <3>2, <3>3, EarlyOn
    <3> QED
      BY <1>5, <2>3, <3>1, <3>2, <3>4
  <2>4. CASE v = u /\ (GoesBy(u) \/ MarksRow(u) \/ GivesCopyUp(u))
    BY <1>8, <2>4 DEF GoesBy, MarksRow, GivesCopyUp, Over, Restoring, Early
  <2> QED
    BY <1>8, <2>1, <2>2, <2>3, <2>4
<1>9. \A v \in Unarchivers : Early(v)' =>
          index'[unarchiver'[v].rec] # "ids" /\ ~archive'[unarchiver'[v].rec].hasPoints
  BY <1>2, <1>7, <1>8
<1> QED
  BY <1>1, <1>4, <1>9 DEF FreshInv

LEMMA PointsInit == Init => PointsInv
<1> SUFFICES ASSUME Init  PROVE PointsInv
  OBVIOUS
<1>1. \A r \in Records : index[r] # "ids" => r \notin points
  BY DEF Init
<1>2. \A c \in Compactors : compactor[c].pc = "idle"
  BY DEF Init, IdleCompactor
<1>3. \A s \in Sweepers : sweeper[s].pc = "idle"
  BY DEF Init, IdleSweeper
<1>4. \A r \in Records : archive[r].q = "absent" /\ ~archive[r].hasPoints
  BY DEF Init, NoArchive
<1>5. \A u \in Unarchivers : ~ Early(u)
  BY DEF Init, IdleUnarchiver, Early
<1>6. FreshInv
  BY <1>4, <1>5, CopyInit DEF FreshInv
<1> QED
  BY <1>1, <1>2, <1>3, <1>4, <1>6 DEF PointsInv, Vacuous, Live, Clear

-----------------------------------------------------------------------------
\* A row another step marked, or none did.
LEMMA RowsStillKnow ==
  ASSUME PointsInv, ClearOn,
         \A r \in Records : archive'[r].q = "deleted" => archive[r].q = "deleted" \/ Clear(r)'
  PROVE  RowsKnow
  BY DEF PointsInv, ClearOn, RowsKnow, Archived

LEMMA MarkedKnows ==
  ASSUME PointsInv, ClearOn, NEW r \in Archived, NEW q \in {"pending", "deleted", "failed"},
         MarkQdrantStatus(r, q), q = "deleted" => Clear(r)
  PROVE  RowsKnow
<1>1. archive \in [Records -> ArchiveState] /\ r \in Records
  BY PointsTyped DEF Archived
<1>2. archive'[r] = Marked(archive[r], q) /\ \A t \in Records \ {r} : archive'[t] = archive[t]
  BY <1>1 DEF MarkQdrantStatus
<1>3. archive'[r].q = q
  BY <1>1, <1>2 DEF Marked, ArchiveState
<1>4. q = "deleted" => Clear(r)'
  BY <1>1 DEF ClearOn
<1> QED
  BY <1>2, <1>3, <1>4, RowsStillKnow

LEMMA CompactorKnowsOn ==
  ASSUME PointsInv, ClearOn, NEW c \in Compactors, ListMemory(c) \/ CompactorStep(c)
  PROVE  CompactorKnows(c) /\ RowsKnow
<1> USE DEF Vacuous
<1> DEFINE k == compactor[c]
<1>1. /\ k \in CompactorState /\ DOMAIN compactor = Compactors /\ TypeOK
      /\ k.pc \in Marking => k.rec \in Archived /\ k.rec \in Records
  BY PointsTyped DEF OutboxInv, TypeOK, Held, Archived
<1>2. ASSUME compactor' = [compactor EXCEPT ![c] = IdleCompactor]  PROVE CompactorKnows(c)
  BY <1>1, <1>2 DEF CompactorKnows, IdleCompactor
<1>3. ASSUME NEW pc \in {"archive", "fail", "markPending", "create"}, CompactTo(c, pc)
      PROVE  CompactorKnows(c)
  BY <1>1, <1>3 DEF CompactTo, CompactorKnows, CompactorState
<1>4. ASSUME archive' = archive  PROVE RowsKnow
  BY <1>4, RowsStillKnow
<1>7. CASE ListMemory(c)
  <2>1. PICK plan : compactor' = [compactor EXCEPT ![c] =
                                    [IdleCompactor EXCEPT !.pc = "start", !.plan = plan]]
    BY <1>7 DEF ListMemory
  <2>2. compactor'[c].pc = "start"
    BY <1>1, <2>1 DEF IdleCompactor
  <2> QED
    BY <1>4, <1>7, <2>2 DEF ListMemory, rows, CompactorKnows
<1>8. CASE StartCompaction(c)
  <2>1. CASE compactor' = [compactor EXCEPT ![c] =
                            [@ EXCEPT !.pc = "limit", !.planGeneratedAt = clock + 1]]
    <3>1. compactor'[c].pc = "limit"
      BY <1>1, <2>1 DEF CompactorState
    <3> QED
      BY <1>4, <1>8, <3>1 DEF StartCompaction, rows, CompactorKnows
  <2> QED
    BY <1>2, <1>4, <1>8, <2>1 DEF StartCompaction, CompactEnd, rows
<1>9. CASE CountRecentApplyRuns(c)
  BY <1>2, <1>3, <1>4, <1>9 DEF CountRecentApplyRuns, CompactEnd, rows
<1>10. CASE CreateCompactionRun(c)
  <2>1. ASSUME NEW u \in Runs,
               compactor' = [compactor EXCEPT ![c] = [@ EXCEPT !.pc = "archive", !.run = u]]
        PROVE  CompactorKnows(c)
    <3>1. compactor'[c].pc = "archive"
      BY <1>1, <2>1 DEF CompactorState
    <3> QED
      BY <3>1 DEF CompactorKnows
  <2> QED
    BY <1>2, <1>4, <1>10, <2>1 DEF CreateCompactionRun, CompactEnd
<1>11. CASE ApplyCompactionRecord(c)
  <2>1. points' = points
    BY <1>11 DEF ApplyCompactionRecord
  <2>2. CASE archive' = archive
    <3>1. CASE \E plan : compactor' = [compactor EXCEPT ![c].plan = plan]
      <4>1. compactor'[c].pc = "archive"
        BY <1>1, <1>11, <3>1 DEF CompactorState, ApplyCompactionRecord
      <4> QED
        BY <1>4, <2>2, <4>1 DEF CompactorKnows
    <3>2. CASE CompactTo(c, "fail")
      BY <1>3, <1>4, <2>2, <3>2
    <3>3. CASE ~ CompactTo(c, "fail") /\ \A plan : compactor' # [compactor EXCEPT ![c].plan = plan]
      <4>1. PICK e \in k.plan :
              /\ Deletable(c, e.rec)
              /\ archive' = [archive EXCEPT ![e.rec] =
                  [NoArchive EXCEPT !.q = "pending", !.run = k.run, !.kept = e.kept,
                       !.hasPoints = (index[e.rec] = "ids"),
                       !.retry = IF index[e.rec] = "ids" THEN "later" ELSE "null"]]
        BY <1>11, <3>3 DEF ApplyCompactionRecord
      <4>2. e.rec \in Live /\ e.rec \in Records
        BY <4>1 DEF Deletable, Live
      <4>3. archive'[e.rec].q = "pending"
        BY <1>1, <4>1, <4>2 DEF TypeOK, NoArchive
      <4> QED
        BY <2>2, <4>2, <4>3, PointsTyped DEF OutboxInv, Archived, Live
    <3> QED
      BY <3>1, <3>2, <3>3
  <2>3. CASE archive' # archive
    <3>1. PICK e \in k.plan :
        /\ Deletable(c, e.rec)
        /\ record' = [record EXCEPT ![e.rec].state = "gone"]
        /\ archive' = [archive EXCEPT ![e.rec] =
                [NoArchive EXCEPT !.q = "pending", !.run = k.run, !.kept = e.kept,
                     !.hasPoints = (index[e.rec] = "ids"),
                     !.retry = IF index[e.rec] = "ids" THEN "later" ELSE "null"]]
        /\ compactor' = [compactor EXCEPT ![c] = [k EXCEPT
                !.pc = IF index[e.rec] = "ids" THEN "delete" ELSE "vacuous",
                !.rec = e.rec, !.plan = @ \ {e}, !.count = Counted(c)]]
      BY <1>11, <2>3 DEF ApplyCompactionRecord
    <3> DEFINE r == e.rec
               row(b) == [NoArchive EXCEPT !.q = "pending", !.run = k.run, !.kept = e.kept,
                                           !.hasPoints = b, !.retry = IF b THEN "later" ELSE "null"]
               l == [k EXCEPT !.pc = IF index[r] = "ids" THEN "delete" ELSE "vacuous",
                              !.rec = r, !.plan = k.plan \ {e}, !.count = Counted(c)]
    <3>2. r \in Live /\ r \in Records
      BY <3>1 DEF Deletable, Live
    <3>3. l.rec = r /\ l.pc = IF index[r] = "ids" THEN "delete" ELSE "vacuous"
      BY <1>1 DEF CompactorState
    <3>4. \A b \in BOOLEAN : row(b).q = "pending" /\ row(b).hasPoints = b
      BY DEF NoArchive
    <3>5. archive' = [archive EXCEPT ![r] = row(index[r] = "ids")]
            /\ compactor' = [compactor EXCEPT ![c] = l]
      BY <3>1
    <3>6. (index[r] = "ids") \in BOOLEAN
      OBVIOUS
    <3> HIDE DEF row, l
    <3>7. /\ archive'[r].q = "pending" /\ archive'[r].hasPoints = (index[r] = "ids")
          /\ \A t \in Records \ {r} : archive'[t] = archive[t]
      BY <1>1, <3>2, <3>4, <3>5, <3>6 DEF TypeOK
    <3>8. compactor'[c].rec = r /\ compactor'[c].pc = IF index[r] = "ids" THEN "delete" ELSE "vacuous"
      BY <1>1, <3>3, <3>5
    <3>9. RowsKnow
      BY <3>7, RowsStillKnow
    <3>10. PICK q \in Records : q = r
      BY <3>2
    <3> HIDE DEF r
    <3>11. record' = [record EXCEPT ![q].state = "gone"]
      BY <3>1, <3>10 DEF r
    <3>12. record'[q].from = record[q].from
      BY <1>1, <3>11 DEF TypeOK, RecordState
    <3>13. index[q] # "ids" => Clear(q)'
      BY <2>1, <3>2, <3>7, <3>10, <3>12 DEF PointsInv, Clear
    <3>14. CompactorKnows(c)
      BY <3>8, <3>10, <3>13 DEF CompactorKnows
    <3> QED
      BY <3>9, <3>14
  <2> QED
    BY <2>2, <2>3
<1>12. CASE MarkVacuouslyDeleted(c)
  <2>1. k.rec \in Archived /\ Clear(k.rec)
    BY <1>1, <1>12 DEF MarkVacuouslyDeleted, Marking, PointsInv
  <2>2. RowsKnow
    BY <1>4, <1>12, <2>1, MarkedKnows DEF MarkVacuouslyDeleted
  <2> QED
    BY <1>2, <1>3, <1>12, <2>2 DEF MarkVacuouslyDeleted, CompactEnd
<1>13. CASE CompactDeletePoints(c)
  <2>1. RowsKnow
    BY <1>4, <1>13 DEF CompactDeletePoints, rows
  <2>2. PICK ok \in BOOLEAN : VectorCall(points \ {k.rec}, ok)
                                /\ CompactTo(c, IF ok THEN "markDeleted" ELSE "markPending")
    BY <1>13 DEF CompactDeletePoints
  <2>3. compactor'[c].rec = k.rec /\ compactor'[c].pc = IF ok THEN "markDeleted" ELSE "markPending"
    BY <1>1, <2>2 DEF CompactTo, CompactorState
  <2>4. CompactorKnows(c)
    BY <2>2, <2>3 DEF CompactorKnows, VectorCall, Clear
  <2> QED
    BY <2>1, <2>4
<1>14. CASE MarkDeleted(c)
  <2>1. k.rec \in Archived /\ Clear(k.rec)
    BY <1>1, <1>14 DEF MarkDeleted, Marking, PointsInv
  <2>2. RowsKnow
    BY <1>4, <1>14, <2>1, MarkedKnows DEF MarkDeleted
  <2> QED
    BY <1>3, <1>14, <2>2 DEF MarkDeleted
<1>15. CASE MarkPending(c)
  <2>1. k.rec \in Archived
    BY <1>1, <1>15 DEF MarkPending, Marking
  <2>2. RowsKnow
    BY <1>4, <1>15, <2>1, MarkedKnows DEF MarkPending
  <2> QED
    BY <1>3, <1>15, <2>2 DEF MarkPending
<1>16. CASE CompleteRun(c)
  BY <1>2, <1>4, <1>16 DEF CompleteRun, CompactEnd
<1> QED
  BY <1>7, <1>8, <1>9, <1>10, <1>11, <1>12, <1>13, <1>14, <1>15, <1>16 DEF CompactorStep

LEMMA SweepWithKnows ==
  ASSUME PointsInv, NEW s \in Sweepers, NEW todo, NEW failing, SweepWith(s, todo, failing),
         \A r \in todo : Clear(r)'
  PROVE  SweeperKnows(s)
<1>1. sweeper[s] \in SweeperState /\ DOMAIN sweeper = Sweepers
  BY PointsTyped DEF TypeOK
<1>2. CASE todo = {} /\ failing = {}
  BY <1>1, <1>2 DEF SweepWith, SweeperKnows, IdleSweeper
<1>3. CASE ~ (todo = {} /\ failing = {})
  <2>1. sweeper'[s] = [sweeper[s] EXCEPT !.pc = "mark", !.todo = todo, !.failing = failing]
    BY <1>1, <1>3 DEF SweepWith
  <2>2. sweeper'[s].todo = todo
    BY <1>1, <2>1 DEF SweeperState
  <2> QED
    BY <2>2 DEF SweeperKnows
<1> QED
  BY <1>2, <1>3

LEMMA SweeperLeavesOthers ==
  ASSUME TypeOK, NEW s \in Sweepers, ClaimCleanup(s) \/ SweeperStep(s)
  PROVE  \A t \in Sweepers \ {s} : sweeper'[t] = sweeper[t]
<1>1. DOMAIN sweeper = Sweepers
  BY DEF TypeOK
<1>2. ASSUME \E k : sweeper' = [sweeper EXCEPT ![s] = k]
      PROVE  \A t \in Sweepers \ {s} : sweeper'[t] = sweeper[t]
  BY <1>1, <1>2
<1> QED
  BY <1>2 DEF ClaimCleanup, SweeperStep, SweepDeletePoints, SweepMarkDeleted, MarkRowFailure,
              SweepWith

LEMMA SweeperKnowsOn ==
  ASSUME PointsInv, ClearOn, NEW s \in Sweepers, ClaimCleanup(s) \/ SweeperStep(s)
  PROVE  SweeperKnows(s) /\ RowsKnow /\ compactor' = compactor
<1> DEFINE k == sweeper[s]
<1>1. /\ TypeOK /\ k \in SweeperState /\ DOMAIN sweeper = Sweepers
      /\ k.todo \subseteq Archived /\ k.failing \subseteq Archived /\ Archived \subseteq Records
  BY PointsTyped DEF OutboxInv, TypeOK, Swept, Archived
<1>2. compactor' = compactor
  BY DEF ClaimCleanup, SweeperStep, SweepDeletePoints, SweepMarkDeleted, MarkRowFailure, rows
<1>3. k.pc = "mark" => \A r \in k.todo : Clear(r) /\ Clear(r)'
  BY <1>1 DEF PointsInv, ClearOn
<1>4. CASE ClaimCleanup(s)
  <2>1. PICK batch \in SUBSET Due :
          /\ archive' = [r \in Records |-> IF r \in batch
                           THEN [archive[r] EXCEPT !.retry = "later"] ELSE archive[r]]
          /\ sweeper' = [sweeper EXCEPT ![s] =
                [pc |-> "delete", todo |-> batch, failing |-> {},
                 tries |-> [r \in Records |-> IF r \in batch THEN archive[r].attempts ELSE 0]]]
    BY <1>4 DEF ClaimCleanup
  <2>2. sweeper'[s].pc = "delete"
    BY <1>1, <2>1
  <2>3. \A r \in Records : archive'[r].q = archive[r].q
    BY <1>1, <2>1 DEF TypeOK, ArchiveState
  <2> QED
    BY <1>2, <2>2, <2>3, RowsStillKnow DEF SweeperKnows
<1>5. CASE SweepDeletePoints(s)
  <2>1. RowsKnow
    BY <1>5, RowsStillKnow DEF SweepDeletePoints, rows
  <2>2. PICK ok \in BOOLEAN :
          /\ VectorCall(points \ k.todo, ok)
          /\ IF ok THEN SweepWith(s, k.todo, {}) ELSE SweepWith(s, {}, k.todo)
    BY <1>5 DEF SweepDeletePoints
  <2>3. CASE ok
    <3>1. \A r \in k.todo : Clear(r)'
      BY <2>2, <2>3 DEF VectorCall, Clear
    <3>2. SweeperKnows(s)
      BY <2>2, <2>3, <3>1, SweepWithKnows
    <3> QED
      BY <1>2, <2>1, <3>2
  <2>4. CASE ~ ok
    BY <1>2, <2>1, <2>2, <2>4, SweepWithKnows
  <2> QED
    BY <2>3, <2>4
<1>6. CASE SweepMarkDeleted(s)
  <2>1. k.pc = "mark"
    BY <1>6 DEF SweepMarkDeleted
  <2>2. PICK r \in k.todo :
          \/ MarkQdrantStatus(r, "deleted") /\ SweepWith(s, k.todo \ {r}, {})
          \/ SweepWith(s, k.todo \ {r}, {r}) /\ UNCHANGED archive
    BY <1>6 DEF SweepMarkDeleted
  <2>3. r \in Archived /\ Clear(r) /\ \A t \in k.todo \ {r} : Clear(t)'
    BY <1>1, <1>3, <2>1
  <2>4. SweeperKnows(s)
    BY <2>2, <2>3, SweepWithKnows
  <2>5. RowsKnow
    BY <2>2, <2>3, MarkedKnows, RowsStillKnow
  <2> QED
    BY <1>2, <2>4, <2>5
<1>7. CASE MarkRowFailure(s)
  <2>1. k.pc = "mark"
    BY <1>7 DEF MarkRowFailure
  <2>2. PICK r \in k.failing :
          /\ \/ MarkQdrantStatus(r, IF GivesUp(s, r) THEN "failed" ELSE "pending")
             \/ UNCHANGED archive
          /\ SweepWith(s, k.todo, k.failing \ {r})
    BY <1>7 DEF MarkRowFailure
  <2>3. r \in Archived /\ \A t \in k.todo : Clear(t)'
    BY <1>1, <1>3, <2>1
  <2>4. SweeperKnows(s)
    BY <2>2, <2>3, SweepWithKnows
  <2>5. RowsKnow
    <3>1. archive' = archive \/ \E q \in {"pending", "failed"} : MarkQdrantStatus(r, q)
      BY <2>2
    <3> QED
      BY <2>3, <3>1, MarkedKnows, RowsStillKnow
  <2> QED
    BY <1>2, <2>4, <2>5
<1> QED
  BY <1>4, <1>5, <1>6, <1>7 DEF SweeperStep

-----------------------------------------------------------------------------
\* What is needed of a step.
LEMMA PointsKept ==
  ASSUME PointsInv, [Next]_vars, ClearOn, RowsKnow,
         \A r \in Live' : index'[r] # "ids" => Clear(r)',
         \A c \in Compactors : compactor'[c] = compactor[c] \/ CompactorKnows(c),
         \A s \in Sweepers : sweeper'[s] = sweeper[s] \/ SweeperKnows(s)
  PROVE  PointsInv'
<1>1. FreshInv'
  BY FreshNext DEF PointsInv
<1>2. OutboxInv
  BY PointsTyped
<1>3. ASSUME NEW c \in Compactors, Vacuous(c)'  PROVE Clear(compactor[c].rec)'
  <2>1. CASE compactor'[c] = compactor[c]
    <3>1. PICK r : r = compactor[c].rec
      OBVIOUS
    <3>2. r \in Archived /\ r \in Records /\ Clear(r)
      BY <1>2, <1>3, <2>1, <3>1 DEF PointsInv, OutboxInv, Held, Marking, Vacuous, Archived
    <3>3. Clear(r)'
      BY <3>2 DEF ClearOn
    <3> QED
      BY <2>1, <3>1, <3>3
  <2> QED
    BY <1>3, <2>1 DEF CompactorKnows
<1>4. ASSUME NEW s \in Sweepers, sweeper'[s].pc = "mark", NEW r \in sweeper'[s].todo
      PROVE  Clear(r)'
  <2>1. CASE sweeper'[s] = sweeper[s]
    <3>1. r \in Archived /\ r \in Records /\ Clear(r)
      BY <1>2, <1>4, <2>1 DEF PointsInv, OutboxInv, Swept, Archived
    <3> QED
      BY <3>1 DEF ClearOn
  <2> QED
    BY <1>4, <2>1 DEF SweeperKnows
<1> QED
  BY <1>1, <1>3, <1>4 DEF PointsInv, RowsKnow

\* Compactors, sweepers, editors, time and crashes only take points away.
LEMMA OthersClear ==
  ASSUME PointsInv, [Next]_vars, OthersStep
  PROVE  ClearOn /\ \A r \in Live' : index'[r] # "ids" => Clear(r)'
<1>1. OutboxInv /\ OutboxInv'
  BY PointsTyped, OutboxNext
<1>2. ASSUME NEW r \in Records, r \in Archived \/ r \in Live', Clear(r)  PROVE Clear(r)'
  <2>1. archive'[r].hasPoints = archive[r].hasPoints
    BY <1>1, <1>2, IdsKept DEF OutboxInv, Live
  <2> QED
    BY <1>2, <2>1 DEF OthersStep, Clear
<1>3. ClearOn
  BY <1>2 DEF ClearOn
<1>4. ASSUME NEW r \in Live', index'[r] # "ids"  PROVE Clear(r)'
  <2>1. r \in Records
    BY DEF Live
  <2>2. r \in Live /\ index[r] # "ids"
    BY <1>4, <2>1 DEF OthersStep
  <2> QED
    BY <1>2, <2>1, <2>2 DEF PointsInv
<1> QED
  BY <1>3, <1>4

\* Restores only add points to a copy whose row, if there is one, lists none.
LEMMA RestoreClear ==
  ASSUME PointsInv, [Next]_vars, NEW u \in Unarchivers,
         FindArchiveByIds(u) \/ UnarchiverStep(u),
         \/ GoesBy(u) \/ (\E r \in Records : MakesCopy(u, r))
         \/ WorksOn(u) \/ MarksRow(u) \/ GivesCopyUp(u)
  PROVE  ClearOn /\ RowsKnow /\ \A r \in Live' : index'[r] # "ids" => Clear(r)'
<1>1. /\ CopyInv /\ OutboxInv /\ OutboxInv' /\ TypeOK /\ FreshInv /\ FreshInv'
      /\ Archived \subseteq Records /\ NoRecord \notin Records
  BY PointsTyped, OutboxNext, FreshNext DEF PointsInv, Archived, NoRecord, Records
<1>2. \A r \in Records : archive'[r].q = archive[r].q /\ (r \in Archived' <=> r \in Archived)
  BY DEF GoesBy, MakesCopy, WorksOn, MarksRow, GivesCopyUp, Frame, Archived
<1>3. \A r \in Records : archive'[r].hasPoints = archive[r].hasPoints
  BY <1>1, <1>2, IdsKept DEF OutboxInv, Live
<1>4. ASSUME NEW q, Frame(u, q), NEW r \in Records \ {q}
      PROVE  Clear(r)' = Clear(r) /\ record'[r] = record[r] /\ index'[r] = index[r]
  <2>1. record'[r] = record[r] /\ index'[r] = index[r] /\ (r \in points' <=> r \in points)
    BY <1>4 DEF Frame
  <2> QED
    BY <1>3, <2>1 DEF Clear
<1>5. ASSUME NEW q, Frame(u, q),
             q \in Records => (Clear(q) => Clear(q)') /\ (q \in Live' => Clear(q)')
      PROVE  ClearOn /\ RowsKnow /\ \A r \in Live' : index'[r] # "ids" => Clear(r)'
  <2>1. \A r \in Records : Clear(r) => Clear(r)'
    BY <1>4, <1>5
  <2>2. RowsKnow
    BY <1>2, <2>1 DEF RowsKnow, PointsInv
  <2>3. ASSUME NEW r \in Live', index'[r] # "ids"  PROVE Clear(r)'
    <3>1. r \in Records /\ record'[r].state = "live"
      BY DEF Live
    <3>2. CASE r # q
      <4>1. r \in Live /\ index[r] # "ids"
        BY <1>4, <1>5, <2>3, <3>1, <3>2 DEF Live
      <4> QED
        BY <2>1, <3>1, <4>1 DEF PointsInv
    <3> QED
      BY <1>5, <3>1, <3>2
  <2> QED
    BY <2>1, <2>2, <2>3 DEF ClearOn
<1>6. CASE GoesBy(u)
  BY <1>1, <1>5, <1>6 DEF GoesBy
<1>7. ASSUME NEW r \in Records, MakesCopy(u, r)
      PROVE  ClearOn /\ RowsKnow /\ \A q \in Live' : index'[q] # "ids" => Clear(q)'
  <2>1. record'[r].from \in Records /\ record[r].state = "none" /\ Frame(u, r)
    BY <1>1, <1>7, MakesCopyKeeps DEF MakesCopy
  <2>2. r \notin Archived
    BY <1>1, <2>1 DEF OutboxInv
  <2>3. Clear(r)'
    BY <1>1, <1>3, <2>1, <2>2 DEF FreshInv, Clear
  <2> QED
    BY <1>5, <2>1, <2>3
<1>8. CASE WorksOn(u) \/ MarksRow(u) \/ GivesCopyUp(u)
  <2>1. Restoring(u)
    BY <1>8 DEF WorksOn, MarksRow, GivesCopyUp, Restoring
  <2>2. PICK r \in Records : r = unarchiver[u].rec
    BY <1>1, <2>1, OwnCopy
  <2>3. Frame(u, r) /\ record'[r].from = record[r].from
    BY <1>8, <2>2 DEF WorksOn, MarksRow, GivesCopyUp
  <2>4. record[r].from \in Records
    BY <1>1, <2>1, <2>2 DEF CopyInv, CopyOK
  <2>5. UnarchiverStep(u) /\ unarchiver[u].pc # "next"
    BY <2>1 DEF FindArchiveByIds, Restoring
  <2>6. r \in points' => r \in points \/ ~archive[r].hasPoints
    BY <1>1, <2>2, <2>5, EarlyOn DEF FreshInv
  <2>7. Clear(r) => Clear(r)'
    BY <1>1, <1>3, <2>3, <2>4, <2>6 DEF Clear
  <2>8. ASSUME r \in Live'  PROVE Clear(r)'
    <3>1. r \notin Archived'
      BY <1>1, <2>8 DEF OutboxInv, Live
    <3>2. ~archive'[r].hasPoints
      BY <1>1, <3>1 DEF FreshInv
    <3> QED
      BY <1>1, <2>3, <2>4, <3>2 DEF Clear
  <2> QED
    BY <1>5, <2>3, <2>7, <2>8
<1> QED
  BY <1>6, <1>7, <1>8

LEMMA PointsNext ==
  ASSUME PointsInv, [Next]_vars
  PROVE  PointsInv'
<1>1. TypeOK /\ CopyInv /\ OutboxInv /\ \A a \in Records : archive[a].unarchived => a \in Archived
  BY PointsTyped DEF CopyInv
<1>2. ASSUME OthersStep, RowsKnow,
             \A c \in Compactors : compactor'[c] = compactor[c] \/ CompactorKnows(c),
             \A s \in Sweepers : sweeper'[s] = sweeper[s] \/ SweeperKnows(s)
      PROVE  PointsInv'
  BY <1>2, OthersClear, PointsKept
<1>3. ASSUME NEW c \in Compactors, ListMemory(c) \/ CompactorStep(c)  PROVE PointsInv'
  <2>1. OthersStep
    BY <1>1, <1>3, CompactorIsOther
  <2>2. CompactorKnows(c) /\ RowsKnow
    BY <1>3, <2>1, OthersClear, CompactorKnowsOn
  <2>3. sweeper' = sweeper
    BY <1>3 DEF ListMemory, CompactorStep, StartCompaction, CountRecentApplyRuns,
       CreateCompactionRun, ApplyCompactionRecord, MarkVacuouslyDeleted, CompactDeletePoints,
       MarkDeleted, MarkPending, CompleteRun
  <2> QED
    BY <1>1, <1>2, <1>3, <2>1, <2>2, <2>3, CompactorLeavesOthers
<1>4. ASSUME NEW s \in Sweepers, ClaimCleanup(s) \/ SweeperStep(s)  PROVE PointsInv'
  <2>1. OthersStep
    BY <1>1, <1>4, SweeperIsOther
  <2>2. SweeperKnows(s) /\ RowsKnow /\ compactor' = compactor
    BY <1>4, <2>1, OthersClear, SweeperKnowsOn
  <2> QED
    BY <1>1, <1>2, <1>4, <2>1, <2>2, SweeperLeavesOthers
<1>5. ASSUME OthersStep, \A r \in Records : archive'[r].q = archive[r].q  PROVE RowsKnow
  BY <1>5, OthersClear, RowsStillKnow
<1>6. ASSUME NEW e \in Editors, (\E r \in Records : BeginUpdate(e, r)) \/ CommitUpdate(e)
      PROVE  PointsInv'
  <2>1. OthersStep
    BY <1>1, <1>6, EditorIsOther
  <2>2. archive' = archive /\ compactor' = compactor /\ sweeper' = sweeper
    BY <1>6 DEF BeginUpdate, CommitUpdate, rows
  <2> QED
    BY <1>2, <1>5, <2>1, <2>2
<1>7. CASE (\E r \in Records : RetryTimeReached(r)) \/ (\E u \in Runs : HourPasses(u))
              \/ Crash \/ UNCHANGED vars
  <2>1. OthersStep
    BY <1>1, <1>7, TimeIsOther
  <2>2. \A t \in Records : archive'[t].q = archive[t].q
    <3>1. CASE \E r \in Records : RetryTimeReached(r)
      BY <1>1, <3>1 DEF RetryTimeReached, TypeOK, ArchiveState
    <3> QED
      BY <1>7, <3>1 DEF HourPasses, Crash, rows, vars
  <2>3. \A c \in Compactors : compactor'[c] \in {compactor[c], IdleCompactor}
    BY <1>1, <1>7 DEF RetryTimeReached, HourPasses, Crash, CompactEnd, actors, vars, TypeOK
  <2>4. \A s \in Sweepers : sweeper'[s] \in {sweeper[s], IdleSweeper}
    BY <1>1, <1>7 DEF RetryTimeReached, HourPasses, Crash, actors, vars, TypeOK
  <2>5. \A c \in Compactors : compactor'[c] = IdleCompactor => CompactorKnows(c)
    BY DEF CompactorKnows, Vacuous, IdleCompactor
  <2>6. \A s \in Sweepers : sweeper'[s] = IdleSweeper => SweeperKnows(s)
    BY DEF SweeperKnows, IdleSweeper
  <2> QED
    BY <1>2, <1>5, <2>1, <2>2, <2>3, <2>4, <2>5, <2>6
<1>8. ASSUME NEW u \in Unarchivers, FindArchiveByIds(u) \/ UnarchiverStep(u),
             \/ GoesBy(u) \/ (\E r \in Records : MakesCopy(u, r))
             \/ WorksOn(u) \/ MarksRow(u) \/ GivesCopyUp(u)
      PROVE  PointsInv'
  <2>1. compactor' = compactor /\ sweeper' = sweeper
    BY <1>8
       DEF UnarchiverStep, FindArchiveByIds, RestoreToCanonical, RestoreInsertChunks, RestoreEmbed,
           RestoreUpsert, RestorePointIds, MarkUnarchived, UndoPoints, UndoRecord
  <2> QED
    BY <1>8, <2>1, RestoreClear, PointsKept
<1>9. CASE \E u \in Unarchivers : FindArchiveByIds(u) \/ UnarchiverStep(u)
  BY <1>1, <1>2, <1>8, <1>9, FindGoesBy, CanonicalMakesCopy, CopySteps DEF UnarchiverStep,
     RestoreInsertChunks, RestoreEmbed, RestoreUpsert, RestorePointIds, MarkUnarchived,
     UndoPoints, UndoRecord
<1> QED
  BY <1>3, <1>4, <1>6, <1>7, <1>9 DEF Next

\* An archive row that says its points are deleted is right, whichever of the
\* sweepers and the runs marked it, however late, and whatever is restored:
\* except a row that took a copy before its restore had written the point ids.
THEOREM DeletedIsTrue == Spec => []DeletedHasNoPoints
<1>1. PointsInv => DeletedHasNoPoints
  BY DEF PointsInv, DeletedHasNoPoints, Clear
<1>2. PointsInv /\ [Next]_vars => PointsInv'
  BY PointsNext
<1> QED
  BY <1>1, <1>2, PointsInit, PTL DEF Spec

-----------------------------------------------------------------------------
(***************************************************************************)
(* What a failed restore leaves, when neither the process stops nor a step *)
(* of the compensation fails.                                              *)
(***************************************************************************)
LEMMA LeftoverNext ==
  ASSUME Faults \cap {"crash", "undo"} = {}, LeftoverInv, [Next]_vars
  PROVE  LeftoverInv'
<1> DEFINE Left(q) == record[q].from # NoRecord /\ ~RestoringIn(q)
                        /\ ~archive[record[q].from].unarchived => q \notin Live
<1>1. CopyInv /\ OutboxInv' /\ CopyInv' /\ \A q \in Records : Left(q)
  BY CopyNext, OutboxNext DEF LeftoverInv, CopyInv
<1>2. record \in [Records -> RecordState] /\ archive \in [Records -> ArchiveState]
  BY <1>1 DEF CopyInv, OutboxInv, TypeOK
<1>3. ASSUME OthersStep, NEW q \in Records  PROVE Left(q)'
  <2>1. /\ unarchiver' = unarchiver
    BY <1>1, <1>3 DEF OthersStep, CopyInv, OutboxInv, TypeOK
  <2>2. RestoringIn(q)' <=> RestoringIn(q)
    BY <2>1 DEF RestoringIn
  <2>3. record'[q].from = record[q].from /\ record[q].from \in Records \cup {NoRecord}
    BY <1>2, <1>3 DEF OthersStep, RecordState
  <2> QED
    BY <1>1, <1>3, <2>2, <2>3 DEF OthersStep
<1>4. ASSUME NEW r, NEW u \in Unarchivers, Frame(u, r), NEW q \in Records \ {r},
             RestoringIn(q)' <=> RestoringIn(q),
             \A a \in Records : archive[a].unarchived => archive'[a].unarchived
      PROVE  Left(q)'
  <2>1. record'[q] = record[q] /\ record[q].from \in Records \cup {NoRecord}
    BY <1>2, <1>4 DEF Frame, RecordState
  <2> QED
    BY <1>1, <1>4, <2>1 DEF Live
<1>5. ASSUME NEW u \in Unarchivers, GoesBy(u), NEW q \in Records  PROVE Left(q)'
  BY <1>1, <1>4, <1>5, GoesByKeeps DEF GoesBy, NoRecord, Records
<1>6. ASSUME NEW u \in Unarchivers, NEW r \in Records, MakesCopy(u, r), NEW q \in Records
      PROVE  Left(q)'
  BY <1>1, <1>4, <1>6, MakesCopyKeeps DEF MakesCopy
<1>7. ASSUME NEW u \in Unarchivers, WorksOn(u), NEW q \in Records  PROVE Left(q)'
  <2>1. (RestoringIn(q)' <=> RestoringIn(q)) /\ UNCHANGED <<record, archive>>
    BY <1>1, <1>7, WorksOnKeeps DEF WorksOn
  <2> QED
    BY <1>1, <2>1 DEF Live
<1>8. ASSUME NEW u \in Unarchivers, MarksRow(u), NEW q \in Records  PROVE Left(q)'
  <2>1. PICK r \in Records : /\ r = unarchiver[u].rec /\ Frame(u, r) /\ record' = record
                             /\ \A p \in Records \ {r} : RestoringIn(p)' <=> RestoringIn(p)
                             /\ archive'[record[r].from].unarchived
                             /\ \A a \in Records : archive[a].unarchived => archive'[a].unarchived
    BY <1>1, <1>8, MarksRowKeeps DEF MarksRow
  <2> QED
    BY <1>4, <2>1
<1>9. ASSUME NEW u \in Unarchivers, GivesCopyUp(u), NEW q \in Records  PROVE Left(q)'
  <2>1. PICK r \in Records : /\ r = unarchiver[u].rec /\ Frame(u, r) /\ archive' = archive
                             /\ \A p \in Records \ {r} : RestoringIn(p)' <=> RestoringIn(p)
                             /\ record'[r].state = "gone"
    BY <1>1, <1>9, GivesCopyUpKeeps DEF GivesCopyUp
  <2> QED
    BY <1>4, <2>1 DEF Live
<1>10. \A q \in Records : Left(q)'
  BY <1>1, <1>3, <1>5, <1>6, <1>7, <1>8, <1>9, RestoreSteps
<1> QED
  BY <1>1, <1>10 DEF LeftoverInv

LEMMA LeftoverInit == Init => LeftoverInv
<1> SUFFICES ASSUME Init  PROVE LeftoverInv
  OBVIOUS
<1>1. \A r \in Records : record[r].from = NoRecord
  BY DEF Init
<1> QED
  BY <1>1, CopyInit DEF LeftoverInv

\* A restore that failed leaves no record, an upsert that took effect and threw
\* included: only a stopped process or a failed compensation leaves one.
THEOREM NoCopyLeft ==
  ASSUME Faults \cap {"crash", "undo"} = {}
  PROVE  Spec => [](\A r \in Records :
            record[r].from # NoRecord /\ ~RestoringIn(r) /\ ~archive[record[r].from].unarchived
                => r \notin Live)
<1>1. LeftoverInv /\ [Next]_vars => LeftoverInv'
  BY LeftoverNext
<1>2. LeftoverInv => \A r \in Records :
          record[r].from # NoRecord /\ ~RestoringIn(r) /\ ~archive[record[r].from].unarchived
              => r \notin Live
  BY DEF LeftoverInv
<1> QED
  BY <1>1, <1>2, LeftoverInit, PTL DEF Spec

\* Where every exception means that nothing was done, a restore knows of its points.
LEMMA PointsKnownOn ==
  ASSUME Faults \cap {"undo", "lostAck"} = {}, CopyInv, \A r \in points : record[r].state # "none",
         NEW u \in Unarchivers, PointsKnown(u), FindArchiveByIds(u) \/ UnarchiverStep(u)
  PROVE  PointsKnown(u)'
<1> DEFINE k == unarchiver[u]
<1>1. /\ TypeOK /\ k \in UnarchiverState /\ DOMAIN unarchiver = Unarchivers
  BY DEF CopyInv, OutboxInv, TypeOK
<1>2. CASE FindArchiveByIds(u)
  BY <1>2, FindGoesBy DEF GoesBy, Over, Restoring, PointsKnown
<1>3. CASE RestoreToCanonical(u)
  <2>1. CASE GoesBy(u)
    BY <2>1 DEF GoesBy, Over, Restoring, PointsKnown
  <2>2. CASE \E r \in Records : MakesCopy(u, r)
    <3>1. PICK r \in Records : MakesCopy(u, r)
      BY <2>2
    <3>2. unarchiver'[u].pc = "insert" /\ unarchiver'[u].rec = r
            /\ unarchiver'[u].upserted = k.upserted
      BY <1>1, <3>1 DEF MakesCopy, UnarchiverState
    <3> QED
      BY <3>1, <3>2 DEF MakesCopy, PointsKnown
  <2> QED
    BY <1>3, <2>1, <2>2, CanonicalMakesCopy
<1>4. ASSUME NEW pc, RestoreTo(u, pc), points' \subseteq points,
              pc \in {"embed", "upsert"} => k.pc \in {"insert", "embed"},
              pc = "mark" => k.pc = "pointIds",
              pc = "undoRecord" => k.rec \notin points',
              pc \notin {"idle", "next", "insert", "pointIds"}
       PROVE  PointsKnown(u)'
  <2>1. unarchiver'[u].pc = pc /\ unarchiver'[u].rec = k.rec /\ unarchiver'[u].upserted = k.upserted
    BY <1>1, <1>4, RestoreToMoves
  <2> QED
    BY <1>4, <2>1 DEF PointsKnown
<1>5. ASSUME RestoreThrow(u), points' = points, k.pc \in {"insert", "embed", "upsert", "pointIds", "mark"}
      PROVE  PointsKnown(u)'
  <2>1. CASE k.upserted
    BY <1>5, <1>4, <2>1 DEF RestoreThrow
  <2>2. CASE ~ k.upserted
    BY <1>5, <1>4, <2>2 DEF RestoreThrow, PointsKnown
  <2> QED
    BY <2>1, <2>2
<1>6. CASE RestoreInsertChunks(u)
  BY <1>5, <1>6, <1>4 DEF RestoreInsertChunks
<1>7. CASE RestoreEmbed(u)
  BY <1>5, <1>7, <1>4 DEF RestoreEmbed
<1>8. CASE RestoreUpsert(u)
  <2>1. CASE unarchiver' = [unarchiver EXCEPT ![u] = [@ EXCEPT !.pc = "pointIds", !.upserted = TRUE]]
    <3>1. unarchiver'[u].pc = "pointIds" /\ unarchiver'[u].upserted = TRUE
      BY <1>1, <2>1 DEF UnarchiverState
    <3> QED
      BY <3>1 DEF PointsKnown
  <2>2. CASE RestoreThrow(u) /\ points' = points
    BY <1>5, <1>8, <2>2 DEF RestoreUpsert
  <2> QED
    BY <1>8, <2>1, <2>2 DEF RestoreUpsert, VectorCall
<1>9. CASE RestorePointIds(u)
  BY <1>5, <1>9, <1>4 DEF RestorePointIds
<1>10. CASE MarkUnarchived(u)
  <2>1. CASE RestoreNext(u)
    BY <1>1, <1>10, <2>1, RestoreNextEnds DEF MarkUnarchived, Over, Restoring, PointsKnown
  <2> QED
    BY <1>5, <1>10, <2>1 DEF MarkUnarchived
<1>11. CASE UndoPoints(u)
  <2>1. RestoreTo(u, "undoRecord") /\ points' = points \ {k.rec}
    BY <1>11 DEF UndoPoints
  <2>2. points' \subseteq points /\ k.rec \notin points'
    BY <2>1
  <2> QED
    BY <1>4, <2>1, <2>2
<1>12. CASE UndoRecord(u)
  BY <1>1, <1>12, RestoreNextEnds DEF UndoRecord, Over, Restoring, PointsKnown
<1> QED
  BY <1>2, <1>3, <1>6, <1>7, <1>8, <1>9, <1>10, <1>11, <1>12 DEF UnarchiverStep

LEMMA FailedNext ==
  ASSUME Faults \cap {"crash", "undo", "lostAck"} = {}, FailedInv, [Next]_vars
  PROVE  FailedInv'
<1> DEFINE Left(q) == record[q].from # NoRecord /\ ~RestoringIn(q)
                        /\ ~archive[record[q].from].unarchived => q \notin points
<1>1. /\ CopyInv /\ OutboxInv' /\ CopyInv' /\ \A q \in Records : Left(q)
      /\ \A r \in points : record[r].state # "none"
      /\ \A u \in Unarchivers : PointsKnown(u)
  BY CopyNext, OutboxNext DEF FailedInv, LeftoverInv, CopyInv
<1>2. LeftoverInv'
  BY LeftoverNext DEF FailedInv
<1>3. /\ record \in [Records -> RecordState] /\ archive \in [Records -> ArchiveState]
      /\ points \subseteq Records /\ points' \subseteq Records
      /\ DOMAIN unarchiver = Unarchivers /\ DOMAIN unarchiver' = Unarchivers
      /\ NoRecord \notin Records
  BY <1>1 DEF CopyInv, OutboxInv, TypeOK, NoRecord, Records
<1>4. ASSUME OthersStep
      PROVE  /\ \A r \in points' : record'[r].state # "none"
             /\ \A u \in Unarchivers : PointsKnown(u)'
             /\ \A q \in Records : Left(q)'
  <2>1. \A u \in Unarchivers : unarchiver'[u] = unarchiver[u]
    BY <1>4 DEF OthersStep
  <2>2. \A q \in Records : RestoringIn(q)' <=> RestoringIn(q)
    BY <2>1 DEF RestoringIn
  <2>3. \A q \in Records : /\ record'[q].from = record[q].from
                           /\ record[q].from \in Records \cup {NoRecord}
    BY <1>3, <1>4 DEF OthersStep, RecordState
  <2>4. \A q \in Records : Left(q)'
    BY <1>1, <1>4, <2>2, <2>3 DEF OthersStep
  <2>5. \A u \in Unarchivers : PointsKnown(u)'
    <3>1. points' \subseteq points
      BY <1>3, <1>4 DEF OthersStep
    <3> QED
      BY <1>1, <2>1, <3>1 DEF PointsKnown
  <2> QED
    BY <1>1, <1>3, <1>4, <2>4, <2>5 DEF OthersStep
<1>5. ASSUME NEW u \in Unarchivers,
             \/ GoesBy(u) \/ (\E r \in Records : MakesCopy(u, r))
             \/ WorksOn(u) \/ MarksRow(u) \/ GivesCopyUp(u)
      PROVE  /\ \A r \in points' : record'[r].state # "none"
             /\ \A v \in Unarchivers \ {u} : PointsKnown(v)'
             /\ \A q \in Records : Left(q)'
  <2>1. ASSUME NEW r \in Records \cup {NoRecord}, Frame(u, r),
               \A q \in Records \ {r} : RestoringIn(q)' <=> RestoringIn(q),
               \A a \in Records : archive[a].unarchived => archive'[a].unarchived,
               r \in points' => record'[r].state # "none",
               r \in Records => Left(r)',
               \A v \in Unarchivers \ {u} : unarchiver[v].rec # r \/ r = NoRecord
        PROVE  /\ \A q \in points' : record'[q].state # "none"
               /\ \A v \in Unarchivers \ {u} : PointsKnown(v)'
               /\ \A q \in Records : Left(q)'
    <3>1. \A q \in Records \ {r} : /\ record'[q] = record[q] /\ (q \in points' <=> q \in points)
                                   /\ record[q].from \in Records \cup {NoRecord}
      BY <1>3, <2>1 DEF Frame, RecordState
    <3>2. \A q \in points' : record'[q].state # "none"
      BY <1>1, <1>3, <2>1, <3>1
    <3>3. \A q \in Records : Left(q)'
      BY <1>1, <2>1, <3>1
    <3>4. ASSUME NEW v \in Unarchivers \ {u}  PROVE PointsKnown(v)'
      <4>1. unarchiver'[v] = unarchiver[v] /\ PointsKnown(v)
        BY <1>1, <2>1 DEF Frame
      <4>2. unarchiver[v].rec \in points' => unarchiver[v].rec \in points
        BY <1>3, <2>1, <3>1
      <4> QED
        BY <4>1, <4>2 DEF PointsKnown
    <3> QED
      BY <3>2, <3>3, <3>4
  <2>2. CASE GoesBy(u)
    BY <1>1, <1>3, <2>1, <2>2, GoesByKeeps DEF GoesBy, NoRecord, Records
  <2>3. ASSUME NEW r \in Records, MakesCopy(u, r)
        PROVE  /\ \A q \in points' : record'[q].state # "none"
               /\ \A v \in Unarchivers \ {u} : PointsKnown(v)'
               /\ \A q \in Records : Left(q)'
    <3>1. /\ Frame(u, r) /\ archive' = archive /\ record'[r].state # "none"
          /\ RestoringIn(r)' /\ \A q \in Records \ {r} : RestoringIn(q)' <=> RestoringIn(q)
      BY <1>1, <2>3, MakesCopyKeeps DEF MakesCopy
    <3>2. Left(r)' /\ \A v \in Unarchivers \ {u} : unarchiver[v].rec # r
      BY <1>1, <2>3, <3>1, FreshCopy DEF MakesCopy
    <3> QED
      BY <2>1, <3>1, <3>2
  <2>4. CASE WorksOn(u) \/ MarksRow(u) \/ GivesCopyUp(u)
    <3>1. PICK r \in Records : /\ unarchiver[u].rec = r /\ RestoringIn(r)
                               /\ \A v \in Unarchivers \ {u} : unarchiver[v].rec # r
      BY <1>1, <2>4, OwnCopy DEF WorksOn, MarksRow, GivesCopyUp, Restoring
    <3>2. record[r].state # "none"
      BY <1>1, <3>1, FreshCopy
    <3>3. CASE WorksOn(u)
      <4>1. /\ Frame(u, r) /\ UNCHANGED <<record, archive>>
            /\ \A q \in Records : RestoringIn(q)' <=> RestoringIn(q)
        BY <1>1, <3>1, <3>3, WorksOnKeeps DEF WorksOn
      <4>2. Left(r)'
        BY <3>1, <4>1
      <4> QED
        BY <2>1, <3>1, <3>2, <4>1, <4>2
    <3>4. CASE MarksRow(u)
      <4>1. /\ Frame(u, r) /\ UNCHANGED <<record, points>>
            /\ \A q \in Records \ {r} : RestoringIn(q)' <=> RestoringIn(q)
            /\ \A a \in Records : archive[a].unarchived => archive'[a].unarchived
            /\ archive'[record[r].from].unarchived
        BY <1>1, <3>1, <3>4, MarksRowKeeps DEF MarksRow
      <4>2. Left(r)'
        BY <4>1
      <4> QED
        BY <2>1, <3>1, <3>2, <4>1, <4>2
    <3>5. CASE GivesCopyUp(u)
      <4>1. /\ Frame(u, r) /\ UNCHANGED <<points, archive>>
            /\ \A q \in Records \ {r} : RestoringIn(q)' <=> RestoringIn(q)
            /\ r \notin points
        BY <1>1, <3>1, <3>5, GivesCopyUpKeeps DEF GivesCopyUp, PointsKnown
      <4>2. Left(r)' /\ r \notin points'
        BY <4>1
      <4> QED
        BY <2>1, <3>1, <4>1, <4>2
    <3> QED
      BY <2>4, <3>3, <3>4, <3>5
  <2> QED
    BY <1>5, <2>2, <2>3, <2>4
<1>6. \/ OthersStep
      \/ \E u \in Unarchivers :
            /\ FindArchiveByIds(u) \/ UnarchiverStep(u)
            /\ \/ GoesBy(u) \/ (\E r \in Records : MakesCopy(u, r))
               \/ WorksOn(u) \/ MarksRow(u) \/ GivesCopyUp(u)
  BY <1>1, RestoreSteps
<1>7. CASE OthersStep
  BY <1>2, <1>4, <1>7 DEF FailedInv
<1>8. ASSUME NEW u \in Unarchivers,
             FindArchiveByIds(u) \/ UnarchiverStep(u),
             \/ GoesBy(u) \/ (\E r \in Records : MakesCopy(u, r))
             \/ WorksOn(u) \/ MarksRow(u) \/ GivesCopyUp(u)
      PROVE  FailedInv'
  <2>1. PointsKnown(u)'
    BY <1>1, <1>8, PointsKnownOn
  <2> QED
    BY <1>2, <1>5, <1>8, <2>1 DEF FailedInv
<1> QED
  BY <1>6, <1>7, <1>8

LEMMA FailedInit == Init => FailedInv
<1> SUFFICES ASSUME Init  PROVE FailedInv
  OBVIOUS
<1>1. \A r \in Records : record[r].from = NoRecord /\ (r \in points => record[r].state = "live")
  BY CompactionAssumption DEF Init, Records
<1>2. \A u \in Unarchivers : PointsKnown(u)
  BY DEF Init, IdleUnarchiver, PointsKnown
<1>3. points \subseteq Records
  BY OutboxInit DEF OutboxInv, TypeOK
<1> QED
  BY <1>1, <1>2, <1>3, LeftoverInit DEF FailedInv

\* A restore that failed, an upsert that throws included, leaves neither a record
\* nor points, however many overlap, as long as no process stops, no step of the
\* compensation fails and no upsert that throws has taken effect: each of the
\* three breaks it.
THEOREM NothingLeft ==
  ASSUME Faults \cap {"crash", "undo", "lostAck"} = {}
  PROVE  Spec => []FailedRestoreLeavesNothing
<1>1. FailedInv => FailedRestoreLeavesNothing
  BY DEF FailedInv, LeftoverInv, FailedRestoreLeavesNothing
<1>2. FailedInv /\ [Next]_vars => FailedInv'
  BY FailedNext
<1> QED
  BY <1>1, <1>2, FailedInit, PTL DEF Spec

-----------------------------------------------------------------------------
(***************************************************************************)
(* The kept chain.  No induction over the chain is needed: with one run at *)
(* a time the record archived last as a duplicate was a duplicate of one   *)
(* that is not archived as a duplicate itself, and no set in which it is   *)
(* can be without an end.                                                  *)
(***************************************************************************)
Duplicates == {r \in Archived : archive[r].kept # NoRecord}

KeptInv ==
    /\ OutboxInv
    /\ KeptChainEnds
    /\ \A c \in Compactors : \A e \in compactor[c].plan :
        e.kept # NoRecord =>
            /\ e.kept \notin Duplicates
            /\ \A f \in compactor[c].plan : f.kept # NoRecord => f.rec # e.kept

\* No record is in two groups.
LEMMA GroupsApart ==
  ASSUME TypeOK, NEW groups \in DuplicateGroups(Listed), NEW g \in groups, NEW h \in groups,
         NEW r \in g, r \in h
  PROVE  g = h /\ g \subseteq Listed
<1>1. CASE groups = ExactGroups(Listed)
  BY <1>1 DEF ExactGroups
<1>2. CASE groups = SemanticGroups(Listed)
  <2> DEFINE first == Representatives(Listed)
             joined(q, p) == Joins(q, p) /\ ~\E o \in first : o > p /\ Joins(q, o)
             group(q) == {q} \cup {p \in Listed \ first : joined(p, q)}
  <2>1. groups = {group(q) : q \in first}
    BY <1>2 DEF SemanticGroups
  <2>2. first \subseteq Listed
    BY DEF Representatives
  <2> HIDE DEF first
  <2>3. PICK p \in first, q \in first : g = group(p) /\ h = group(q)
    BY <2>1
  <2>4. p \in Nat /\ q \in Nat
    <3>1. p \in Records /\ q \in Records
      BY <2>2 DEF Listed, Live
    <3> QED
      BY <3>1, CompactionAssumption DEF Records
  <2>5. p = q
    <3>1. CASE r \in first
      BY <2>3, <3>1
    <3>2. CASE r \notin first
      <4>1. joined(r, p) /\ joined(r, q)
        BY <2>3, <3>2
      <4> QED
        BY <2>4, <4>1
    <3> QED
      BY <3>1, <3>2
  <2> QED
    BY <2>2, <2>3, <2>5
<1> QED
  BY <1>1, <1>2 DEF DuplicateGroups

\* What a plan keeps is listed, and the plan does not archive it as a duplicate.
LEMMA PlanParts ==
  ASSUME TypeOK, NEW groups \in DuplicateGroups(Listed), NEW decayed \in SUBSET Listed,
         NEW e \in CollectCandidates(groups, decayed), e.kept # NoRecord
  PROVE  /\ e.kept \in Listed
         /\ \A f \in CollectCandidates(groups, decayed) : f.kept # NoRecord => f.rec # e.kept
<1>1. \A g \in groups : g # {} /\ g \subseteq Listed
  <2>1. \A g \in groups : g # {}
    BY DEF DuplicateGroups, ExactGroups, SemanticGroups
  <2> QED
    BY <2>1, GroupsApart
<1>2. \A g \in groups : Keeper(g) \in g
  BY <1>1, KeeperInGroup DEF Listed, Live
<1>3. \A f \in CollectCandidates(groups, decayed) : f.kept # NoRecord =>
        \E g \in groups : f.kept = Keeper(g) /\ f.rec \in g \ {Keeper(g)}
  BY DEF CollectCandidates, ArchivedOf
<1>4. PICK g \in groups : e.kept = Keeper(g)
  BY <1>3
<1>5. ASSUME NEW f \in CollectCandidates(groups, decayed), f.kept # NoRecord, f.rec = e.kept
      PROVE  FALSE
  <2>1. PICK h \in groups : f.rec \in h \ {Keeper(h)}
    BY <1>3, <1>5
  <2>2. g = h
    BY <1>2, <1>4, <1>5, <2>1, GroupsApart
  <2> QED
    BY <1>4, <1>5, <2>1, <2>2
<1> QED
  BY <1>1, <1>2, <1>4, <1>5

\* What a step may do to the rows' kept_record_id and to the plans.
SameKept == \A r \in Records :
    archive'[r].kept = archive[r].kept /\ (r \in Archived' <=> r \in Archived)

PlanGoesOn(c) ==
    \/ compactor'[c].plan \subseteq compactor[c].plan
    \/ \E groups \in DuplicateGroups(Listed), decayed \in SUBSET Listed :
            compactor'[c].plan = CollectCandidates(groups, decayed)

Archives(c, e) ==
    /\ e.rec \in Records /\ e.rec \notin Archived
    /\ archive'[e.rec].kept = e.kept
    /\ \A r \in Records \ {e.rec} :
        archive'[r].kept = archive[r].kept /\ (r \in Archived' <=> r \in Archived)
    /\ compactor'[c].plan \subseteq compactor[c].plan

LEMMA MarkedKeeps ==
  ASSUME TypeOK, NEW r \in Archived, NEW q \in {"pending", "deleted", "failed"},
         MarkQdrantStatus(r, q)
  PROVE  SameKept
<1>1. archive' = [archive EXCEPT ![r] = Marked(archive[r], q)] /\ archive \in [Records -> ArchiveState]
  BY DEF MarkQdrantStatus, TypeOK
<1>2. r \in Records /\ archive[r] \in ArchiveState
  BY <1>1 DEF Archived
<1>3. Marked(archive[r], q).kept = archive[r].kept /\ Marked(archive[r], q).q = q
  BY <1>2 DEF Marked, ArchiveState
<1> QED
  BY <1>1, <1>2, <1>3 DEF SameKept, Archived

LEMMA KeptRows ==
  ASSUME OutboxInv, [Next]_vars
  PROVE  SameKept \/ \E c \in Compactors : ApplyCompactionRecord(c)
<1> USE DEF OutboxInv
<1>1. ASSUME archive' = archive  PROVE SameKept
  BY <1>1 DEF SameKept, Archived
<1>2. ASSUME NEW c \in Compactors, MarkVacuouslyDeleted(c) \/ MarkDeleted(c) \/ MarkPending(c)
      PROVE  SameKept
  <2>1. compactor[c].rec \in Archived
    BY <1>2 DEF MarkVacuouslyDeleted, MarkDeleted, MarkPending, Held, Marking
  <2>2. archive' = archive \/ \E q \in {"pending", "deleted"} : MarkQdrantStatus(compactor[c].rec, q)
    BY <1>2 DEF MarkVacuouslyDeleted, MarkDeleted, MarkPending
  <2> QED
    BY <1>1, <2>1, <2>2, MarkedKeeps
<1>3. ASSUME NEW s \in Sweepers, ClaimCleanup(s)  PROVE SameKept
  <2>1. PICK batch \in SUBSET Due :
          archive' = [r \in Records |-> IF r \in batch
                       THEN [archive[r] EXCEPT !.retry = "later"] ELSE archive[r]]
    BY <1>3 DEF ClaimCleanup
  <2>2. ASSUME NEW r \in Records
        PROVE  archive'[r].kept = archive[r].kept /\ archive'[r].q = archive[r].q
    <3>1. archive[r] \in ArchiveState /\ archive'[r] \in {archive[r], [archive[r] EXCEPT !.retry = "later"]}
      BY <2>1 DEF TypeOK
    <3> QED
      BY <3>1 DEF ArchiveState
  <2> QED
    BY <2>2 DEF SameKept, Archived
<1>4. ASSUME NEW s \in Sweepers, SweepMarkDeleted(s) \/ MarkRowFailure(s)  PROVE SameKept
  <2>1. archive' = archive \/ \E r \in Swept(s), q \in {"pending", "deleted", "failed"} : MarkQdrantStatus(r, q)
    BY <1>4 DEF SweepMarkDeleted, MarkRowFailure, Swept
  <2> QED
    BY <1>1, <2>1, MarkedKeeps
<1>5. ASSUME NEW u \in Unarchivers, MarkUnarchived(u)  PROVE SameKept
  <2> DEFINE a == unarchiver[u].arch
  <2>1. archive' = archive \/ archive' = [archive EXCEPT ![a].unarchived = TRUE]
    BY <1>5 DEF MarkUnarchived
  <2> HIDE DEF a
  <2>2. ASSUME NEW r \in Records
        PROVE  archive'[r].kept = archive[r].kept /\ archive'[r].q = archive[r].q
    BY <2>1 DEF TypeOK, ArchiveState
  <2> QED
    BY <2>2 DEF SameKept, Archived
<1>6. ASSUME NEW t \in Records, RetryTimeReached(t)  PROVE SameKept
  <2>1. ASSUME NEW r \in Records
        PROVE  archive'[r].kept = archive[r].kept /\ archive'[r].q = archive[r].q
    BY <1>6 DEF TypeOK, ArchiveState, RetryTimeReached
  <2> QED
    BY <2>1 DEF SameKept, Archived
<1> QED
  BY <1>1, <1>2, <1>3, <1>4, <1>5, <1>6
     DEF Next, CompactorStep, SweeperStep, UnarchiverStep, ListMemory, StartCompaction,
         CountRecentApplyRuns, CreateCompactionRun, CompactDeletePoints, CompleteRun,
         SweepDeletePoints, FindArchiveByIds, RestoreToCanonical, RestoreInsertChunks, RestoreEmbed,
         RestoreUpsert, RestorePointIds, UndoPoints, UndoRecord, BeginUpdate, CommitUpdate,
         HourPasses, Crash, rows, vars

LEMMA PlanShrinks ==
  ASSUME TypeOK, NEW c \in Compactors, ApplyCompactionRecord(c)
  PROVE  compactor'[c].plan \subseteq compactor[c].plan
<1> DEFINE k == compactor[c]
<1>1. compactor \in [Compactors -> CompactorState] /\ k \in CompactorState
  BY DEF TypeOK
<1>2. ASSUME NEW e, NEW pc, NEW r, NEW count,
             compactor' = [compactor EXCEPT ![c] =
                [k EXCEPT !.pc = pc, !.rec = r, !.plan = @ \ {e}, !.count = count]]
      PROVE  compactor'[c].plan = k.plan \ {e}
  <2> DEFINE l == [k EXCEPT !.pc = pc, !.rec = r, !.plan = @ \ {e}, !.count = count]
  <2>1. l.plan = k.plan \ {e}
    BY <1>1 DEF CompactorState
  <2>2. compactor' = [compactor EXCEPT ![c] = l]
    BY <1>2
  <2> HIDE DEF l
  <2> QED
    BY <1>1, <2>1, <2>2
<1>3. ASSUME NEW e, compactor' = [compactor EXCEPT ![c].plan = @ \ {e}]
      PROVE  compactor'[c].plan = k.plan \ {e}
  BY <1>1, <1>3 DEF CompactorState
<1>4. ASSUME CompactTo(c, "fail")  PROVE compactor'[c].plan = k.plan
  BY <1>1, <1>4 DEF CompactTo, CompactorState
<1>5. PICK e \in k.plan :
        \/ compactor' = [compactor EXCEPT ![c] = [k EXCEPT
                !.pc = IF index[e.rec] = "ids" THEN "delete" ELSE "vacuous",
                !.rec = e.rec, !.plan = @ \ {e}, !.count = Counted(c)]]
        \/ compactor' = [compactor EXCEPT ![c].plan = @ \ {e}]
        \/ CompactTo(c, "fail")
  BY DEF ApplyCompactionRecord
<1>6. CASE compactor' = [compactor EXCEPT ![c] = [k EXCEPT
                !.pc = IF index[e.rec] = "ids" THEN "delete" ELSE "vacuous",
                !.rec = e.rec, !.plan = @ \ {e}, !.count = Counted(c)]]
  BY <1>2, <1>6
<1>7. CASE compactor' = [compactor EXCEPT ![c].plan = @ \ {e}]
  BY <1>3, <1>7
<1>8. CASE CompactTo(c, "fail")
  BY <1>4, <1>8
<1> QED
  BY <1>5, <1>6, <1>7, <1>8

LEMMA AddedKept ==
  ASSUME OutboxInv, NEW c \in Compactors, ApplyCompactionRecord(c)
  PROVE  SameKept \/ \E e \in compactor[c].plan : Archives(c, e)
<1> USE DEF OutboxInv
<1>1. CASE archive' = archive
  BY <1>1 DEF SameKept, Archived
<1>2. CASE archive' # archive
  <2> DEFINE Added(r, row) ==
               /\ archive' = [archive EXCEPT ![r] = row]
               /\ row.q = "pending"
               /\ \E e \in compactor[c].plan : r = e.rec /\ row.kept = e.kept
  <2>0. PICK r \in Live :
          /\ record' = [record EXCEPT ![r].state = "gone"]
          /\ index' = [index EXCEPT ![r] = "none"]
          /\ \E row : /\ archive' = [archive EXCEPT ![r] = row]
                      /\ row.q = "pending" /\ row.unarchived = FALSE
                      /\ \E e \in compactor[c].plan : r = e.rec /\ row.kept = e.kept
    BY <1>2, ArchivedRecord
  <2>1. PICK row : Added(r, row)
    BY <2>0
  <2>2. PICK e \in compactor[c].plan : r = e.rec /\ row.kept = e.kept
    BY <2>1
  <2>3. r \in Records /\ r \notin Archived
    BY DEF Live
  <2>4. compactor'[c].plan \subseteq compactor[c].plan
    BY PlanShrinks
  <2>5. archive'[r] = row /\ \A t \in Records \ {r} : archive'[t] = archive[t]
    BY <2>1, <2>3 DEF TypeOK
  <2> QED
    BY <2>1, <2>2, <2>3, <2>4, <2>5 DEF Archives, Archived
<1> QED
  BY <1>1, <1>2

LEMMA PlanStep ==
  ASSUME TypeOK, [Next]_vars, NEW c \in Compactors
  PROVE  PlanGoesOn(c)
<1> DEFINE k == compactor[c]
<1>1. compactor \in [Compactors -> CompactorState] /\ k \in CompactorState
  BY DEF TypeOK
<1>2. ASSUME compactor'[c] = k  PROVE PlanGoesOn(c)
  BY <1>2 DEF PlanGoesOn
<1>3. ASSUME compactor'[c] = IdleCompactor  PROVE PlanGoesOn(c)
  BY <1>3 DEF PlanGoesOn, IdleCompactor
<1>4. ASSUME NEW pc, compactor'[c] = [k EXCEPT !.pc = pc]  PROVE PlanGoesOn(c)
  BY <1>1, <1>4 DEF PlanGoesOn, CompactorState
<1>5. CASE ListMemory(c)
  <2>1. PICK groups \in DuplicateGroups(Listed), decayed \in SUBSET Listed :
          compactor' = [compactor EXCEPT ![c] =
            [IdleCompactor EXCEPT !.pc = "start", !.plan = CollectCandidates(groups, decayed)]]
    BY <1>5 DEF ListMemory
  <2>2. compactor'[c].plan = CollectCandidates(groups, decayed)
    BY <1>1, <2>1 DEF IdleCompactor
  <2> QED
    BY <2>2 DEF PlanGoesOn
<1>6. CASE StartCompaction(c) \/ CreateCompactionRun(c)
  <2>1. ASSUME NEW pc, NEW n, compactor' = [compactor EXCEPT ![c] =
                [@ EXCEPT !.pc = pc, !.planGeneratedAt = n]]
        PROVE  compactor'[c].plan = k.plan
    BY <1>1, <2>1 DEF CompactorState
  <2>2. ASSUME NEW pc, NEW n, compactor' = [compactor EXCEPT ![c] = [@ EXCEPT !.pc = pc, !.run = n]]
        PROVE  compactor'[c].plan = k.plan
    BY <1>1, <2>2 DEF CompactorState
  <2>3. ASSUME CompactEnd(c)  PROVE compactor'[c] = IdleCompactor
    BY <1>1, <2>3 DEF CompactEnd
  <2>4. compactor'[c].plan = k.plan \/ compactor'[c] = IdleCompactor
    BY <1>6, <2>1, <2>2, <2>3 DEF StartCompaction, CreateCompactionRun
  <2> QED
    BY <1>3, <2>4 DEF PlanGoesOn
<1>7. CASE ApplyCompactionRecord(c)
  BY <1>7, PlanShrinks DEF PlanGoesOn
<1>8. CASE CountRecentApplyRuns(c) \/ MarkVacuouslyDeleted(c) \/ CompactDeletePoints(c)
             \/ MarkDeleted(c) \/ MarkPending(c) \/ CompleteRun(c)
  <2>1. compactor'[c] = IdleCompactor \/ \E pc : compactor'[c] = [k EXCEPT !.pc = pc]
    BY <1>1, <1>8 DEF CountRecentApplyRuns, MarkVacuouslyDeleted, CompactDeletePoints, MarkDeleted,
                      MarkPending, CompleteRun, CompactTo, CompactEnd
  <2> QED
    BY <1>3, <1>4, <2>1
<1>9. CASE \E d \in Compactors \ {c} : ListMemory(d) \/ CompactorStep(d)
  <2>1. compactor'[c] = k
    BY <1>1, <1>9, CompactorLeavesOthers
  <2> QED
    BY <1>2, <2>1
<1>10. CASE Crash
  <2>1. compactor' = compactor \/ \E d \in Compactors : CompactEnd(d)
    BY <1>10 DEF Crash
  <2>2. compactor'[c] \in {k, IdleCompactor}
    BY <1>1, <2>1 DEF CompactEnd
  <2> QED
    BY <1>2, <1>3, <2>2
<1>11. CASE compactor' = compactor
  BY <1>2, <1>11
<1>12. CASE \E d \in Compactors : ListMemory(d) \/ CompactorStep(d)
  BY <1>5, <1>6, <1>7, <1>8, <1>9, <1>12 DEF CompactorStep
<1>13. CASE \E s \in Sweepers : ClaimCleanup(s) \/ SweeperStep(s)
  BY <1>11, <1>13 DEF SweeperStep, ClaimCleanup, SweepDeletePoints, SweepMarkDeleted, MarkRowFailure
<1>14. CASE \E u \in Unarchivers : FindArchiveByIds(u) \/ UnarchiverStep(u)
  BY <1>11, <1>14
     DEF UnarchiverStep, FindArchiveByIds, RestoreToCanonical, RestoreInsertChunks, RestoreEmbed,
         RestoreUpsert, RestorePointIds, MarkUnarchived, UndoPoints, UndoRecord
<1>15. CASE \E e \in Editors : (\E r \in Records : BeginUpdate(e, r)) \/ CommitUpdate(e)
  BY <1>11, <1>15 DEF BeginUpdate, CommitUpdate
<1>16. CASE (\E r \in Records : RetryTimeReached(r)) \/ (\E u \in Runs : HourPasses(u))
  BY <1>11, <1>16 DEF RetryTimeReached, HourPasses, actors
<1> QED
  BY <1>10, <1>11, <1>12, <1>13, <1>14, <1>15, <1>16 DEF Next, vars

LEMMA KeptInit == Init => KeptInv
<1> SUFFICES ASSUME Init PROVE KeptInv
  OBVIOUS
<1>1. OutboxInv
  BY OutboxInit
<1>2. \A r \in Records : archive[r].kept = NoRecord
  BY DEF Init, NoArchive
<1>3. Duplicates = {}
  BY <1>2 DEF Duplicates, Archived
<1>4. \A c \in Compactors : compactor[c].plan = {}
  BY DEF Init, IdleCompactor
<1> QED
  BY <1>1, <1>3, <1>4 DEF KeptInv, KeptChainEnds, Duplicates

LEMMA KeptNext ==
  ASSUME KeptInv, [Next]_vars, \A c, d \in Compactors : c = d
  PROVE  KeptInv'
<1> USE DEF KeptInv
<1>1. TypeOK /\ OutboxInv'
  BY OutboxNext DEF OutboxInv
<1>2. CASE SameKept
  <2>1. Duplicates' = Duplicates /\ \A r \in Duplicates : archive'[r].kept = archive[r].kept
    BY <1>2 DEF SameKept, Duplicates, Archived
  <2>2. KeptChainEnds'
    BY <2>1 DEF KeptChainEnds, Duplicates
  <2>3. ASSUME NEW c \in Compactors, NEW e \in compactor'[c].plan, e.kept # NoRecord
        PROVE  /\ e.kept \notin Duplicates
               /\ \A f \in compactor'[c].plan : f.kept # NoRecord => f.rec # e.kept
    <3>1. CASE compactor'[c].plan \subseteq compactor[c].plan
      BY <2>3, <3>1
    <3>2. ASSUME NEW groups \in DuplicateGroups(Listed), NEW decayed \in SUBSET Listed,
                 compactor'[c].plan = CollectCandidates(groups, decayed)
          PROVE  /\ e.kept \notin Duplicates
                 /\ \A f \in compactor'[c].plan : f.kept # NoRecord => f.rec # e.kept
      <4>1. /\ e.kept \in Listed
            /\ \A f \in CollectCandidates(groups, decayed) : f.kept # NoRecord => f.rec # e.kept
        BY <1>1, <2>3, <3>2, PlanParts
      <4> QED
        BY <3>2, <4>1 DEF OutboxInv, Duplicates, Listed, Live
    <3> QED
      BY <1>1, <3>1, <3>2, PlanStep DEF PlanGoesOn
  <2> QED
    BY <1>1, <2>1, <2>2, <2>3
<1>3. ASSUME NEW c \in Compactors, NEW e \in compactor[c].plan, Archives(c, e)
      PROVE  KeptInv'
  <2>1. Duplicates' \subseteq Duplicates \cup {e.rec}
    BY <1>3 DEF Archives, Duplicates, Archived
  <2>2. \A r \in Duplicates : r # e.rec /\ archive'[r].kept = archive[r].kept
    BY <1>3 DEF Archives, Duplicates, Archived
  <2>3. e.rec \in Duplicates' =>
          e.kept # NoRecord /\ e.kept = archive'[e.rec].kept /\ e.kept \notin Duplicates'
    <3>1. e.rec \in Duplicates' => e.kept # NoRecord
      BY <1>3 DEF Archives, Duplicates
    <3> QED
      BY <1>3, <2>1, <3>1 DEF Archives
  <2>4. KeptChainEnds'
    <3> SUFFICES ASSUME NEW S \in SUBSET Duplicates', S # {}
                 PROVE  \E r \in S : archive'[r].kept \notin S
      BY DEF KeptChainEnds, Duplicates
    <3>1. CASE e.rec \in S
      BY <2>3, <3>1
    <3>2. CASE e.rec \notin S
      <4>1. S \in SUBSET Duplicates
        BY <2>1, <3>2
      <4>2. PICK r \in S : archive[r].kept \notin S
        BY <4>1 DEF KeptChainEnds, Duplicates
      <4> QED
        BY <2>2, <4>1, <4>2
    <3> QED
      BY <3>1, <3>2
  <2>5. ASSUME NEW d \in Compactors, NEW f \in compactor'[d].plan, f.kept # NoRecord
        PROVE  /\ f.kept \notin Duplicates'
               /\ \A h \in compactor'[d].plan : h.kept # NoRecord => h.rec # f.kept
    <3>1. d = c /\ f \in compactor[c].plan /\ compactor'[c].plan \subseteq compactor[c].plan
      BY <1>3, <2>5 DEF Archives
    <3>2. e.rec \in Duplicates' => e.rec # f.kept
      BY <2>3, <2>5, <3>1
    <3> QED
      BY <2>1, <2>5, <3>1, <3>2
  <2> QED
    BY <1>1, <2>4, <2>5
<1> QED
  BY <1>2, <1>3, KeptRows, AddedKept

(***************************************************************************)
(* Duplicates never consume each other, over however many runs, restores   *)
(* and crashes, as long as the scope is not compacted twice at once: what  *)
(* applyCompaction archives as duplicates always leads to a record that it *)
(* did not archive as one.                                                 *)
(***************************************************************************)
THEOREM KeptChainHolds ==
  ASSUME \A c, d \in Compactors : c = d
  PROVE  Spec => []KeptChainEnds
<1>1. Init => KeptInv
  BY KeptInit
<1>2. KeptInv /\ [Next]_vars => KeptInv'
  BY KeptNext
<1>3. KeptInv => KeptChainEnds
  BY DEF KeptInv
<1> QED
  BY <1>1, <1>2, <1>3, PTL DEF Spec
=============================================================================
