--------------------------- MODULE GoalRunsProofs ---------------------------
(***************************************************************************)
(* Goal runs, for any number of calls, runs and records: GoalRunsInv is    *)
(* inductive; the invariants and the action properties follow from it.     *)
(***************************************************************************)
EXTENDS GoalRuns, FiniteSetTheorems, TLAPS

\* A transaction keeps its run, and a commit's run is the one it has locked.
LEMMA IdleOK ==
    IdleRecorder \in RecorderState /\ IdleReader \in ReaderState
        /\ IdleCompactor \in CompactorState
BY DEF IdleRecorder, RecorderState, IdleReader, ReaderState, IdleCompactor, CompactorState

LEMMA InvInit == Init => GoalRunsInv
<1> SUFFICES ASSUME Init PROVE GoalRunsInv
  OBVIOUS
<1>1. TypeOK
  BY IdleOK, GoalRunsAssumption
     DEF Init, TypeOK, GoalRunState, MemoryState, IdleRecorder, IdleReader, IdleCompactor
<1>2. IterationsConsecutive /\ LocksHeld /\ CountsSeen /\ PlanUnpinned
  BY GoalRunsAssumption
     DEF Init, IterationsConsecutive, LocksHeld, InTransaction, CountsSeen, PlanUnpinned,
         Pinned, Active, IdleRecorder, IdleReader, IdleCompactor
<1> QED
  BY <1>1, <1>2 DEF GoalRunsInv

-----------------------------------------------------------------------------
(***************************************************************************)
(* Steps of the calls that write nothing: only recorder[c] changes.        *)
(***************************************************************************)
LEMMA RecorderOnly ==
  ASSUME GoalRunsInv, NEW c \in Recorders, NEW k \in RecorderState,
         recorder' = [recorder EXCEPT ![c] = k],
         UNCHANGED <<goalRun, iteration, memory, reader, compactor>>,
         k.pc # "idle" => k.run \in Runs,
         k.pc = "link" => k.toLink # <<>>,
         \A m \in k.linked : memory[m].live,
         k.pc \in {"insert", "link", "commit"} =>
            /\ Active(k.run)
            /\ k.index = goalRun[k.run].count + 1
            /\ \A d \in Recorders \ {c} : InTransaction(d) => recorder[d].run # k.run
  PROVE  GoalRunsInv'
<1> USE DEF GoalRunsInv
<1>1. TypeOK'
  BY DEF TypeOK
<1>2. LocksHeld'
  BY DEF TypeOK, LocksHeld, InTransaction, Active
<1>3. (IterationsConsecutive /\ CountsSeen /\ PlanUnpinned)'
  BY DEF IterationsConsecutive, CountsSeen, PlanUnpinned, Pinned, Active
<1> QED
  BY <1>1, <1>2, <1>3

LEMMA FailsKeeps ==
  ASSUME GoalRunsInv, NEW c \in Recorders, RecordFails(c),
         UNCHANGED <<goalRun, iteration, memory, reader, compactor>>
  PROVE  GoalRunsInv'
BY IdleOK, RecorderOnly DEF RecordFails, IdleRecorder

\* record_iteration up to its commit.
LEMMA UncommittedKeeps ==
  ASSUME GoalRunsInv, NEW c \in Recorders,
         \/ \E g \in Runs : RecordIteration(c, g)
         \/ Bump(c) \/ InsertIteration(c) \/ LinkMemory(c) \/ DeadlockDetected(c)
  PROVE  GoalRunsInv'
<1> USE DEF GoalRunsInv
<1> DEFINE k == recorder[c]
           g == k.run
<1>1. k \in RecorderState /\ (k.pc # "idle" => g \in Runs)
        /\ recorder \in [Recorders -> RecorderState] /\ goalRun \in [Runs -> GoalRunState]
        /\ (\A m \in k.linked : memory[m].live)
  BY DEF TypeOK
<1>2. InTransaction(c) =>
        /\ Active(g) /\ k.index = goalRun[g].count + 1
        /\ \A d \in Recorders \ {c} : InTransaction(d) => recorder[d].run # g
  BY DEF LocksHeld
<1>3. CASE \E h \in Runs : RecordIteration(c, h)
  <2> PICK h \in Runs : RecordIteration(c, h)
    BY <1>3
  <2> DEFINE l == [IdleRecorder EXCEPT !.pc = "bump", !.run = h]
  <2>1. l \in RecorderState /\ l.pc = "bump" /\ l.run = h /\ l.linked = {}
    BY IdleOK DEF IdleRecorder, RecorderState
  <2> QED
    BY <2>1, RecorderOnly DEF RecordIteration
<1>4. CASE Bump(c)
  <2>1. CASE RecordFails(c)
    BY <2>1, <1>4, FailsKeeps DEF Bump
  <2>2. CASE ~RecordFails(c)
    <3> DEFINE l == [k EXCEPT !.pc = "insert", !.index = goalRun[g].count + 1]
    <3>1. k.pc = "bump" /\ AcceptsIterations(g) /\ ~RunLocked(g) /\ g \in Runs
      BY <1>4, <2>2, <1>1 DEF Bump
    <3>a. goalRun[g].count + 1 \in Nat
      BY <1>1, <3>1 DEF GoalRunState
    <3>2. l \in RecorderState /\ l.pc = "insert" /\ l.run = g /\ l.linked = k.linked
            /\ l.index = goalRun[g].count + 1
      <4> HIDE DEF g
      <4> QED
        BY <1>1, <3>a DEF RecorderState, g
    <3>3. recorder' = [recorder EXCEPT ![c] = l]
      BY <1>4, <2>2, <1>1 DEF Bump
    <3>4. Active(g) /\ \A d \in Recorders \ {c} : InTransaction(d) => recorder[d].run # g
      BY <3>1 DEF AcceptsIterations, RunLocked
    <3>5. UNCHANGED <<goalRun, iteration, memory, reader, compactor>>
      BY <1>4 DEF Bump
    <3>6. (l.pc # "idle" => l.run \in Runs) /\ l.pc # "link"
          /\ (\A m \in l.linked : memory[m].live)
          /\ Active(l.run) /\ l.index = goalRun[l.run].count + 1
          /\ \A d \in Recorders \ {c} : InTransaction(d) => recorder[d].run # l.run
      <4> HIDE DEF l
      <4> QED
        BY <1>1, <3>1, <3>2, <3>4
    <3> HIDE DEF l, g, k
    <3> QED
      BY <3>2, <3>3, <3>5, <3>6, RecorderOnly
  <2> QED
    BY <2>1, <2>2
<1>5. CASE InsertIteration(c)
  <2>1. CASE RecordFails(c)
    BY <2>1, <1>5, FailsKeeps DEF InsertIteration
  <2>2. CASE ~RecordFails(c)
    <3> PICK memoryIds \in MemoryIds : \E order \in Orders(memoryIds) :
            recorder' = [recorder EXCEPT
                ![c].toLink = order,
                ![c].pc = IF order = <<>> THEN "commit" ELSE "link"]
      BY <1>5, <2>2 DEF InsertIteration
    <3> PICK order \in Orders(memoryIds) :
            recorder' = [recorder EXCEPT
                ![c].toLink = order,
                ![c].pc = IF order = <<>> THEN "commit" ELSE "link"]
      OBVIOUS
    <3> DEFINE l == [k EXCEPT !.toLink = order,
                              !.pc = IF order = <<>> THEN "commit" ELSE "link"]
    <3>1. order \in Seq(Records)
      <4>1. memoryIds \in SUBSET Records
        BY GoalRunsAssumption
      <4>2. order \in [1 .. Cardinality(memoryIds) -> memoryIds]
        BY DEF Orders
      <4>3. Cardinality(memoryIds) \in Nat
        BY GoalRunsAssumption, FS_CardinalityType
      <4> QED
        BY <4>1, <4>2, <4>3
    <3>2. k.pc = "insert"
      BY <1>5 DEF InsertIteration
    <3>3. l \in RecorderState /\ l.pc \in {"link", "commit"} /\ l.run = g
            /\ l.linked = k.linked /\ l.index = k.index /\ (l.pc = "link" => l.toLink # <<>>)
      BY <1>1, <3>1 DEF RecorderState
    <3>4. recorder' = [recorder EXCEPT ![c] = l]
      BY <1>1
    <3>5. /\ Active(g) /\ k.index = goalRun[g].count + 1
          /\ \A d \in Recorders \ {c} : InTransaction(d) => recorder[d].run # g
      BY <1>2, <3>2 DEF InTransaction
    <3>6. UNCHANGED <<goalRun, iteration, memory, reader, compactor>>
      BY <1>5 DEF InsertIteration
    <3> HIDE DEF l
    <3>7. g \in Runs /\ \A m \in l.linked : memory[m].live
      BY <1>1, <3>2, <3>3
    <3> HIDE DEF g, k
    <3> QED
      BY <3>3, <3>4, <3>5, <3>6, <3>7, RecorderOnly
  <2> QED
    BY <2>1, <2>2
<1>6. CASE LinkMemory(c)
  <2>1. CASE RecordFails(c)
    BY <2>1, <1>6, FailsKeeps DEF LinkMemory
  <2>2. CASE ~RecordFails(c)
    <3> DEFINE m == Head(k.toLink)
               l == [k EXCEPT !.toLink = Tail(k.toLink),
                        !.linked = IF memory[m].live THEN @ \cup {m} ELSE @,
                        !.pc = IF Tail(k.toLink) = <<>> THEN "commit" ELSE @]
    <3>1. k.pc = "link"
      BY <1>6 DEF LinkMemory
    <3>2. recorder' = [recorder EXCEPT ![c] = l]
      BY <1>1, <1>6, <2>2 DEF LinkMemory
    <3>3. k.toLink # <<>>
      BY <3>1 DEF TypeOK
    <3>a. m \in Records /\ Tail(k.toLink) \in Seq(Records) /\ k.linked \subseteq Records
      BY <1>1, <3>3 DEF RecorderState
    <3>4. l \in RecorderState /\ l.pc \in {"link", "commit"} /\ l.run = g
            /\ l.index = k.index /\ (\A x \in l.linked : memory[x].live)
            /\ (l.pc = "link" => l.toLink # <<>>)
      <4> HIDE DEF m
      <4> QED
        BY <1>1, <3>1, <3>3, <3>a DEF RecorderState
    <3> HIDE DEF l
    <3> QED
      BY <1>1, <1>2, <1>6, <3>1, <3>2, <3>4, RecorderOnly DEF LinkMemory, InTransaction
  <2> QED
    BY <2>1, <2>2
<1>7. CASE DeadlockDetected(c)
  BY <1>7, FailsKeeps DEF DeadlockDetected
<1> QED
  BY <1>3, <1>4, <1>5, <1>6, <1>7

(***************************************************************************)
(* The commit: the run is locked, so the next index is still the next one. *)
(***************************************************************************)
LEMMA CommitKeeps ==
  ASSUME GoalRunsInv, NEW c \in Recorders, Commit(c)
  PROVE  GoalRunsInv'
<1> USE DEF GoalRunsInv
<1>1. CASE RecordFails(c) /\ UNCHANGED <<goalRun, iteration, memory, compactor>>
  BY <1>1, FailsKeeps DEF Commit
<1>2. CASE ~(RecordFails(c) /\ UNCHANGED <<goalRun, iteration, memory, compactor>>)
  <2> DEFINE g == recorder[c].run
             i == recorder[c].index
             linked == recorder[c].linked
  <2>1. /\ recorder[c].pc = "commit"
        /\ goalRun' = [goalRun EXCEPT ![g].count = i]
        /\ iteration' = [iteration EXCEPT ![g] = @ \cup {i}]
        /\ memory' = [m \in Records |->
                IF m \in linked THEN [memory[m] EXCEPT !.run = g] ELSE memory[m]]
        /\ compactor' = IF compactor.pc = "idle" THEN compactor
                        ELSE [compactor EXCEPT !.since = @ \cup (linked \cap compactor.plan)]
        /\ recorder' = [recorder EXCEPT ![c] = IdleRecorder]
        /\ reader' = reader
    BY <1>2 DEF Commit
  <2>2. g \in Runs /\ i \in Nat /\ linked \subseteq Records
    BY <2>1 DEF TypeOK, RecorderState
  <2>3. /\ Active(g) /\ i = goalRun[g].count + 1
        /\ \A d \in Recorders \ {c} : InTransaction(d) => recorder[d].run # g
    BY <2>1 DEF LocksHeld, InTransaction
  <2> HIDE DEF g, i, linked
  <2>4. /\ goalRun \in [Runs -> GoalRunState] /\ iteration \in [Runs -> SUBSET Nat]
        /\ memory \in [Records -> MemoryState] /\ recorder \in [Recorders -> RecorderState]
        /\ compactor \in CompactorState
    BY DEF TypeOK
  <2>5. /\ goalRun' \in [Runs -> GoalRunState]
        /\ \A h \in Runs : goalRun'[h].status = goalRun[h].status
                /\ goalRun'[h].count = IF h = g THEN i ELSE goalRun[h].count
    BY <2>1, <2>2, <2>4 DEF GoalRunState
  <2>6. /\ memory' \in [Records -> MemoryState]
        /\ \A m \in Records : memory'[m].live = memory[m].live
                /\ memory'[m].run = IF m \in linked THEN g ELSE memory[m].run
    BY <2>1, <2>2, <2>4 DEF MemoryState
  <2>7. /\ compactor' \in CompactorState /\ compactor'.plan = compactor.plan
        /\ compactor'.pc # "idle" => linked \cap compactor.plan \subseteq compactor'.since
        /\ compactor.since \subseteq compactor'.since
        /\ compactor'.pc = compactor.pc
    BY <2>1, <2>2, <2>4 DEF CompactorState
  <2>8. \A d \in Recorders : recorder'[d] = IF d = c THEN IdleRecorder ELSE recorder[d]
    BY <2>1, <2>4
  <2>9. TypeOK'
    <3>1. iteration' \in [Runs -> SUBSET Nat]
      BY <2>1, <2>2, <2>4
    <3>2. recorder' \in [Recorders -> RecorderState]
      BY <2>1, <2>4, IdleOK
    <3>3. \A d \in Recorders :
            /\ recorder'[d].pc # "idle" => recorder'[d].run \in Runs
            /\ recorder'[d].pc = "link" => recorder'[d].toLink # <<>>
            /\ \A m \in recorder'[d].linked : memory'[m].live
      <4> TAKE d \in Recorders
      <4>1. CASE d = c
        BY <4>1, <2>8 DEF IdleRecorder
      <4>2. CASE d # c
        <5>1. recorder'[d] = recorder[d] /\ recorder[d].linked \subseteq Records
          BY <4>2, <2>8, <2>4 DEF RecorderState
        <5> QED
          BY <5>1, <2>6 DEF TypeOK
      <4> QED
        BY <4>1, <4>2
    <3> QED
      BY <3>1, <3>2, <3>3, <2>1, <2>5, <2>6, <2>7 DEF TypeOK
  <2>10. IterationsConsecutive'
    <3> SUFFICES ASSUME NEW h \in Runs PROVE iteration'[h] = 1 .. goalRun'[h].count
      BY DEF IterationsConsecutive
    <3>1. iteration[h] = 1 .. goalRun[h].count /\ goalRun[h].count \in Nat
      BY <2>4 DEF IterationsConsecutive, GoalRunState
    <3>2. iteration'[h] = IF h = g THEN iteration[h] \cup {i} ELSE iteration[h]
      BY <2>1, <2>4
    <3>3. \A n \in Nat : (1 .. n) \cup {n + 1} = 1 .. (n + 1)
      OBVIOUS
    <3>4. CASE h = g
      <4>1. iteration'[h] = (1 .. goalRun[h].count) \cup {goalRun[h].count + 1}
        BY <3>1, <3>2, <3>4, <2>3
      <4> QED
        BY <4>1, <3>1, <3>3, <3>4, <2>3, <2>5
    <3>5. CASE h # g
      BY <3>1, <3>2, <3>5, <2>5
    <3> QED
      BY <3>4, <3>5
  <2>11. LocksHeld'
    <3> SUFFICES ASSUME NEW d \in Recorders, InTransaction(d)'
                 PROVE  /\ Active(recorder[d].run)'
                        /\ recorder'[d].index = goalRun'[recorder'[d].run].count + 1
                        /\ \A e \in Recorders :
                            InTransaction(e)' /\ recorder'[e].run = recorder'[d].run => e = d
      BY DEF LocksHeld
    <3>1. d # c /\ recorder'[d] = recorder[d] /\ InTransaction(d)
      BY <2>8 DEF InTransaction, IdleRecorder
    <3>2. recorder[d].run # g /\ recorder[d].run \in Runs
      BY <3>1, <2>3 DEF TypeOK, InTransaction
    <3>3. Active(recorder[d].run)' /\ recorder'[d].index = goalRun'[recorder'[d].run].count + 1
      BY <3>1, <3>2, <2>5 DEF LocksHeld, Active
    <3>4. ASSUME NEW e \in Recorders, InTransaction(e)', recorder'[e].run = recorder'[d].run
          PROVE  e = d
      <4>1. recorder'[e] = recorder[e] /\ InTransaction(e)
        BY <3>4, <2>8 DEF InTransaction, IdleRecorder
      <4> QED
        BY <4>1, <3>1, <3>4 DEF LocksHeld
    <3> QED
      BY <3>3, <3>4
  <2>12. CountsSeen'
    <3> SUFFICES ASSUME NEW d \in Readers, reader[d].pc = "iterations"
                 PROVE  reader[d].count <= goalRun'[reader[d].run].count
      BY <2>1 DEF CountsSeen
    <3>1. reader[d].run \in Runs /\ reader[d].count \in Nat
            /\ reader[d].count <= goalRun[reader[d].run].count
      BY DEF CountsSeen, TypeOK, ReaderState
    <3>2. goalRun[reader[d].run].count \in Nat
      BY <3>1, <2>4 DEF GoalRunState
    <3> QED
      BY <3>1, <3>2, <2>3, <2>5
  <2>13. PlanUnpinned'
    <3>1. ASSUME NEW m \in compactor'.plan \ compactor'.since PROVE ~Pinned(m)'
      <4>1. m \in Records /\ m \in compactor.plan \ compactor.since
        BY <2>7, <3>1 DEF CompactorState
      <4>2. CASE compactor'.pc = "idle"
        BY <4>2, <4>1, <2>7 DEF TypeOK
      <4>3. CASE compactor'.pc # "idle"
        <5>1. m \notin linked /\ memory'[m].run = memory[m].run
          BY <4>1, <4>3, <3>1, <2>6, <2>7
        <5> QED
          BY <5>1, <4>1, <2>5 DEF PlanUnpinned, Pinned, Active
      <4> QED
        BY <4>2, <4>3
    <3>2. ASSUME NEW m \in Records, memory'[m].run \in Runs
          PROVE  goalRun'[memory'[m].run].status # "none"
      BY <3>2, <2>3, <2>5, <2>6 DEF PlanUnpinned, Active
    <3> QED
      BY <3>1, <3>2 DEF PlanUnpinned
  <2> QED
    BY <2>9, <2>10, <2>11, <2>12, <2>13
<1> QED
  BY <1>1, <1>2

-----------------------------------------------------------------------------
\* Start and close; the reads; compaction.
LEMMA RunKeeps ==
  ASSUME GoalRunsInv, NEW g \in Runs, Start(g) \/ CloseRun(g)
  PROVE  GoalRunsInv'
<1> USE DEF GoalRunsInv
<1> PICK status \in {"active", "closed"} :
        /\ goalRun' = [goalRun EXCEPT ![g].status = status]
        /\ status = "active" => goalRun[g].status = "none"
        /\ status = "closed" => ~RunLocked(g)
  BY DEF Start, CloseRun
<1>1. UNCHANGED <<iteration, memory, recorder, reader, compactor>>
  BY DEF Start, CloseRun
<1>2. goalRun \in [Runs -> GoalRunState]
  BY DEF TypeOK
<1>3. /\ goalRun' \in [Runs -> GoalRunState]
      /\ \A h \in Runs : /\ goalRun'[h].count = goalRun[h].count
                         /\ goalRun'[h].status = IF h = g THEN status ELSE goalRun[h].status
  BY <1>2 DEF GoalRunState
<1>4. TypeOK'
  BY <1>1, <1>3 DEF TypeOK
<1>5. IterationsConsecutive'
  BY <1>1, <1>3 DEF IterationsConsecutive
<1>6. LocksHeld'
  <2> SUFFICES ASSUME NEW c \in Recorders, InTransaction(c)
               PROVE  /\ goalRun'[recorder[c].run].status = "active"
                      /\ goalRun'[recorder[c].run].count = goalRun[recorder[c].run].count
    BY <1>1 DEF LocksHeld, InTransaction, Active
  <2>1. recorder[c].run \in Runs /\ Active(recorder[c].run)
    BY DEF LocksHeld, InTransaction, TypeOK
  <2>2. status = "closed" => recorder[c].run # g
    BY DEF RunLocked
  <2> QED
    BY <2>1, <2>2, <1>3 DEF Active
<1>7. CountsSeen'
  BY <1>1, <1>3 DEF CountsSeen, TypeOK
<1>8. PlanUnpinned'
  <2>1. ASSUME NEW m \in compactor.plan \ compactor.since PROVE ~Pinned(m)'
    <3>1. m \in Records
      BY DEF TypeOK, CompactorState
    <3>2. ~Pinned(m) /\ (memory[m].run \in Runs => goalRun[memory[m].run].status # "none")
      BY <3>1, <2>1 DEF PlanUnpinned
    <3> QED
      BY <3>2, <1>1, <1>3 DEF Pinned, Active
  <2>2. ASSUME NEW m \in Records, memory[m].run \in Runs
        PROVE  goalRun'[memory[m].run].status # "none"
    BY <2>2, <1>3 DEF PlanUnpinned
  <2> QED
    BY <2>1, <2>2, <1>1 DEF PlanUnpinned
<1> QED
  BY <1>4, <1>5, <1>6, <1>7, <1>8

LEMMA ReaderKeeps ==
  ASSUME GoalRunsInv, NEW d \in Readers, (\E g \in Runs : GetRun(d, g)) \/ GetIterations(d)
  PROVE  GoalRunsInv'
<1> USE DEF GoalRunsInv
<1>1. PICK k \in ReaderState :
        /\ reader' = [reader EXCEPT ![d] = k]
        /\ k.pc # "idle" => k.run \in Runs /\ k.count = goalRun[k.run].count
  <2>1. CASE GetIterations(d)
    BY <2>1, IdleOK DEF GetIterations, IdleReader
  <2>2. CASE \E g \in Runs : GetRun(d, g)
    <3> PICK g \in Runs : GetRun(d, g)
      BY <2>2
    <3>1. goalRun[g].count \in Nat
      BY DEF TypeOK, GoalRunState
    <3> DEFINE k == [pc |-> "iterations", run |-> g, count |-> goalRun[g].count]
    <3>2. k \in ReaderState /\ k.run = g /\ k.count = goalRun[g].count
      BY <3>1 DEF ReaderState
    <3>3. reader' = [reader EXCEPT ![d] = k]
      BY DEF GetRun
    <3> QED
      BY <3>2, <3>3
  <2> QED
    BY <2>1, <2>2
<1>2. UNCHANGED <<goalRun, iteration, memory, recorder, compactor>>
  BY DEF GetRun, GetIterations
<1>3. reader \in [Readers -> ReaderState] /\ goalRun \in [Runs -> GoalRunState]
  BY DEF TypeOK
<1>4. \A e \in Readers : reader'[e] = IF e = d THEN k ELSE reader[e]
  BY <1>1, <1>3
<1>5. TypeOK'
  <2>1. reader' \in [Readers -> ReaderState]
    BY <1>1, <1>3
  <2> QED
    BY <2>1, <1>1, <1>2, <1>4 DEF TypeOK
<1>6. CountsSeen'
  <2>1. k.pc # "idle" => k.count <= goalRun[k.run].count
    BY <1>1, <1>3 DEF GoalRunState
  <2> QED
    BY <2>1, <1>2, <1>4 DEF CountsSeen
<1>7. (IterationsConsecutive /\ LocksHeld /\ PlanUnpinned)'
  BY <1>2 DEF IterationsConsecutive, LocksHeld, InTransaction, Active, PlanUnpinned, Pinned
<1> QED
  BY <1>5, <1>6, <1>7

LEMMA CompactionKeeps ==
  ASSUME GoalRunsInv, ListMemory \/ ApplyCompactionRecord \/ CompactionEnds
  PROVE  GoalRunsInv'
<1> USE DEF GoalRunsInv
<1>1. UNCHANGED <<goalRun, iteration, recorder, reader>>
  BY DEF ListMemory, ApplyCompactionRecord, CompactionEnds
<1>2. memory \in [Records -> MemoryState] /\ compactor \in CompactorState
  BY DEF TypeOK
<1>3. /\ compactor' \in CompactorState
      /\ compactor'.pc = "idle" => compactor'.plan = {}
      /\ \A m \in compactor'.plan \ compactor'.since : m \in Records /\ ~Pinned(m)
  <2>1. CASE ListMemory
    BY <2>1 DEF ListMemory, ListUnpinned, CompactorState
  <2>2. CASE ApplyCompactionRecord
    BY <2>2, <1>2 DEF ApplyCompactionRecord, CompactorState, PlanUnpinned
  <2>3. CASE CompactionEnds
    BY <2>3, IdleOK DEF CompactionEnds, IdleCompactor
  <2> QED
    BY <2>1, <2>2, <2>3
<1>4. /\ memory' \in [Records -> MemoryState]
      /\ \A m \in Records : /\ memory'[m].run = memory[m].run
                            /\ MemoryLocked(m) => memory'[m].live = memory[m].live
  <2>1. CASE memory' = memory
    BY <2>1, <1>2
  <2>2. CASE ApplyCompactionRecord
    <3> PICK x \in compactor.plan :
            ~MemoryLocked(x) /\ memory' = [memory EXCEPT ![x].live = FALSE]
      BY <2>2 DEF ApplyCompactionRecord
    <3> QED
      BY <1>2 DEF MemoryState
  <2> QED
    BY <2>1, <2>2 DEF ListMemory, CompactionEnds
<1>5. TypeOK'
  <2>1. ASSUME NEW c \in Recorders, NEW m \in recorder[c].linked PROVE memory'[m].live
    <3>1. m \in Records /\ MemoryLocked(m) /\ memory[m].live
      BY <2>1 DEF TypeOK, RecorderState, MemoryLocked, LockedBy
    <3> QED
      BY <3>1, <1>4
  <2> QED
    BY <2>1, <1>1, <1>3, <1>4 DEF TypeOK
<1>6. (IterationsConsecutive /\ LocksHeld /\ CountsSeen)'
  BY <1>1 DEF IterationsConsecutive, LocksHeld, InTransaction, Active, CountsSeen
<1>7. PlanUnpinned'
  BY <1>1, <1>3, <1>4 DEF PlanUnpinned, Pinned, Active
<1> QED
  BY <1>5, <1>6, <1>7

LEMMA InvStep == GoalRunsInv /\ [Next]_vars => GoalRunsInv'
<1> SUFFICES ASSUME GoalRunsInv, [Next]_vars PROVE GoalRunsInv'
  OBVIOUS
<1>1. CASE \E g \in Runs : Start(g) \/ CloseRun(g)
  BY <1>1, RunKeeps
<1>2. CASE \E c \in Recorders : (\E g \in Runs : RecordIteration(c, g)) \/ RecorderStep(c)
  BY <1>2, UncommittedKeeps, CommitKeeps DEF RecorderStep
<1>3. CASE \E d \in Readers : (\E g \in Runs : GetRun(d, g)) \/ GetIterations(d)
  BY <1>3, ReaderKeeps
<1>4. CASE ListMemory \/ ApplyCompactionRecord \/ CompactionEnds
  BY <1>4, CompactionKeeps
<1>5. CASE UNCHANGED vars
  BY <1>5 DEF vars, GoalRunsInv, TypeOK, IterationsConsecutive, LocksHeld, InTransaction,
              Active, CountsSeen, PlanUnpinned, Pinned
<1> QED
  BY <1>1, <1>2, <1>3, <1>4, <1>5 DEF Next

LEMMA Always == Spec => []GoalRunsInv
BY InvInit, InvStep, PTL DEF Spec

-----------------------------------------------------------------------------
(***************************************************************************)
(* The types, and the locals of a call under way: in particular no row a   *)
(* transaction has locked is deleted by compaction.                        *)
(***************************************************************************)
THEOREM TypeCorrect == Spec => []TypeOK
BY Always, PTL DEF GoalRunsInv

(***************************************************************************)
(* recordIteration: the iterations of a run are 1 to iteration_count.      *)
(***************************************************************************)
THEOREM Consecutive == Spec => []IterationsConsecutive
BY Always, PTL DEF GoalRunsInv

(***************************************************************************)
(* closeRun: a closed run never changes again.  A commit is no exception   *)
(* because its transaction has had the run's row locked since it saw the   *)
(* run active.                                                             *)
(***************************************************************************)
THEOREM ClosedIsFinal == Spec => ClosedRunIsFinal
<1>1. ASSUME GoalRunsInv, [Next]_vars, NEW g \in Runs, goalRun[g].status = "closed"
      PROVE  goalRun'[g] = goalRun[g] /\ iteration'[g] = iteration[g]
  <2>1. goalRun \in [Runs -> GoalRunState] /\ iteration \in [Runs -> SUBSET Nat]
    BY <1>1 DEF GoalRunsInv, TypeOK
  <2>2. CASE \E h \in Runs : Start(h) \/ CloseRun(h)
    BY <1>1, <2>1, <2>2 DEF Start, CloseRun, Active
  <2>3. ASSUME NEW c \in Recorders, Commit(c)
        PROVE  goalRun'[g] = goalRun[g] /\ iteration'[g] = iteration[g]
    <3>1. recorder[c].run # g
      BY <1>1, <2>3 DEF GoalRunsInv, LocksHeld, InTransaction, Active, Commit
    <3> QED
      BY <2>1, <2>3, <3>1 DEF Commit
  <2>4. CASE UNCHANGED <<goalRun, iteration>>
    BY <2>4
  <2> QED
    BY <1>1, <2>2, <2>3, <2>4
       DEF Next, RecorderStep, RecordIteration, Bump, InsertIteration, LinkMemory,
           DeadlockDetected, GetRun, GetIterations, ListMemory, ApplyCompactionRecord,
           CompactionEnds, vars
<1>2. GoalRunsInv /\ [Next]_vars =>
        [\A g \in Runs : goalRun[g].status = "closed" =>
            goalRun'[g] = goalRun[g] /\ iteration'[g] = iteration[g]]_vars
  BY <1>1
<1> QED
  BY <1>2, Always, PTL DEF Spec, ClosedRunIsFinal

(***************************************************************************)
(* get: the iterations it reads are at least as many as the count it read  *)
(* before them, because counts only grow and the indexes are consecutive.  *)
(***************************************************************************)
THEOREM GetConsistent == Spec => GetSeesItsCount
<1>1. ASSUME GoalRunsInv, NEW d \in Readers, reader[d].pc = "iterations"
      PROVE  LET seen == iteration[reader[d].run] IN
                seen = 1 .. Cardinality(seen) /\ Cardinality(seen) >= reader[d].count
  <2> DEFINE n == goalRun[reader[d].run].count
             seen == iteration[reader[d].run]
  <2>1. reader[d].run \in Runs /\ n \in Nat /\ reader[d].count \in Nat
    BY <1>1 DEF GoalRunsInv, TypeOK, ReaderState, GoalRunState
  <2>2. seen = 1 .. n /\ reader[d].count <= n
    BY <1>1, <2>1 DEF GoalRunsInv, IterationsConsecutive, CountsSeen
  <2>3. \A k \in Nat : Cardinality(1 .. k) = k
    <3> SUFFICES ASSUME NEW k \in Nat PROVE Cardinality(1 .. k) = k
      OBVIOUS
    <3>1. 1 \in Int /\ k \in Int
      OBVIOUS
    <3>2. Cardinality(1 .. k) = IF 1 > k THEN 0 ELSE k - 1 + 1
      BY <3>1, FS_Interval
    <3> QED
      BY <3>2
  <2> QED
    BY <2>1, <2>2, <2>3
<1>2. GoalRunsInv /\ [Next]_vars =>
        [\A d \in Readers :
            LET seen == iteration[reader[d].run] IN
            reader[d].pc = "iterations" /\ reader'[d].pc = "idle" =>
                seen = 1 .. Cardinality(seen) /\ Cardinality(seen) >= reader[d].count]_vars
  BY <1>1
<1> QED
  BY <1>2, Always, PTL DEF Spec, GetSeesItsCount

(***************************************************************************)
(* The pin of an active run: what compaction archives was not pinned when  *)
(* it listed the scope, and a closed run is never active again.            *)
(***************************************************************************)
THEOREM PinKept == Spec => PinHolds
<1>1. ASSUME GoalRunsInv, [Next]_vars, NEW m \in Records,
             memory[m].live, ~memory'[m].live, m \notin compactor.since
      PROVE  ~Pinned(m)
  <2>1. memory \in [Records -> MemoryState]
    BY <1>1 DEF GoalRunsInv, TypeOK
  <2>2. CASE ApplyCompactionRecord
    <3> PICK x \in compactor.plan : memory' = [memory EXCEPT ![x].live = FALSE]
      BY <2>2 DEF ApplyCompactionRecord
    <3>1. x = m
      BY <1>1, <2>1
    <3> QED
      BY <1>1, <3>1 DEF GoalRunsInv, PlanUnpinned
  <2>3. ASSUME NEW c \in Recorders, Commit(c) PROVE memory'[m].live = memory[m].live
    BY <2>1, <2>3 DEF Commit, MemoryState
  <2>4. CASE memory' = memory
    BY <1>1, <2>4
  <2> QED
    BY <1>1, <2>2, <2>3, <2>4
       DEF Next, RecorderStep, RecordIteration, Bump, InsertIteration, LinkMemory,
           DeadlockDetected, GetRun, GetIterations, ListMemory, Start, CloseRun,
           CompactionEnds, vars
<1>2. GoalRunsInv /\ [Next]_vars =>
        [\A m \in Records :
            memory[m].live /\ ~memory'[m].live /\ m \notin compactor.since => ~Pinned(m)]_vars
  BY <1>1
<1> QED
  BY <1>2, Always, PTL DEF Spec, PinHolds

=============================================================================
