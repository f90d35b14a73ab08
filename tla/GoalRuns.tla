------------------------------ MODULE GoalRuns ------------------------------
(***************************************************************************)
(* Goal runs: record_iteration's transaction, the statements that close a  *)
(* run, get_goal_run's two reads, and compact_memory as far as the pin of  *)
(* an active run's memories goes.  Postgres runs them READ COMMITTED: a    *)
(* statement sees what is committed when it starts, waits for row locks,   *)
(* and checks its WHERE clause again once it has them.  What a transaction *)
(* wrote is in its locals until it commits.                                *)
(***************************************************************************)
EXTENDS Naturals, FiniteSets, Sequences

CONSTANTS
    Runs,           \* goal_runs ids
    Records,        \* memory_records of the organization
    MemoryIds,      \* the sets of records calls link
    Recorders,      \* record_iteration calls in flight
    Readers,        \* get_goal_run calls in flight
    NoRun,
    MaxIterations,  \* bound: iterations of a run, those in flight included
    Faults          \* "db": a statement throws, or its process stops: it did nothing

ASSUME GoalRunsAssumption ==
    /\ NoRun \notin Runs
    /\ MemoryIds \subseteq SUBSET Records /\ \A ids \in MemoryIds : IsFiniteSet(ids)
    /\ MaxIterations \in Nat
    /\ Faults \subseteq {"db"}

VARIABLES
    goalRun,    \* goal_runs
    iteration,  \* goal_run_iterations: the indexes each run has
    memory,     \* memory_records: there or not, goal_run_id
    recorder, reader, compactor

vars == <<goalRun, iteration, memory, recorder, reader, compactor>>

\* closed: completed or abandoned, which nothing tells apart.
GoalRunState == [status : {"none", "active", "closed"}, count : Nat]
MemoryState == [live : BOOLEAN, run : Runs \cup {NoRun}]

(***************************************************************************)
(* toLink: the memoryIds the linking UPDATE has yet to visit, in the order *)
(* of its scan.  linked: the rows it has updated, and so has locked.       *)
(***************************************************************************)
RecorderState == [pc : {"idle", "bump", "insert", "link", "commit"},
                  run : Runs \cup {NoRun}, index : Nat,
                  toLink : Seq(Records), linked : SUBSET Records]
ReaderState == [pc : {"idle", "iterations"}, run : Runs \cup {NoRun}, count : Nat]

\* since: those of plan linked since the scope was listed (no variable of the code).
CompactorState == [pc : {"idle", "archive"}, plan : SUBSET Records, since : SUBSET Records]

IdleRecorder == [pc |-> "idle", run |-> NoRun, index |-> 0, toLink |-> <<>>, linked |-> {}]
IdleReader == [pc |-> "idle", run |-> NoRun, count |-> 0]
IdleCompactor == [pc |-> "idle", plan |-> {}, since |-> {}]

\* Types of every variable; a call under way knows its run; a locked row is there.
TypeOK ==
    /\ goalRun \in [Runs -> GoalRunState]
    /\ iteration \in [Runs -> SUBSET Nat]
    /\ memory \in [Records -> MemoryState]
    /\ recorder \in [Recorders -> RecorderState]
    /\ reader \in [Readers -> ReaderState]
    /\ compactor \in CompactorState
    /\ \A c \in Recorders : recorder[c].pc # "idle" => recorder[c].run \in Runs
    /\ \A c \in Recorders : recorder[c].pc = "link" => recorder[c].toLink # <<>>
    /\ \A c \in Recorders : \A m \in recorder[c].linked : memory[m].live
    /\ \A d \in Readers : reader[d].pc # "idle" => reader[d].run \in Runs
    /\ compactor.pc = "idle" => compactor.plan = {}

Init ==
    /\ goalRun = [g \in Runs |-> [status |-> "none", count |-> 0]]
    /\ iteration = [g \in Runs |-> {}]
    /\ memory = [m \in Records |-> [live |-> TRUE, run |-> NoRun]]
    /\ recorder = [c \in Recorders |-> IdleRecorder]
    /\ reader = [d \in Readers |-> IdleReader]
    /\ compactor = IdleCompactor

Active(g) == goalRun[g].status = "active"

\* Row locks: a transaction holds those of the rows it updated.
InTransaction(c) == recorder[c].pc \in {"insert", "link", "commit"}
RunLocked(g) == \E c \in Recorders : recorder[c].run = g /\ InTransaction(c)
LockedBy(c, m) == m \in recorder[c].linked

MemoryLocked(m) == \E c \in Recorders : LockedBy(c, m)

-----------------------------------------------------------------------------
(***************************************************************************)
(* Single statements: start, complete and abandon.                         *)
(***************************************************************************)
Start(g) ==
    /\ goalRun[g].status = "none"
    /\ goalRun' = [goalRun EXCEPT ![g].status = "active"]
    /\ UNCHANGED <<iteration, memory, recorder, reader, compactor>>

CloseRun(g) ==
    /\ Active(g)
    /\ ~RunLocked(g)
    /\ goalRun' = [goalRun EXCEPT ![g].status = "closed"]
    /\ UNCHANGED <<iteration, memory, recorder, reader, compactor>>

-----------------------------------------------------------------------------
(***************************************************************************)
(* record_iteration.                                                       *)
(***************************************************************************)
Orders(ids) ==
    {s \in [1 .. Cardinality(ids) -> ids] : \A m \in ids : \E i \in DOMAIN s : s[i] = m}

RecordTo(c, pc) == recorder' = [recorder EXCEPT ![c].pc = pc]

(***************************************************************************)
(* A statement that throws aborts the transaction, and a bump that returns *)
(* no row wrote nothing: the ROLLBACK that follows frees nothing more.     *)
(***************************************************************************)
RecordFails(c) == recorder' = [recorder EXCEPT ![c] = IdleRecorder]

RecordIteration(c, g) ==
    /\ recorder[c].pc = "idle"
    /\ goalRun[g].status # "none"
    /\ goalRun[g].count + Cardinality({d \in Recorders : recorder[d].run = g}) < MaxIterations
    /\ recorder' = [recorder EXCEPT ![c] = [IdleRecorder EXCEPT !.pc = "bump", !.run = g]]
    /\ UNCHANGED <<goalRun, iteration, memory, reader, compactor>>

\* Mutant: a closed run takes iterations, too.
AcceptsAny(g) == goalRun[g].status # "none"

AcceptsIterations(g) == Active(g)

(***************************************************************************)
(* The conditional bump locks the run's row, or returns no row.            *)
(***************************************************************************)
Bump(c) ==
    LET g == recorder[c].run IN
    /\ recorder[c].pc = "bump"
    /\ ~RunLocked(g)
    /\ \/ /\ AcceptsIterations(g)
          /\ recorder' = [recorder EXCEPT ![c].pc = "insert",
                                          ![c].index = goalRun[g].count + 1]
       \/ (~AcceptsIterations(g) \/ "db" \in Faults) /\ RecordFails(c)
    /\ UNCHANGED <<goalRun, iteration, memory, reader, compactor>>

(***************************************************************************)
(* UNIQUE (goal_run_id, iteration_index).  The memoryIds of the call, in   *)
(* the order in which the next statement will come across their rows.      *)
(***************************************************************************)
InsertIteration(c) ==
    LET taken == recorder[c].index \in iteration[recorder[c].run] IN
    /\ recorder[c].pc = "insert"
    /\ \/ /\ ~taken
          /\ \E memoryIds \in MemoryIds : \E order \in Orders(memoryIds) :
                recorder' = [recorder EXCEPT
                    ![c].toLink = order,
                    ![c].pc = IF order = <<>> THEN "commit" ELSE "link"]
       \/ (taken \/ "db" \in Faults) /\ RecordFails(c)
    /\ UNCHANGED <<goalRun, iteration, memory, reader, compactor>>

(***************************************************************************)
(* The linking UPDATE visits a row: it waits while another transaction has *)
(* the row and skips one that was deleted meanwhile.                       *)
(***************************************************************************)
LinkMemory(c) ==
    LET m == Head(recorder[c].toLink)
        rest == Tail(recorder[c].toLink) IN
    /\ recorder[c].pc = "link"
    /\ \/ /\ \A d \in Recorders : ~LockedBy(d, m)
          /\ recorder' = [recorder EXCEPT
                ![c].toLink = rest,
                ![c].linked = IF memory[m].live THEN @ \cup {m} ELSE @,
                ![c].pc = IF rest = <<>> THEN "commit" ELSE @]
       \/ "db" \in Faults /\ RecordFails(c)
    /\ UNCHANGED <<goalRun, iteration, memory, reader, compactor>>

\* Postgres finds a cycle of waits and makes one of the statements throw.
Waits(c, d) == recorder[c].pc = "link" /\ LockedBy(d, Head(recorder[c].toLink))
DeadlockDetected(c) ==
    /\ \E S \in SUBSET Recorders :
        c \in S /\ \A d \in S : (\E e \in S : Waits(d, e)) /\ (\E e \in S : Waits(e, d))
    /\ RecordFails(c)
    /\ UNCHANGED <<goalRun, iteration, memory, reader, compactor>>

\* Mutant: the insert is not in the transaction of the bump, which is lost to it.
CommitBumpOnly(c) ==
    /\ recorder[c].pc = "commit"
    /\ goalRun' = [goalRun EXCEPT ![recorder[c].run].count = recorder[c].index]
    /\ recorder' = [recorder EXCEPT ![c] = IdleRecorder]
    /\ UNCHANGED <<iteration, memory, reader, compactor>>

Commit(c) ==
    LET g == recorder[c].run
        linked == recorder[c].linked IN
    /\ recorder[c].pc = "commit"
    /\ \/ /\ goalRun' = [goalRun EXCEPT ![g].count = recorder[c].index]
          /\ iteration' = [iteration EXCEPT ![g] = @ \cup {recorder[c].index}]
          /\ memory' = [m \in Records |->
                IF m \in linked THEN [memory[m] EXCEPT !.run = g] ELSE memory[m]]
          /\ compactor' = IF compactor.pc = "idle" THEN compactor
                          ELSE [compactor EXCEPT !.since = @ \cup (linked \cap compactor.plan)]
          /\ recorder' = [recorder EXCEPT ![c] = IdleRecorder]
       \/ /\ "db" \in Faults
          /\ RecordFails(c)
          /\ UNCHANGED <<goalRun, iteration, memory, compactor>>
    /\ UNCHANGED reader

RecorderStep(c) ==
    \/ Bump(c) \/ InsertIteration(c) \/ LinkMemory(c) \/ DeadlockDetected(c)
    \/ Commit(c)

-----------------------------------------------------------------------------
(***************************************************************************)
(* get_goal_run, build_goal_context and check_repeat_attempt read the run, *)
(* then its iterations, in two statements.                                 *)
(***************************************************************************)
GetRun(d, g) ==
    /\ reader[d].pc = "idle"
    /\ goalRun[g].status # "none"
    /\ reader' = [reader EXCEPT ![d] =
            [pc |-> "iterations", run |-> g, count |-> goalRun[g].count]]
    /\ UNCHANGED <<goalRun, iteration, memory, recorder, compactor>>

GetIterations(d) ==
    /\ reader[d].pc = "iterations"
    /\ reader' = [reader EXCEPT ![d] = IdleReader]
    /\ UNCHANGED <<goalRun, iteration, memory, recorder, compactor>>

-----------------------------------------------------------------------------
(***************************************************************************)
(* compact_memory: the pin is looked at when the scope is listed.  Any     *)
(* unpinned records may be duplicates or have decayed.                     *)
(***************************************************************************)
Pinned(m) == memory[m].run \in Runs /\ Active(memory[m].run)

\* Mutant: listMemory is not asked to leave pinned records out.
ListPinned == {m \in Records : memory[m].live}

ListUnpinned == {m \in Records : memory[m].live /\ ~Pinned(m)}

ListMemory ==
    /\ compactor.pc = "idle"
    /\ \E plan \in SUBSET ListUnpinned :
        compactor' = [pc |-> "archive", plan |-> plan, since |-> {}]
    /\ UNCHANGED <<goalRun, iteration, memory, recorder, reader>>

\* Waits for a transaction that is linking the record; linking leaves updated_at.
ApplyCompactionRecord ==
    /\ compactor.pc = "archive"
    /\ \E m \in compactor.plan :
        /\ ~MemoryLocked(m)
        /\ memory' = [memory EXCEPT ![m].live = FALSE]
        /\ compactor' = [compactor EXCEPT !.plan = @ \ {m}, !.since = @ \ {m}]
    /\ UNCHANGED <<goalRun, iteration, recorder, reader>>

CompactionEnds ==
    /\ compactor.pc = "archive"
    /\ compactor.plan = {} \/ "db" \in Faults
    /\ compactor' = IdleCompactor
    /\ UNCHANGED <<goalRun, iteration, memory, recorder, reader>>

Next ==
    \/ \E g \in Runs : Start(g) \/ CloseRun(g)
    \/ \E c \in Recorders : (\E g \in Runs : RecordIteration(c, g)) \/ RecorderStep(c)
    \/ \E d \in Readers : (\E g \in Runs : GetRun(d, g)) \/ GetIterations(d)
    \/ ListMemory \/ ApplyCompactionRecord \/ CompactionEnds

Spec == Init /\ [][Next]_vars

-----------------------------------------------------------------------------
(***************************************************************************)
(* Whatever commits, rolls back or is closed in whatever order, a run's    *)
(* iterations are numbered 1 to iteration_count.                           *)
(***************************************************************************)
IterationsConsecutive == \A g \in Runs : iteration[g] = 1 .. goalRun[g].count

(***************************************************************************)
(* docs/api-reference.md, "Closed ... runs fail rather than accepting new  *)
(* iterations": not even one whose transaction began while it was active.  *)
(***************************************************************************)
ClosedRunIsFinal ==
    [][\A g \in Runs :
        goalRun[g].status = "closed" =>
            goalRun'[g] = goalRun[g] /\ iteration'[g] = iteration[g]]_vars

(***************************************************************************)
(* get_goal_run never shows fewer iterations than the count beside them,   *)
(* and those it shows are the first ones, without gaps.                    *)
(***************************************************************************)
GetSeesItsCount ==
    [][\A d \in Readers :
        LET seen == iteration[reader[d].run] IN
        reader[d].pc = "iterations" /\ reader'[d].pc = "idle" =>
            seen = 1 .. Cardinality(seen) /\ Cardinality(seen) >= reader[d].count]_vars

(***************************************************************************)
(* The pin: compaction archives a record whose run is active only if it    *)
(* was linked to that run after compaction had listed the scope.           *)
(***************************************************************************)
PinHolds ==
    [][\A m \in Records :
        memory[m].live /\ ~memory'[m].live /\ m \notin compactor.since => ~Pinned(m)]_vars

-----------------------------------------------------------------------------
(***************************************************************************)
(* What makes these inductive: the row lock a transaction has taken keeps  *)
(* its run active, its index next and other transactions out; a get's      *)
(* count is one the run has passed; the plan is unpinned but for records   *)
(* linked since, and a record is linked only to a run that was started.    *)
(***************************************************************************)
LocksHeld ==
    \A c \in Recorders : InTransaction(c) =>
        /\ Active(recorder[c].run)
        /\ recorder[c].index = goalRun[recorder[c].run].count + 1
        /\ \A d \in Recorders :
            InTransaction(d) /\ recorder[d].run = recorder[c].run => d = c

CountsSeen ==
    \A d \in Readers :
        reader[d].pc = "iterations" => reader[d].count <= goalRun[reader[d].run].count

PlanUnpinned ==
    /\ \A m \in compactor.plan \ compactor.since : ~Pinned(m)
    /\ \A m \in Records : memory[m].run \in Runs => goalRun[memory[m].run].status # "none"

GoalRunsInv ==
    TypeOK /\ IterationsConsecutive /\ LocksHeld /\ CountsSeen /\ PlanUnpinned

=============================================================================
