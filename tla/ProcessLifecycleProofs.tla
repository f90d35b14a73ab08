----------------------- MODULE ProcessLifecycleProofs -----------------------
(***************************************************************************)
(* Proofs about ProcessLifecycle, for any number of loops, calls and       *)
(* bootstraps: one lemma per action, all about LifecycleInv.               *)
(***************************************************************************)
EXTENDS ProcessLifecycle, TLAPS

USE LifecycleAssumption

\* What a timer's callback, its end and a loop's stop change of a loop.
LEMMA LoopFields ==
  ASSUME NEW f \in [Loops -> LoopState], NEW l \in Loops,
         NEW a \in BOOLEAN, NEW b \in BOOLEAN
  PROVE  /\ [f EXCEPT ![l].timer = a, ![l].sweep = b] \in [Loops -> LoopState]
         /\ [f[l] EXCEPT !.stopped = a, !.timer = b] \in LoopState
         /\ [f[l] EXCEPT !.stopped = a, !.timer = b].timer = b
         /\ [f[l] EXCEPT !.stopped = a, !.timer = b].sweep = f[l].sweep
<1>1. f[l] \in LoopState
  OBVIOUS
<1> DEFINE g == [f EXCEPT ![l].timer = a]
<1>2. [f[l] EXCEPT !.timer = a] \in LoopState
  BY <1>1 DEF LoopState
<1>3. g \in [Loops -> LoopState]
  BY <1>2
<1>4. [g[l] EXCEPT !.sweep = b] \in LoopState
  BY <1>3 DEF LoopState
<1>5. [g EXCEPT ![l].sweep = b] \in [Loops -> LoopState]
  BY <1>3, <1>4
<1>6. [f EXCEPT ![l].timer = a, ![l].sweep = b] = [g EXCEPT ![l].sweep = b]
  OBVIOUS
<1> QED
  BY <1>1, <1>5, <1>6 DEF LoopState

(***************************************************************************)
(* Nothing happens yet when a server begins to listen or a worker starts.  *)
(***************************************************************************)
LEMMA InvInit == Init => LifecycleInv
<1> SUFFICES ASSUME Init PROVE LifecycleInv
  OBVIOUS
<1>1. TypeOK
  <2>1. loop \in [Loops -> LoopState]
    BY DEF Init, LoopState, IdleLoop
  <2>2. /\ boot \in [Owners -> BootState]
        /\ opened \in 0 .. MaxPools /\ open \subseteq 1 .. opened
    BY DEF Init, BootState, IdleBoot, Owners
  <2>3. \A o \in Owners : boot[o].pc # "idle" => boot[o].pool \in open
    BY DEF Init, IdleBoot, Owners
  <2>4. workers = "starting" => boot["workers"].pc # "idle"
    BY DEF Init, Owners
  <2>5. /\ services \in [Owners -> 0 .. MaxPools]
        /\ call \in [Calls -> {"idle", "waiting", "running"}]
        /\ \A c \in Calls : call[c] # "waiting"
    BY DEF Init
  <2>6. kind \in Kinds /\ http \in {"off", "starting"} /\ workers \in {"none", "starting", "running"}
    BY DEF Init
  <2> QED
    BY <2>1, <2>2, <2>3, <2>4, <2>5, <2>6 DEF Init, TypeOK
<1>2. PoolOutlivesUsers /\ PoolsAccounted
  BY DEF Init, PoolOutlivesUsers, PoolsAccounted, IdleBoot, IdleLoop, Owners
<1>3. PoolsApart
  BY DEF Init, PoolsApart, Bootstrapping, IdleBoot, Owners
<1>4. LoopsAgree /\ CleanupAwaited
  BY DEF Init, LoopsAgree, CleanupAwaited, Bootstrapping, IdleBoot, IdleLoop, Owners
<1> QED
  BY <1>1, <1>2, <1>3, <1>4 DEF LifecycleInv

LEMMA RunMigrationsKeeps ==
  ASSUME LifecycleInv, NEW o \in Owners, RunMigrations(o)
  PROVE  LifecycleInv'
<1>1. TypeOK'
  <2>1. boot' \in [Owners -> BootState]
    BY DEF LifecycleInv, TypeOK, RunMigrations, BootFails, BootState, IdleBoot
  <2>2. call' \in [Calls -> {"idle", "waiting", "running"}]
    BY DEF LifecycleInv, TypeOK, RunMigrations, BootFails, SettleCalls
  <2>3. \A q \in Owners : boot'[q].pc # "idle" => boot'[q].pool \in open'
    BY DEF LifecycleInv, TypeOK, PoolsApart, Bootstrapping, RunMigrations, BootFails, EndPool,
           IdleBoot, BootState
  <2>4. leaked' \subseteq open' /\ open' \subseteq 1 .. opened'
    BY DEF LifecycleInv, TypeOK, PoolsApart, RunMigrations, BootFails, EndPool
  <2>5. \A c \in Calls : call'[c] = "waiting" => boot'["calls"].pc # "idle"
    BY DEF LifecycleInv, TypeOK, RunMigrations, BootFails, SettleCalls, Owners, BootState
  <2>6. workers' = "starting" => boot'["workers"].pc # "idle"
    BY DEF LifecycleInv, TypeOK, RunMigrations, BootFails, WorkersAbsent, Owners, BootState
  <2> QED
    BY <2>1, <2>2, <2>3, <2>4, <2>5, <2>6
       DEF LifecycleInv, TypeOK, RunMigrations, BootFails, WorkersAbsent
<1>2. PoolOutlivesUsers'
  BY DEF LifecycleInv, TypeOK, PoolOutlivesUsers, PoolsAccounted, PoolsApart,
         CleanupAwaited, Owners, Bootstrapping, Running, RunMigrations, EndPool,
         BootFails, SettleCalls, WorkersAbsent
<1>3. PoolsAccounted'
  BY DEF LifecycleInv, TypeOK, PoolOutlivesUsers, PoolsAccounted, CleanupAwaited,
         BootState, Owners, Bootstrapping, Running, RunMigrations, EndPool, BootFails,
         SettleCalls, WorkersAbsent
<1>4. PoolsApart'
  BY DEF LifecycleInv, TypeOK, PoolOutlivesUsers, PoolsAccounted, PoolsApart,
         CleanupAwaited, BootState, Owners, Bootstrapping, IdleBoot, Running,
         RunMigrations, EndPool, BootFails, SettleCalls, WorkersAbsent
<1>5. LoopsAgree'
  BY DEF LifecycleInv, LoopsAgree, TypeOK, PoolOutlivesUsers, PoolsAccounted,
         CleanupAwaited, BootState, Owners, Bootstrapping, IdleBoot, Running,
         RunMigrations, EndPool, BootFails, SettleCalls, WorkersAbsent
<1>6. CleanupAwaited'
  BY DEF LifecycleInv, LoopsAgree, TypeOK, PoolOutlivesUsers, PoolsAccounted,
         CleanupAwaited, Owners, Bootstrapping, Running, RunMigrations, EndPool,
         BootFails, SettleCalls, WorkersAbsent
<1> QED
  BY <1>1, <1>2, <1>3, <1>4, <1>5, <1>6 DEF LifecycleInv

LEMMA EnsureCollectionKeeps ==
  ASSUME LifecycleInv, NEW o \in Owners, EnsureCollection(o)
  PROVE  LifecycleInv'
<1>1. TypeOK'
  <2>1. boot' = [boot EXCEPT ![o] = IdleBoot] /\ boot' \in [Owners -> BootState]
    <3>1. IdleBoot \in BootState
      BY DEF IdleBoot, BootState
    <3>2. boot' = [boot EXCEPT ![o] = IdleBoot]
      BY DEF EnsureCollection, BootFails
    <3> QED
      BY <3>1, <3>2 DEF LifecycleInv, TypeOK
  <2>2. call' \in [Calls -> {"idle", "waiting", "running"}]
    BY DEF LifecycleInv, TypeOK, EnsureCollection, BootFails, SettleCalls
  <2>3. loop' \in [Loops -> LoopState]
    <3>1. \A started \in SUBSET Loops : \A l \in Loops :
            [IdleLoop EXCEPT !.timer = l \in started] \in LoopState
      <4>1. \A b \in BOOLEAN : [IdleLoop EXCEPT !.timer = b] \in LoopState
        BY DEF LoopState, IdleLoop
      <4>2. \A started \in SUBSET Loops : \A l \in Loops : (l \in started) \in BOOLEAN
        OBVIOUS
      <4> QED
        BY <4>1, <4>2, Zenon
    <3>2. \/ loop' = loop
          \/ \E started \in SUBSET Loops :
                loop' = [l \in Loops |-> [IdleLoop EXCEPT !.timer = l \in started]]
      BY DEF EnsureCollection, BootFails, StartLoops
    <3> QED
      BY <3>1, <3>2 DEF LifecycleInv, TypeOK
  <2>4. services' \in [Owners -> 0 .. MaxPools]
    BY DEF LifecycleInv, TypeOK, EnsureCollection, BootFails, StartLoops, BootState, Owners
  <2>5. \A q \in Owners : boot'[q].pc # "idle" => boot'[q].pool \in open'
    BY <2>1 DEF LifecycleInv, TypeOK, PoolsApart, Bootstrapping, EnsureCollection, BootFails,
           StartLoops, IdleBoot, Owners
  <2>6. leaked' \subseteq open' /\ open' \subseteq 1 .. opened'
    BY DEF LifecycleInv, TypeOK, PoolsApart, EnsureCollection, BootFails, StartLoops, Owners
  <2>7. \A c \in Calls : call'[c] = "waiting" => boot'["calls"].pc # "idle"
    BY <2>1 DEF LifecycleInv, TypeOK, EnsureCollection, BootFails, SettleCalls, Owners
  <2>8. workers' = "starting" => boot'["workers"].pc # "idle"
    BY <2>1 DEF LifecycleInv, TypeOK, EnsureCollection, BootFails, StartLoops, WorkersAbsent, Owners
  <2>9. /\ workers' \in {"none", "starting", "running", "stopping", "stopped"}
        /\ exit' \in {"no", "0", "1"}
    BY DEF LifecycleInv, TypeOK, EnsureCollection, BootFails, StartLoops, WorkersAbsent
  <2>10. UNCHANGED <<kind, http, opened, stream, cleanup, signaled>>
    BY DEF EnsureCollection
  <2> QED
    BY <2>1, <2>2, <2>3, <2>4, <2>5, <2>6, <2>7, <2>8, <2>9, <2>10 DEF LifecycleInv, TypeOK
<1>2. PoolOutlivesUsers'
  BY DEF LifecycleInv, TypeOK, PoolOutlivesUsers, PoolsAccounted, PoolsApart,
         CleanupAwaited, Owners, Bootstrapping, Running, EnsureCollection, BootFails,
         SettleCalls, WorkersAbsent, StartLoops
<1>3. PoolsAccounted'
  <2>1. boot' = [boot EXCEPT ![o] = IdleBoot] /\ boot \in [Owners -> BootState]
    BY DEF LifecycleInv, TypeOK, EnsureCollection, BootFails
  <2>2. CASE boot[o].pool \notin open' \/ boot[o].pool \in leaked'
    BY <2>1, <2>2 DEF LifecycleInv, TypeOK, PoolsAccounted, PoolsApart, Bootstrapping,
           EnsureCollection, BootFails, StartLoops, IdleBoot, Owners
  <2>3. CASE services' = [services EXCEPT ![o] = boot[o].pool] /\ leaked' = leaked
    BY <2>1, <2>3 DEF LifecycleInv, TypeOK, PoolsAccounted, PoolsApart, Bootstrapping,
           EnsureCollection, StartLoops, Owners
  <2> QED
    BY <2>1, <2>2, <2>3 DEF EnsureCollection, StartLoops, Owners
<1>4. PoolsApart'
  BY DEF LifecycleInv, TypeOK, PoolOutlivesUsers, PoolsAccounted, PoolsApart,
         CleanupAwaited, Owners, Bootstrapping, IdleBoot, Running, EnsureCollection,
         BootFails, SettleCalls, WorkersAbsent, StartLoops
<1>5. LoopsAgree'
  BY DEF LifecycleInv, LoopsAgree, TypeOK, PoolOutlivesUsers, PoolsAccounted,
         CleanupAwaited, Owners, Bootstrapping, IdleBoot, IdleLoop, Running,
         EnsureCollection, BootFails, SettleCalls, WorkersAbsent, StartLoops
<1>6. CleanupAwaited'
  BY DEF LifecycleInv, LoopsAgree, TypeOK, PoolOutlivesUsers, PoolsAccounted,
         CleanupAwaited, Owners, Bootstrapping, Running, EnsureCollection, BootFails,
         SettleCalls, WorkersAbsent, StartLoops
<1> QED
  BY <1>1, <1>2, <1>3, <1>4, <1>5, <1>6 DEF LifecycleInv

LEMMA RequestKeeps ==
  ASSUME LifecycleInv, NEW c \in Calls, Request(c)
  PROVE  LifecycleInv'
<1>1. TypeOK'
  <2>1. CASE ~Memoized /\ CreatePool("calls")
    <3>1. boot' \in [Owners -> BootState]
      <4>1. [pc |-> "migrate", pool |-> opened + 1] \in BootState
        BY <2>1 DEF LifecycleInv, TypeOK, CreatePool, BootState
      <4> QED
        BY <2>1, <4>1 DEF LifecycleInv, TypeOK, CreatePool
    <3>2. opened' \in 0 .. MaxPools /\ open \subseteq open' /\ open' \subseteq 1 .. opened'
      BY <2>1 DEF LifecycleInv, TypeOK, CreatePool
    <3>3. \A o \in Owners : boot'[o].pc # "idle" => boot'[o].pool \in open'
      BY <2>1, <3>2 DEF LifecycleInv, TypeOK, CreatePool
    <3>4. boot'["calls"].pc # "idle" /\ boot'["workers"] = boot["workers"]
      BY <2>1 DEF LifecycleInv, TypeOK, CreatePool, Owners
    <3>5. call' \in [Calls -> {"idle", "waiting", "running"}]
      BY DEF LifecycleInv, TypeOK, Request
    <3> QED
      BY <3>1, <3>2, <3>3, <3>4, <3>5 DEF LifecycleInv, TypeOK, Request
  <2>2. CASE Memoized /\ UNCHANGED <<opened, open, boot>>
    <3>1. call' \in [Calls -> {"idle", "waiting", "running"}]
      BY DEF LifecycleInv, TypeOK, Request
    <3>2. \A d \in Calls : call'[d] = "waiting" => boot["calls"].pc # "idle"
      BY <2>2 DEF LifecycleInv, TypeOK, Request, Memoized, Bootstrapping
    <3> QED
      BY <2>2, <3>1, <3>2 DEF LifecycleInv, TypeOK, Request
  <2> QED
    BY <2>1, <2>2 DEF Request
<1>2. PoolOutlivesUsers'
  BY DEF LifecycleInv, TypeOK, PoolOutlivesUsers, PoolsAccounted, PoolsApart,
         CleanupAwaited, Owners, Bootstrapping, Running, Request, Memoized, CreatePool
<1>3. PoolsAccounted'
  <2>1. CASE ~Memoized /\ CreatePool("calls")
    <3>1. boot["calls"].pool = 0
      BY <2>1 DEF LifecycleInv, PoolsApart, Memoized, Bootstrapping, Owners
    <3> QED
      BY <2>1, <3>1 DEF LifecycleInv, TypeOK, PoolsAccounted, CreatePool, Owners, Request
  <2>2. CASE UNCHANGED <<open, boot>>
    BY <2>2 DEF LifecycleInv, PoolsAccounted, Request
  <2> QED
    BY <2>1, <2>2 DEF Request
<1>4. PoolsApart'
  BY DEF LifecycleInv, TypeOK, PoolOutlivesUsers, PoolsAccounted, PoolsApart,
         CleanupAwaited, Owners, Bootstrapping, Running, Request, Memoized, CreatePool
<1>5. LoopsAgree'
  BY DEF LifecycleInv, LoopsAgree, TypeOK, PoolOutlivesUsers, PoolsAccounted,
         PoolsApart, CleanupAwaited, Owners, Bootstrapping, Running, Request, Memoized,
         CreatePool
<1>6. CleanupAwaited'
  BY DEF LifecycleInv, TypeOK, PoolOutlivesUsers, PoolsAccounted, CleanupAwaited,
         Owners, Bootstrapping, Running, Request, Memoized, CreatePool
<1> QED
  BY <1>1, <1>2, <1>3, <1>4, <1>5, <1>6 DEF LifecycleInv

LEMMA CallEndsKeeps ==
  ASSUME LifecycleInv, NEW c \in Calls, CallEnds(c)
  PROVE  LifecycleInv'
<1>1. TypeOK'
  <2>1. call' \in [Calls -> {"idle", "waiting", "running"}]
    BY DEF LifecycleInv, TypeOK, CallEnds
  <2>2. \A c2 \in Calls : call'[c2] = "waiting" => boot["calls"].pc # "idle"
    BY DEF LifecycleInv, TypeOK, CallEnds
  <2> QED
    BY <2>1, <2>2 DEF LifecycleInv, TypeOK, CallEnds
<1>2. PoolOutlivesUsers'
  BY DEF LifecycleInv, TypeOK, PoolOutlivesUsers, PoolsAccounted, CleanupAwaited,
         Owners, Bootstrapping, Running, CallEnds
<1>3. PoolsAccounted'
  BY DEF LifecycleInv, TypeOK, PoolOutlivesUsers, PoolsAccounted, CleanupAwaited,
         Owners, Bootstrapping, Running, CallEnds
<1>4. PoolsApart'
  BY DEF LifecycleInv, TypeOK, PoolOutlivesUsers, PoolsAccounted, PoolsApart,
         CleanupAwaited, Owners, Bootstrapping, Running, CallEnds
<1>5. LoopsAgree'
  BY DEF LifecycleInv, LoopsAgree, TypeOK, PoolOutlivesUsers, PoolsAccounted,
         CleanupAwaited, Owners, Bootstrapping, Running, CallEnds
<1>6. CleanupAwaited'
  BY DEF LifecycleInv, TypeOK, PoolOutlivesUsers, PoolsAccounted, CleanupAwaited,
         Owners, Bootstrapping, Running, CallEnds
<1> QED
  BY <1>1, <1>2, <1>3, <1>4, <1>5, <1>6 DEF LifecycleInv

LEMMA StreamOpensKeeps ==
  ASSUME LifecycleInv, NEW s \in Streams, StreamOpens(s)
  PROVE  LifecycleInv'
  BY DEF LifecycleInv, LoopsAgree, TypeOK, PoolOutlivesUsers, PoolsAccounted, PoolsApart,
         CleanupAwaited, Bootstrapping, StreamOpens

LEMMA ClientLeavesKeeps ==
  ASSUME LifecycleInv, NEW s \in Streams, ClientLeaves(s)
  PROVE  LifecycleInv'
  BY DEF LifecycleInv, LoopsAgree, TypeOK, PoolOutlivesUsers, PoolsAccounted, PoolsApart,
         CleanupAwaited, Bootstrapping, ClientLeaves

LEMMA TickKeeps ==
  ASSUME LifecycleInv, NEW l \in Loops, Tick(l)
  PROVE  LifecycleInv'
<1>1. TypeOK'
  <2>1. loop' \in [Loops -> LoopState]
    BY LoopFields DEF LifecycleInv, TypeOK, Tick
  <2> QED
    BY <2>1 DEF LifecycleInv, TypeOK, Tick
<1>2. PoolOutlivesUsers'
  BY DEF LifecycleInv, TypeOK, PoolOutlivesUsers, PoolsAccounted, CleanupAwaited,
         Owners, Bootstrapping, Running, Tick
<1>3. PoolsAccounted'
  BY DEF LifecycleInv, TypeOK, PoolOutlivesUsers, PoolsAccounted, CleanupAwaited,
         Owners, Bootstrapping, Running, Tick
<1>4. PoolsApart'
  BY DEF LifecycleInv, TypeOK, PoolOutlivesUsers, PoolsAccounted, PoolsApart,
         CleanupAwaited, Owners, Bootstrapping, Running, Tick
<1>5. LoopsAgree'
  BY DEF LifecycleInv, LoopsAgree, TypeOK, PoolOutlivesUsers, PoolsAccounted,
         CleanupAwaited, Owners, Bootstrapping, Running, Tick
<1>6. CleanupAwaited'
  BY DEF LifecycleInv, TypeOK, PoolOutlivesUsers, PoolsAccounted, CleanupAwaited,
         Owners, Bootstrapping, Running, Tick
<1> QED
  BY <1>1, <1>2, <1>3, <1>4, <1>5, <1>6 DEF LifecycleInv

LEMMA SweepEndsKeeps ==
  ASSUME LifecycleInv, NEW l \in Loops, SweepEnds(l)
  PROVE  LifecycleInv'
<1>1. TypeOK'
  <2>1. loop' \in [Loops -> LoopState]
    <3>1. Schedule(l) \in BOOLEAN
      BY DEF Schedule
    <3> QED
      BY <3>1, LoopFields DEF LifecycleInv, TypeOK, SweepEnds
  <2> QED
    BY <2>1 DEF LifecycleInv, TypeOK, SweepEnds
<1>2. PoolOutlivesUsers'
  BY DEF LifecycleInv, TypeOK, PoolOutlivesUsers, PoolsAccounted, CleanupAwaited,
         Owners, Bootstrapping, Running, SweepEnds, Schedule
<1>3. PoolsAccounted'
  BY DEF LifecycleInv, PoolsAccounted, SweepEnds
<1>4. PoolsApart'
  BY DEF LifecycleInv, TypeOK, PoolOutlivesUsers, PoolsAccounted, PoolsApart,
         CleanupAwaited, Owners, Bootstrapping, Running, SweepEnds, Schedule
<1>5. LoopsAgree'
  BY DEF LifecycleInv, LoopsAgree, TypeOK, PoolOutlivesUsers, PoolsAccounted,
         CleanupAwaited, LoopState, Owners, Bootstrapping, Running, SweepEnds, Schedule
<1>6. CleanupAwaited'
  BY DEF LifecycleInv, TypeOK, PoolOutlivesUsers, PoolsAccounted, CleanupAwaited,
         Owners, Bootstrapping, Running, SweepEnds, Schedule
<1> QED
  BY <1>1, <1>2, <1>3, <1>4, <1>5, <1>6 DEF LifecycleInv

LEMMA ListenKeeps ==
  ASSUME LifecycleInv, Listen
  PROVE  LifecycleInv'
<1>1. TypeOK'
  <2>1. boot["workers"].pc = "idle" /\ boot' \in [Owners -> BootState]
    BY DEF LifecycleInv, TypeOK, LoopsAgree, CleanupAwaited, Bootstrapping, Listen, CreatePool,
           BootState, Owners
  <2>2. opened' \in 0 .. MaxPools /\ open \subseteq open' /\ open' \subseteq 1 .. opened'
    <3>1. CASE UNCHANGED <<opened, open>>
      BY <3>1 DEF LifecycleInv, TypeOK
    <3>2. CASE CreatePool("workers")
      BY <3>2 DEF LifecycleInv, TypeOK, CreatePool
    <3> QED
      BY <3>1, <3>2 DEF Listen
  <2>3. \A o \in Owners : boot'[o].pc # "idle" => boot'[o].pool \in open'
    BY <2>2 DEF LifecycleInv, TypeOK, Listen, CreatePool
  <2>4. boot'["calls"] = boot["calls"]
    BY DEF LifecycleInv, TypeOK, Listen, CreatePool, Owners
  <2>5. workers' = "starting" => boot'["workers"].pc # "idle"
    BY DEF LifecycleInv, TypeOK, Listen, CreatePool, Owners
  <2> QED
    BY <2>1, <2>2, <2>3, <2>4, <2>5 DEF LifecycleInv, TypeOK, Listen
<1>2. PoolOutlivesUsers'
  BY DEF LifecycleInv, TypeOK, PoolOutlivesUsers, PoolsAccounted, CleanupAwaited,
         Owners, Bootstrapping, Running, Listen, CreatePool
<1>3. PoolsAccounted'
  <2>1. boot["workers"].pool = 0
    BY DEF LifecycleInv, LoopsAgree, CleanupAwaited, PoolsApart, Bootstrapping, Owners, Listen
  <2>2. CASE boot' = [boot EXCEPT !["workers"] = [pc |-> "migrate", pool |-> opened + 1]]
             /\ open' = open \cup {opened + 1}
    BY <2>1, <2>2 DEF LifecycleInv, TypeOK, PoolsAccounted, Owners, Listen
  <2>3. CASE UNCHANGED <<open, boot>>
    BY <2>3 DEF LifecycleInv, PoolsAccounted, Listen
  <2> QED
    BY <2>2, <2>3 DEF Listen, CreatePool
<1>4. PoolsApart'
  BY DEF LifecycleInv, TypeOK, PoolOutlivesUsers, PoolsAccounted, PoolsApart,
         CleanupAwaited, Owners, Bootstrapping, Running, Listen, CreatePool
<1>5. LoopsAgree'
  BY DEF LifecycleInv, LoopsAgree, TypeOK, PoolOutlivesUsers, PoolsAccounted,
         CleanupAwaited, Owners, Bootstrapping, Running, Listen, CreatePool
<1>6. CleanupAwaited'
  BY DEF LifecycleInv, TypeOK, PoolOutlivesUsers, PoolsAccounted, CleanupAwaited,
         Owners, Bootstrapping, Running, Listen, CreatePool
<1> QED
  BY <1>1, <1>2, <1>3, <1>4, <1>5, <1>6 DEF LifecycleInv

LEMMA ListenFailsKeeps ==
  ASSUME LifecycleInv, ListenFails
  PROVE  LifecycleInv'
<1>1. TypeOK'
  BY DEF LifecycleInv, TypeOK, PoolOutlivesUsers, PoolsAccounted, CleanupAwaited,
         Owners, Bootstrapping, Running, ListenFails
<1>2. PoolOutlivesUsers'
  BY DEF LifecycleInv, TypeOK, PoolOutlivesUsers, PoolsAccounted, CleanupAwaited,
         Owners, Bootstrapping, Running, ListenFails
<1>3. PoolsAccounted'
  BY DEF LifecycleInv, TypeOK, PoolOutlivesUsers, PoolsAccounted, CleanupAwaited,
         Owners, Bootstrapping, Running, ListenFails
<1>4. PoolsApart'
  BY DEF LifecycleInv, TypeOK, PoolOutlivesUsers, PoolsAccounted, PoolsApart,
         CleanupAwaited, Owners, Bootstrapping, Running, ListenFails
<1>5. LoopsAgree'
  BY DEF LifecycleInv, LoopsAgree, TypeOK, PoolOutlivesUsers, PoolsAccounted,
         CleanupAwaited, Owners, Bootstrapping, Running, ListenFails
<1>6. CleanupAwaited'
  BY DEF LifecycleInv, TypeOK, PoolOutlivesUsers, PoolsAccounted, CleanupAwaited,
         Owners, Bootstrapping, Running, ListenFails
<1> QED
  BY <1>1, <1>2, <1>3, <1>4, <1>5, <1>6 DEF LifecycleInv

LEMMA SignalKeeps ==
  ASSUME LifecycleInv, Signal
  PROVE  LifecycleInv'
<1>1. TypeOK'
  BY DEF LifecycleInv, TypeOK, PoolOutlivesUsers, PoolsAccounted, CleanupAwaited,
         Owners, Bootstrapping, Running, Signal
<1>2. PoolOutlivesUsers'
  BY DEF LifecycleInv, TypeOK, PoolOutlivesUsers, PoolsAccounted, CleanupAwaited,
         Owners, Bootstrapping, Running, Signal
<1>3. PoolsAccounted'
  BY DEF LifecycleInv, TypeOK, PoolOutlivesUsers, PoolsAccounted, CleanupAwaited,
         Owners, Bootstrapping, Running, Signal
<1>4. PoolsApart'
  BY DEF LifecycleInv, TypeOK, PoolOutlivesUsers, PoolsAccounted, PoolsApart,
         CleanupAwaited, Owners, Bootstrapping, Running, Signal
<1>5. LoopsAgree'
  BY DEF LifecycleInv, LoopsAgree, TypeOK, PoolOutlivesUsers, PoolsAccounted,
         CleanupAwaited, Owners, Bootstrapping, Running, Signal
<1>6. CleanupAwaited'
  BY DEF LifecycleInv, TypeOK, PoolOutlivesUsers, PoolsAccounted, CleanupAwaited,
         Owners, Bootstrapping, Running, Signal
<1> QED
  BY <1>1, <1>2, <1>3, <1>4, <1>5, <1>6 DEF LifecycleInv

LEMMA HttpClosedKeeps ==
  ASSUME LifecycleInv, HttpClosed
  PROVE  LifecycleInv'
<1>1. TypeOK'
  BY DEF LifecycleInv, TypeOK, PoolOutlivesUsers, PoolsAccounted, CleanupAwaited,
         Owners, Bootstrapping, Running, HttpClosed
<1>2. PoolOutlivesUsers'
  BY DEF LifecycleInv, TypeOK, PoolOutlivesUsers, PoolsAccounted, CleanupAwaited,
         Owners, Bootstrapping, Running, HttpClosed
<1>3. PoolsAccounted'
  BY DEF LifecycleInv, TypeOK, PoolOutlivesUsers, PoolsAccounted, CleanupAwaited,
         Owners, Bootstrapping, Running, HttpClosed
<1>4. PoolsApart'
  BY DEF LifecycleInv, TypeOK, PoolOutlivesUsers, PoolsAccounted, PoolsApart,
         CleanupAwaited, Owners, Bootstrapping, Running, HttpClosed
<1>5. LoopsAgree'
  BY DEF LifecycleInv, LoopsAgree, TypeOK, PoolOutlivesUsers, PoolsAccounted,
         CleanupAwaited, Owners, Bootstrapping, Running, HttpClosed
<1>6. CleanupAwaited'
  BY DEF LifecycleInv, TypeOK, PoolOutlivesUsers, PoolsAccounted, CleanupAwaited,
         Owners, Bootstrapping, Running, HttpClosed
<1> QED
  BY <1>1, <1>2, <1>3, <1>4, <1>5, <1>6 DEF LifecycleInv

LEMMA StopWorkersKeeps ==
  ASSUME LifecycleInv, StopWorkers
  PROVE  LifecycleInv'
<1>1. TypeOK'
  <2>1. loop' \in [Loops -> LoopState]
    BY LoopFields DEF LifecycleInv, TypeOK, StopWorkers
  <2> QED
    BY <2>1 DEF LifecycleInv, TypeOK, StopWorkers
<1>2. PoolOutlivesUsers'
  <2>1. \A l \in Loops : ~loop'[l].timer /\ loop'[l].sweep = loop[l].sweep
    BY LoopFields DEF LifecycleInv, TypeOK, StopWorkers
  <2> QED
    BY <2>1 DEF LifecycleInv, PoolOutlivesUsers, StopWorkers
<1>3. PoolsAccounted'
  BY DEF LifecycleInv, TypeOK, PoolOutlivesUsers, PoolsAccounted, CleanupAwaited,
         Owners, Bootstrapping, Running, StopWorkers
<1>4. PoolsApart'
  BY DEF LifecycleInv, TypeOK, PoolOutlivesUsers, PoolsAccounted, PoolsApart,
         CleanupAwaited, Owners, Bootstrapping, Running, StopWorkers
<1>5. LoopsAgree'
  <2>1. \A l \in Loops :
            ~loop'[l].timer /\ loop'[l].sweep = loop[l].sweep /\ loop'[l].stopped
    BY DEF LifecycleInv, TypeOK, LoopState, StopWorkers
  <2> QED
    BY <2>1 DEF LifecycleInv, TypeOK, LoopsAgree, Bootstrapping, StopWorkers
<1>6. CleanupAwaited'
  BY DEF LifecycleInv, TypeOK, PoolOutlivesUsers, PoolsAccounted, CleanupAwaited,
         Owners, Bootstrapping, Running, StopWorkers
<1> QED
  BY <1>1, <1>2, <1>3, <1>4, <1>5, <1>6 DEF LifecycleInv

LEMMA CloseServicesKeeps ==
  ASSUME LifecycleInv, CloseServices
  PROVE  LifecycleInv'
<1>1. TypeOK'
  BY DEF LifecycleInv, LoopsAgree, TypeOK, PoolOutlivesUsers, PoolsAccounted,
         PoolsApart, CleanupAwaited, Owners, Bootstrapping, Running, CloseServices,
         SweepsAwaited
<1>2. PoolOutlivesUsers'
  BY DEF LifecycleInv, LoopsAgree, TypeOK, PoolOutlivesUsers, PoolsAccounted,
         PoolsApart, CleanupAwaited, Owners, Bootstrapping, Running, CloseServices,
         SweepsAwaited
<1>3. PoolsAccounted'
  BY DEF LifecycleInv, TypeOK, PoolOutlivesUsers, PoolsAccounted, CleanupAwaited,
         Owners, Bootstrapping, Running, CloseServices, SweepsAwaited
<1>4. PoolsApart'
  BY DEF LifecycleInv, TypeOK, PoolOutlivesUsers, PoolsAccounted, PoolsApart,
         CleanupAwaited, Owners, Bootstrapping, Running, CloseServices, SweepsAwaited
<1>5. LoopsAgree'
  BY DEF LifecycleInv, LoopsAgree, TypeOK, PoolOutlivesUsers, PoolsAccounted,
         CleanupAwaited, Owners, Bootstrapping, Running, CloseServices, SweepsAwaited
<1>6. CleanupAwaited'
  BY DEF LifecycleInv, TypeOK, PoolOutlivesUsers, PoolsAccounted, CleanupAwaited,
         Owners, Bootstrapping, Running, CloseServices, SweepsAwaited
<1> QED
  BY <1>1, <1>2, <1>3, <1>4, <1>5, <1>6 DEF LifecycleInv

LEMMA CleanupDoneKeeps ==
  ASSUME LifecycleInv, CleanupDone
  PROVE  LifecycleInv'
<1>1. TypeOK'
  BY DEF LifecycleInv, TypeOK, PoolOutlivesUsers, PoolsAccounted, CleanupAwaited,
         Owners, Bootstrapping, Running, CleanupDone, StartupAwaited
<1>2. PoolOutlivesUsers'
  BY DEF LifecycleInv, TypeOK, PoolOutlivesUsers, PoolsAccounted, CleanupAwaited,
         Owners, Bootstrapping, Running, CleanupDone, StartupAwaited
<1>3. PoolsAccounted'
  BY DEF LifecycleInv, TypeOK, PoolOutlivesUsers, PoolsAccounted, CleanupAwaited,
         Owners, Bootstrapping, Running, CleanupDone, StartupAwaited
<1>4. PoolsApart'
  BY DEF LifecycleInv, TypeOK, PoolOutlivesUsers, PoolsAccounted, PoolsApart,
         CleanupAwaited, Owners, Bootstrapping, Running, CleanupDone, StartupAwaited
<1>5. LoopsAgree'
  BY DEF LifecycleInv, LoopsAgree, TypeOK, PoolOutlivesUsers, PoolsAccounted,
         CleanupAwaited, Owners, Bootstrapping, Running, CleanupDone, StartupAwaited
<1>6. CleanupAwaited'
  BY DEF LifecycleInv, TypeOK, PoolOutlivesUsers, PoolsAccounted, CleanupAwaited,
         Owners, Bootstrapping, Running, CleanupDone, StartupAwaited
<1> QED
  BY <1>1, <1>2, <1>3, <1>4, <1>5, <1>6 DEF LifecycleInv

LEMMA ExitKeeps ==
  ASSUME LifecycleInv, Exit
  PROVE  LifecycleInv'
<1>1. TypeOK'
  BY DEF LifecycleInv, TypeOK, PoolOutlivesUsers, PoolsAccounted, CleanupAwaited,
         Owners, Bootstrapping, Running, Exit
<1>2. PoolOutlivesUsers'
  BY DEF LifecycleInv, TypeOK, PoolOutlivesUsers, PoolsAccounted, CleanupAwaited,
         Owners, Bootstrapping, Running, Exit
<1>3. PoolsAccounted'
  BY DEF LifecycleInv, TypeOK, PoolOutlivesUsers, PoolsAccounted, CleanupAwaited,
         Owners, Bootstrapping, Running, Exit
<1>4. PoolsApart'
  BY DEF LifecycleInv, TypeOK, PoolOutlivesUsers, PoolsAccounted, PoolsApart,
         CleanupAwaited, Owners, Bootstrapping, Running, Exit
<1>5. LoopsAgree'
  BY DEF LifecycleInv, LoopsAgree, TypeOK, PoolOutlivesUsers, PoolsAccounted,
         CleanupAwaited, Owners, Bootstrapping, Running, Exit
<1>6. CleanupAwaited'
  BY DEF LifecycleInv, TypeOK, PoolOutlivesUsers, PoolsAccounted, CleanupAwaited,
         Owners, Bootstrapping, Running, Exit
<1> QED
  BY <1>1, <1>2, <1>3, <1>4, <1>5, <1>6 DEF LifecycleInv

(***************************************************************************)
(* Every step preserves the invariant, and so does a stuttering one.       *)
(***************************************************************************)
LEMMA InvStep == LifecycleInv /\ [Next]_vars => LifecycleInv'
<1> SUFFICES ASSUME LifecycleInv, [Next]_vars PROVE LifecycleInv'
  OBVIOUS
<1>1. ASSUME NEW o \in Owners, Bootstrap(o) PROVE LifecycleInv'
  BY <1>1, RunMigrationsKeeps, EnsureCollectionKeeps DEF Bootstrap
<1>2. ASSUME NEW c \in Calls, Request(c) \/ CallEnds(c) PROVE LifecycleInv'
  BY <1>2, RequestKeeps, CallEndsKeeps
<1>3. ASSUME NEW l \in Loops, Tick(l) \/ SweepEnds(l) PROVE LifecycleInv'
  BY <1>3, TickKeeps, SweepEndsKeeps
<1>7. ASSUME NEW s \in Streams, StreamOpens(s) \/ ClientLeaves(s) PROVE LifecycleInv'
  BY <1>7, StreamOpensKeeps, ClientLeavesKeeps
<1>4. CASE Listen \/ ListenFails \/ Signal
  BY <1>4, ListenKeeps, ListenFailsKeeps, SignalKeeps
<1>5. CASE Shutdown
  BY <1>5, HttpClosedKeeps, StopWorkersKeeps, CloseServicesKeeps, CleanupDoneKeeps, ExitKeeps
     DEF Shutdown
<1>6. CASE UNCHANGED vars
  BY <1>6 DEF vars, LifecycleInv, TypeOK, PoolOutlivesUsers, PoolsAccounted, PoolsApart,
       LoopsAgree, CleanupAwaited, Bootstrapping
<1> QED
  BY <1>1, <1>2, <1>3, <1>4, <1>5, <1>6, <1>7 DEF Next

LEMMA Always == Spec => []LifecycleInv
  BY InvInit, InvStep, PTL DEF Spec

-----------------------------------------------------------------------------
(***************************************************************************)
(* The type invariant.                                                     *)
(***************************************************************************)
THEOREM TypeCorrect == Spec => []TypeOK
<1>1. LifecycleInv => TypeOK
  BY DEF LifecycleInv
<1> QED
  BY <1>1, Always, PTL

(***************************************************************************)
(* No sweep dangles at exit: cleanup has awaited the start-up and the      *)
(* sweeps, or the worker that exits has not started any loop.              *)
(***************************************************************************)
THEOREM QuietExit == Spec => []ExitIsQuiet
<1>1. LifecycleInv => ExitIsQuiet
  BY DEF LifecycleInv, TypeOK, ExitIsQuiet, LoopsAgree, CleanupAwaited, Bootstrapping
<1> QED
  BY <1>1, Always, PTL

(***************************************************************************)
(* No sweep and no call finds its pool ended.                              *)
(***************************************************************************)
THEOREM PoolLives == Spec => []PoolOutlivesUsers
<1>1. LifecycleInv => PoolOutlivesUsers
  BY DEF LifecycleInv
<1> QED
  BY <1>1, Always, PTL

(***************************************************************************)
(* No pool is forgotten but those a failed ensureCollection leaves.        *)
(***************************************************************************)
THEOREM NoPoolForgotten == Spec => []PoolsAccounted
<1>1. LifecycleInv => PoolsAccounted
  BY DEF LifecycleInv
<1> QED
  BY <1>1, Always, PTL

(***************************************************************************)
(* A stopped loop stays stopped.                                           *)
(***************************************************************************)
THEOREM StoppedForGood == Spec => StoppedStaysStopped
<1>1. ASSUME LifecycleInv, [Next]_vars, NEW l \in Loops, loop[l].stopped
      PROVE  ~loop'[l].timer /\ (loop'[l].sweep => loop[l].sweep)
  <2>1. loop \in [Loops -> LoopState] /\ ~loop[l].timer /\ workers \in {"stopping", "stopped"}
    BY <1>1 DEF LifecycleInv, TypeOK, LoopsAgree
  <2>2. CASE loop' = loop
    BY <2>1, <2>2
  <2>3. ASSUME NEW k \in Loops, Tick(k) \/ SweepEnds(k)
        PROVE  ~loop'[l].timer /\ (loop'[l].sweep => loop[l].sweep)
    BY <1>1, <2>1, <2>3 DEF Tick, SweepEnds, Schedule, LoopState
  <2>4. ~StopWorkers /\ \A o \in Owners : EnsureCollection(o) => loop' = loop
    BY <1>1, <2>1 DEF LifecycleInv, LoopsAgree, Bootstrapping, Owners, StopWorkers,
           EnsureCollection, BootFails
  <2> QED
    BY <1>1, <2>2, <2>3, <2>4
       DEF Next, Bootstrap, Shutdown, RunMigrations, BootFails, Request, CallEnds,
           StreamOpens, ClientLeaves, Listen, ListenFails, Signal, HttpClosed, CloseServices, CleanupDone, Exit, vars
<1>2. LifecycleInv /\ [Next]_vars =>
        [\A l \in Loops :
            loop[l].stopped => ~loop'[l].timer /\ (loop'[l].sweep => loop[l].sweep)]_vars
  BY <1>1
<1> QED
  BY <1>2, Always, PTL DEF Spec, StoppedStaysStopped

=============================================================================
