-------------------------- MODULE ProcessLifecycle --------------------------
(***************************************************************************)
(* A process of the service from its start to process.exit: the HTTP       *)
(* server or the worker, the background workers either of them starts,     *)
(* their sweeper loops, and the canonical services (a Postgres pool each)  *)
(* that the workers and, in the server, the tool calls bootstrap.  JavaScript *)
(* runs to the next await: an action is what happens between two awaits.   *)
(***************************************************************************)
EXTENDS Naturals, FiniteSets

CONSTANTS
    Kinds,      \* which processes: "server" (app/server.ts), "worker" (app/worker.ts)
    Loops,      \* "compaction", "ingest": the sweepers the environment enables
    Calls,      \* tool calls that may be in flight at once
    Streams,    \* GET /mcp event streams that may be open at once
    MaxPools,   \* bound: bootstraps of a process
    Faults      \* "db": migrations throw; "vector": ensureCollection throws;
                \* "config": a sweeper does not start; "listen": the port is taken

ASSUME LifecycleAssumption ==
    /\ Kinds \subseteq {"server", "worker"}
    /\ MaxPools \in Nat \ {0}
    /\ Faults \subseteq {"db", "vector", "config", "listen"}

VARIABLES
    kind,
    http,       \* the server's socket; "off" in a worker
    opened,     \* how many pools have been created: they are 1 .. opened
    open,       \* those that were not ended
    boot,       \* bootstrapCanonicalServices under way, for whom
    services,   \* the pool of the services an owner was given, 0: none
    workers,    \* how far startBackgroundWorkers and the handle's stop are
    loop,       \* the closures of the sweeper loops
    call,       \* tool calls
    stream,     \* the open event streams
    cleanup, signaled, exit,
    leaked      \* pools of bootstraps whose ensureCollection threw (history)

vars == <<kind, http, opened, open, boot, services, workers, loop, call, stream,
          cleanup, signaled, exit, leaked>>

Owners == {"calls", "workers"}
BootState == [pc : {"idle", "migrate", "collection"}, pool : 0 .. MaxPools]

\* timer: armed; sweep: inFlight # null; stopped: as in the code.
LoopState == [timer : BOOLEAN, sweep : BOOLEAN, stopped : BOOLEAN]

\* Types of every variable; who bootstraps has a pool, who waits has a bootstrap.
TypeOK ==
    /\ kind \in Kinds
    /\ http \in {"off", "starting", "listening", "closing", "closed"}
    /\ opened \in 0 .. MaxPools
    /\ open \subseteq 1 .. opened
    /\ boot \in [Owners -> BootState]
    /\ services \in [Owners -> 0 .. MaxPools]
    /\ workers \in {"none", "starting", "running", "stopping", "stopped"}
    /\ loop \in [Loops -> LoopState]
    /\ call \in [Calls -> {"idle", "waiting", "running"}]
    /\ stream \subseteq Streams
    /\ cleanup \in {"none", "waiting", "done"}
    /\ signaled \in BOOLEAN
    /\ exit \in {"no", "0", "1"}
    /\ leaked \subseteq open
    /\ \A o \in Owners : boot[o].pc # "idle" => boot[o].pool \in open
    /\ \A c \in Calls : call[c] = "waiting" => boot["calls"].pc # "idle"
    /\ workers = "starting" => boot["workers"].pc # "idle"

IdleBoot == [pc |-> "idle", pool |-> 0]
IdleLoop == [timer |-> FALSE, sweep |-> FALSE, stopped |-> FALSE]

Running == exit = "no"

-----------------------------------------------------------------------------
(***************************************************************************)
(* bootstrapCanonicalServices creates its pool, runs the migrations, which *)
(* end the pool when they throw, and makes sure of the vector collection.  *)
(***************************************************************************)
Bootstrapping(o) == boot[o].pc # "idle"

CreatePool(o) ==
    /\ opened < MaxPools
    /\ opened' = opened + 1
    /\ open' = open \cup {opened + 1}
    /\ boot' = [boot EXCEPT ![o] = [pc |-> "migrate", pool |-> opened + 1]]

EndPool(o) == open' = open \ {boot[o].pool}

\* Mutant: whoever awaits the rejected promise is not told.
SettleNobody(to) == UNCHANGED call

\* Everyone who awaits the memoized promise goes on once it is settled.
SettleCalls(to) == call' = [c \in Calls |-> IF call[c] = "waiting" THEN to ELSE call[c]]

(***************************************************************************)
(* No workers are started.  A server goes on with a handle that has none   *)
(* to stop, a worker, which fails fast, exits.                             *)
(***************************************************************************)
WorkersAbsent ==
    \/ kind = "server" /\ workers' = "running" /\ UNCHANGED exit
    \/ kind = "worker" /\ workers' = "none" /\ exit' = "1"

(***************************************************************************)
(* A bootstrap that throws: the memoized promise is null again, and the    *)
(* calls that await it report the error.                                   *)
(***************************************************************************)
BootFails(o) ==
    /\ boot' = [boot EXCEPT ![o] = IdleBoot]
    /\ IF o = "calls"
       THEN SettleCalls("idle") /\ UNCHANGED <<workers, exit>>
       ELSE /\ WorkersAbsent
            /\ UNCHANGED call
    /\ UNCHANGED <<services, loop>>

RunMigrations(o) ==
    /\ Running /\ boot[o].pc = "migrate"
    /\ \/ /\ boot' = [boot EXCEPT ![o].pc = "collection"]
          /\ UNCHANGED <<open, workers, call, services, loop, exit>>
       \/ "db" \in Faults /\ EndPool(o) /\ BootFails(o)
    /\ UNCHANGED <<kind, http, opened, stream, cleanup, signaled, leaked>>

(***************************************************************************)
(* startBackgroundWorkers with its services: the loops that start arm      *)
(* their timers.  Without any, the services are closed; failing fast, one  *)
(* that does not start stops those that did, closes the services and exits. *)
(***************************************************************************)
StartLoops ==
    LET p == boot["workers"].pool IN
    \E started \in SUBSET Loops :
        /\ started = Loops \/ "config" \in Faults
        /\ IF started # {} /\ (kind = "server" \/ started = Loops)
           THEN /\ loop' = [l \in Loops |-> [IdleLoop EXCEPT !.timer = l \in started]]
                /\ services' = [services EXCEPT !["workers"] = p]
                /\ workers' = "running"
                /\ UNCHANGED <<open, exit>>
           ELSE /\ open' = open \ {p}
                /\ WorkersAbsent
                /\ UNCHANGED <<loop, services>>

EnsureCollection(o) ==
    /\ Running /\ boot[o].pc = "collection"
    /\ \/ /\ boot' = [boot EXCEPT ![o] = IdleBoot]
          /\ IF o = "calls"
             THEN /\ services' = [services EXCEPT !["calls"] = boot[o].pool]
                  /\ SettleCalls("running")
                  /\ UNCHANGED <<open, workers, loop, exit>>
             ELSE StartLoops /\ UNCHANGED call
          /\ UNCHANGED leaked
       \/ /\ "vector" \in Faults
          /\ leaked' = leaked \cup {boot[o].pool}
          /\ BootFails(o)
          /\ UNCHANGED open
    /\ UNCHANGED <<kind, http, opened, stream, cleanup, signaled>>

-----------------------------------------------------------------------------
(***************************************************************************)
(* withCanonicalServices: the first call bootstraps, the others await it.  *)
(***************************************************************************)

Memoized == services["calls"] # 0 \/ Bootstrapping("calls")

Request(c) ==
    /\ Running /\ http = "listening" /\ call[c] = "idle"
    /\ \/ /\ ~Memoized
          /\ CreatePool("calls")
          /\ call' = [call EXCEPT ![c] = "waiting"]
       \/ /\ Memoized
          /\ call' = [call EXCEPT ![c] = IF services["calls"] # 0 THEN "running" ELSE "waiting"]
          /\ UNCHANGED <<opened, open, boot>>
    /\ UNCHANGED <<kind, http, services, workers, loop, stream, cleanup, signaled, exit, leaked>>

CallEnds(c) ==
    /\ Running /\ call[c] = "running"
    /\ call' = [call EXCEPT ![c] = "idle"]
    /\ UNCHANGED <<kind, http, opened, open, boot, services, workers, loop, stream,
                   cleanup, signaled, exit, leaked>>

(***************************************************************************)
(* A GET /mcp is answered by a stream of events with none in it, which     *)
(* stays open until the client leaves: handleMcpHttpRequest ends it for no *)
(* other reason.                                                           *)
(***************************************************************************)
StreamOpens(s) ==
    /\ Running /\ http = "listening" /\ s \notin stream
    /\ stream' = stream \cup {s}
    /\ UNCHANGED <<kind, http, opened, open, boot, services, workers, loop, call,
                   cleanup, signaled, exit, leaked>>

ClientLeaves(s) ==
    /\ Running /\ s \in stream
    /\ stream' = stream \ {s}
    /\ UNCHANGED <<kind, http, opened, open, boot, services, workers, loop, call,
                   cleanup, signaled, exit, leaked>>

-----------------------------------------------------------------------------
(***************************************************************************)
(* A sweeper loop: the timer's callback sweeps, then arms the next timer.  *)
(***************************************************************************)
Tick(l) ==
    /\ Running /\ loop[l].timer
    /\ loop' = [loop EXCEPT ![l].timer = FALSE, ![l].sweep = TRUE]
    /\ UNCHANGED <<kind, http, opened, open, boot, services, workers, call, stream,
                   cleanup, signaled, exit, leaked>>

\* Mutant: schedule does not look at stopped.
ScheduleAlways(l) == TRUE

Schedule(l) == ~loop[l].stopped

\* Success and error alike: tick swallows what the sweep throws.
SweepEnds(l) ==
    /\ Running /\ loop[l].sweep
    /\ loop' = [loop EXCEPT ![l].timer = Schedule(l), ![l].sweep = FALSE]
    /\ UNCHANGED <<kind, http, opened, open, boot, services, workers, call, stream,
                   cleanup, signaled, exit, leaked>>

-----------------------------------------------------------------------------
(***************************************************************************)
(* The server's socket.  To close it cancels a listen under way and waits  *)
(* for the calls in flight and for the streams, which closeHttpServer does *)
(* not end; startWorkers is the listening callback.                        *)
(***************************************************************************)
Listen ==
    /\ Running /\ http = "starting"
    /\ http' = "listening"
    /\ IF Loops = {}
       THEN workers' = "running" /\ UNCHANGED <<opened, open, boot>>
       ELSE workers' = "starting" /\ CreatePool("workers")
    /\ UNCHANGED <<kind, services, loop, call, stream, cleanup, signaled, exit, leaked>>

ListenFails ==
    /\ Running /\ http = "starting" /\ "listen" \in Faults
    /\ http' = "closed"
    /\ cleanup' = "waiting"
    /\ UNCHANGED <<kind, opened, open, boot, services, workers, loop, call, stream,
                   signaled, exit, leaked>>

(***************************************************************************)
(* SIGINT, SIGTERM; the next ones are ignored.  A worker whose start-up is *)
(* under way has no handle to stop, and exits.                             *)
(***************************************************************************)
Signal ==
    /\ Running /\ ~signaled
    /\ signaled' = TRUE
    /\ IF kind = "server"
       THEN /\ http' = IF http = "closed" THEN http ELSE "closing"
            /\ UNCHANGED <<cleanup, exit>>
       ELSE /\ IF workers = "starting" THEN exit' = "0" /\ UNCHANGED cleanup
                                       ELSE cleanup' = "waiting" /\ UNCHANGED exit
            /\ UNCHANGED http
    /\ UNCHANGED <<kind, opened, open, boot, services, workers, loop, call, stream,
                   leaked>>

HttpClosed ==
    /\ Running /\ http = "closing"
    /\ (\A c \in Calls : call[c] = "idle") /\ stream = {}
    /\ http' = "closed"
    /\ cleanup' = "waiting"
    /\ UNCHANGED <<kind, opened, open, boot, services, workers, loop, call, stream,
                   signaled, exit, leaked>>

(***************************************************************************)
(* cleanup awaits the start-up of the workers, if there is one, and stops  *)
(* them; the handle's stop stops the loops, awaits the sweeps in flight,   *)
(* closes the services.                                                    *)
(***************************************************************************)
StopWorkers ==
    /\ Running /\ cleanup = "waiting" /\ workers = "running"
    /\ workers' = "stopping"
    /\ loop' = [l \in Loops |-> [loop[l] EXCEPT !.stopped = TRUE, !.timer = FALSE]]
    /\ UNCHANGED <<kind, http, opened, open, boot, services, call, stream, cleanup,
                   signaled, exit, leaked>>

\* Mutant: stop does not await inFlight.
SweepsAwaitedNever == TRUE

SweepsAwaited == \A l \in Loops : ~loop[l].sweep

CloseServices ==
    /\ Running /\ workers = "stopping"
    /\ SweepsAwaited
    /\ workers' = "stopped"
    /\ open' = open \ {services["workers"]}
    /\ UNCHANGED <<kind, http, opened, boot, services, loop, call, stream, cleanup,
                   signaled, exit, leaked>>

\* Mutant: cleanup stops the workers it knows of, without awaiting their start-up.
StartupAwaitedNever == workers # "running" /\ workers # "stopping"

StartupAwaited == workers \in {"none", "stopped"}

CleanupDone ==
    /\ Running /\ cleanup = "waiting"
    /\ StartupAwaited
    /\ cleanup' = "done"
    /\ UNCHANGED <<kind, http, opened, open, boot, services, workers, loop, call, stream,
                   signaled, exit, leaked>>

\* process.exit(0), or nothing is left to run after a listen that failed.
Exit ==
    /\ Running /\ cleanup = "done"
    /\ exit' = "0"
    /\ UNCHANGED <<kind, http, opened, open, boot, services, workers, loop, call, stream,
                   cleanup, signaled, leaked>>

-----------------------------------------------------------------------------
(***************************************************************************)
(* A worker bootstraps its workers at once, a server when it listens.      *)
(***************************************************************************)
Init ==
    /\ kind \in Kinds
    /\ services = [o \in Owners |-> 0]
    /\ loop = [l \in Loops |-> IdleLoop]
    /\ call = [c \in Calls |-> "idle"]
    /\ stream = {}
    /\ cleanup = "none" /\ signaled = FALSE /\ exit = "no" /\ leaked = {}
    /\ http = IF kind = "server" THEN "starting" ELSE "off"
    /\ IF kind = "server" \/ Loops = {}
       THEN /\ opened = 0 /\ open = {}
            /\ boot = [o \in Owners |-> IdleBoot]
            /\ workers = IF kind = "server" THEN "none" ELSE "running"
       ELSE /\ opened = 1 /\ open = {1}
            /\ boot = [o \in Owners |->
                    IF o = "workers" THEN [pc |-> "migrate", pool |-> 1] ELSE IdleBoot]
            /\ workers = "starting"

Bootstrap(o) == RunMigrations(o) \/ EnsureCollection(o)
Shutdown == HttpClosed \/ StopWorkers \/ CloseServices \/ CleanupDone \/ Exit

Next ==
    \/ \E o \in Owners : Bootstrap(o)
    \/ \E c \in Calls : Request(c) \/ CallEnds(c)
    \/ \E s \in Streams : StreamOpens(s) \/ ClientLeaves(s)
    \/ \E l \in Loops : Tick(l) \/ SweepEnds(l)
    \/ Listen \/ ListenFails \/ Signal \/ Shutdown

Spec == Init /\ [][Next]_vars

(***************************************************************************)
(* What is awaited comes to its end, in success or by an exception: sweeps *)
(* and calls, which are bounded by the timeouts of their clients, and      *)
(* bootstraps.  That a timer fires, a call or a signal comes, or a client  *)
(* leaves its stream, is not assumed.                                      *)
(***************************************************************************)
FairSpec ==
    /\ Spec
    /\ \A o \in Owners : WF_vars(Bootstrap(o))
    /\ \A c \in Calls : WF_vars(CallEnds(c))
    /\ \A l \in Loops : WF_vars(SweepEnds(l))
    /\ WF_vars(Shutdown)

-----------------------------------------------------------------------------
(***************************************************************************)
(* compact/sweeper-loop.ts of its stop handle: "process shutdown doesn't   *)
(* leave a dangling Qdrant call".  And a server that exits has no workers  *)
(* left whatever their start-up was doing when it was told to stop.        *)
(***************************************************************************)
ExitIsQuiet ==
    exit = "0" =>
        /\ \A l \in Loops : ~loop[l].sweep
        /\ kind = "server" =>
            /\ ~Bootstrapping("workers")
            /\ services["workers"] \notin open
            /\ \A l \in Loops : ~loop[l].timer

(***************************************************************************)
(* No sweep and no call ever finds the pool of its services ended.         *)
(***************************************************************************)
PoolOutlivesUsers ==
    /\ \A l \in Loops : loop[l].sweep \/ loop[l].timer => services["workers"] \in open
    /\ \A c \in Calls : call[c] = "running" => services["calls"] \in open

(***************************************************************************)
(* mcp/canonical-services.ts, "the singleton is reused for the lifetime of *)
(* the process": whatever calls arrive while it is being bootstrapped, and *)
(* fail, no pool is forgotten but those ensureCollection failed after.     *)
(***************************************************************************)
PoolsAccounted ==
    \A p \in open \ leaked : \E o \in Owners : p = services[o] \/ p = boot[o].pool

(***************************************************************************)
(* A stopped loop stays stopped: it sweeps no more, and arms no timer.     *)
(***************************************************************************)
StoppedStaysStopped ==
    [][\A l \in Loops :
        loop[l].stopped => ~loop'[l].timer /\ (loop'[l].sweep => loop[l].sweep)]_vars

(***************************************************************************)
(* A process that was told to stop exits once no client keeps a stream     *)
(* open, however its start-up, its calls and its sweeps come to an end.  A *)
(* client that keeps one keeps the server.                                 *)
(***************************************************************************)
ShutdownCompletes == (signaled /\ stream = {}) ~> ~Running

-----------------------------------------------------------------------------
(***************************************************************************)
(* What makes these inductive: who uses which pool, how far the handle of  *)
(* the workers and its loops agree, and what cleanup has awaited.          *)
(***************************************************************************)
PoolsApart ==
    /\ \A o \in Owners : boot[o].pool \notin leaked /\ services[o] \notin leaked
    /\ \A o \in Owners : Bootstrapping(o) => services[o] = 0
    /\ \A o \in Owners : boot[o].pc = "idle" => boot[o].pool = 0
    /\ \A o, q \in Owners :
        /\ o # q /\ Bootstrapping(o) => boot[o].pool \notin {boot[q].pool, services[q]}
        /\ o # q /\ services[o] # 0 => services[o] # services[q]
    /\ \A o \in Owners : services[o] \in 0 .. opened
    /\ services["calls"] # 0 => services["calls"] \in open

LoopsAgree ==
    /\ \A l \in Loops :
        /\ loop[l].timer => workers = "running"
        /\ loop[l].sweep => workers \in {"running", "stopping"}
        /\ loop[l].stopped <=> workers \in {"stopping", "stopped"}
    /\ Bootstrapping("workers") <=> workers = "starting"
    /\ services["workers"] # 0 => workers \in {"running", "stopping", "stopped"}
    /\ workers = "stopped" => services["workers"] \notin open

CleanupAwaited ==
    /\ cleanup # "none" => http \in {"off", "closed"}
    /\ http = "starting" => workers = "none"
    /\ kind = "worker" <=> http = "off"
    /\ cleanup = "done" => workers \in {"none", "stopped"}
    /\ exit = "0" => cleanup = "done" \/ (kind = "worker" /\ workers = "starting")
    /\ workers = "none" => services["workers"] = 0

LifecycleInv == TypeOK /\ PoolOutlivesUsers /\ PoolsAccounted /\ PoolsApart /\ LoopsAgree /\ CleanupAwaited

=============================================================================
