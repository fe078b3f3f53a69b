--------------------------- MODULE DefaultEngine ---------------------------
(***************************************************************************)
(* The process-wide default engine of cudf-polars and its worker threads   *)
(* (python/cudf_polars/cudf_polars/engine/default_singleton_engine.py),    *)
(* with the registry of live engines of StreamingEngine (engine/core.py)   *)
(* and the explicit engines that compete with it.                          *)
(*                                                                         *)
(* Every get_or_create that finds neither an instance nor a worker starts  *)
(* a _DaemonWorker, which builds one engine, waits for its signal, tears   *)
(* the engine down and ends.  The engine of worker w is named w, and the   *)
(* explicit engine of thread t is named t.  A section under _state.lock is *)
(* one step, except _build_engine, which constructs the engine under it    *)
(* and, when it must refuse, also shuts it down under it.                  *)
(*                                                                         *)
(* An engine has callbacks to itself in its exit stack: once nobody refers *)
(* to it, the garbage collector finds it on whichever thread it runs.  If  *)
(* it was not shut down before, its rapidsmpf Context is finalized on the  *)
(* wrong thread, which calls std::terminate: the process ends.             *)
(***************************************************************************)
EXTENDS Naturals, FiniteSets

CONSTANTS
    Threads,  \* threads of the program
    Workers,  \* bound on the _DaemonWorkers of a run
    None

ASSUME DefaultEngineAssumption ==
    /\ IsFiniteSet(Threads) /\ IsFiniteSet(Workers)
    /\ Threads \cap Workers = {}
    /\ None \notin Threads \cup Workers

VARIABLES
    lock,      \* the worker that holds _state.lock over several steps, or None
    instance,  \* _state.instance
    worker,    \* _state.worker
    active,    \* StreamingEngine._active_engines
    startup,   \* w -> startup_future
    closed,    \* w -> is shutdown_future resolved?
    signal,    \* w -> _shutdown_signal
    mine,      \* w -> local variable instance of _teardown_engine
    wpc,       \* w -> next step of the worker thread
    abandoned, \* workers whose slots a shutdown has given up and cleared
    terminated, \* has std::terminate ended the process?
    pc,        \* t -> next step of the thread
    ref,       \* t -> local variable worker of get_or_create and shutdown
    engine     \* t -> the default engine the thread uses

slotVars   == <<instance, worker>>
workerVars == <<startup, closed, signal, mine, wpc>>
threadVars == <<pc, ref, engine>>
vars == <<lock, slotVars, active, workerVars, abandoned, terminated, threadVars>>

\* The slots, futures and program counters have their types.
TypeOK ==
    /\ lock \in Workers \cup {None}
    /\ instance \in Workers \cup {None} /\ worker \in Workers \cup {None}
    /\ active \subseteq Workers \cup Threads
    /\ startup \in [Workers -> {"pending", "ok", "failed"}]
    /\ closed \in [Workers -> BOOLEAN] /\ signal \in [Workers -> BOOLEAN]
    /\ mine \in [Workers -> Workers \cup {None}]
    /\ wpc \in [Workers -> {"unborn", "start", "register", "count", "refuse",
                            "wait", "teardown", "close", "done"}]
    /\ abandoned \subseteq Workers
    /\ terminated \in BOOLEAN
    /\ pc \in [Threads -> {"idle", "startup", "using", "signal", "closing",
                           "fallback", "register", "explicit"}]
    /\ ref \in [Threads -> Workers \cup {None}]
    /\ engine \in [Threads -> Workers \cup {None}]

Init ==
    /\ lock = None /\ instance = None /\ worker = None /\ active = {}
    /\ startup = [w \in Workers |-> "pending"]
    /\ closed = [w \in Workers |-> FALSE]
    /\ signal = [w \in Workers |-> FALSE]
    /\ mine = [w \in Workers |-> None]
    /\ wpc = [w \in Workers |-> "unborn"]
    /\ abandoned = {}
    /\ terminated = FALSE
    /\ pc = [t \in Threads |-> "idle"]
    /\ ref = [t \in Threads |-> None]
    /\ engine = [t \in Threads |-> None]

Goto(t, l) == pc' = [pc EXCEPT ![t] = l]
WGoto(w, l) == wpc' = [wpc EXCEPT ![w] = l]

-----------------------------------------------------------------------------
(* get_or_create *)

\* The live instance is returned, a worker that is building is waited for,
\* and without either a new one is started.
GetOrCreate(t) ==
    /\ pc[t] = "idle" /\ lock = None
    /\ \/ /\ instance # None
          /\ engine' = [engine EXCEPT ![t] = instance]
          /\ Goto(t, "using")
          /\ UNCHANGED <<worker, wpc, ref>>
       \/ /\ instance = None /\ worker # None
          /\ ref' = [ref EXCEPT ![t] = worker]
          /\ Goto(t, "startup")
          /\ UNCHANGED <<worker, wpc, engine>>
       \/ /\ instance = None /\ worker = None
          /\ \E w \in Workers :
                /\ wpc[w] = "unborn"
                /\ WGoto(w, "start")
                /\ worker' = w
                /\ ref' = [ref EXCEPT ![t] = w]
          /\ Goto(t, "startup")
          /\ UNCHANGED engine
    /\ UNCHANGED <<abandoned, lock, instance, active, startup, closed, signal,
                   mine>>

\* startup_future.result() returns the engine or raises.
Started(t) ==
    /\ pc[t] = "startup" /\ startup[ref[t]] # "pending"
    /\ IF startup[ref[t]] = "ok"
       THEN Goto(t, "using") /\ engine' = [engine EXCEPT ![t] = ref[t]]
       ELSE Goto(t, "idle") /\ UNCHANGED engine
    /\ ref' = [ref EXCEPT ![t] = None]
    /\ UNCHANGED <<abandoned, lock, slotVars, active, workerVars>>

\* The program lets go of the engine.
Forget(t) ==
    /\ pc[t] = "using"
    /\ Goto(t, "idle")
    /\ engine' = [engine EXCEPT ![t] = None]
    /\ UNCHANGED <<abandoned, lock, slotVars, active, workerVars, ref>>

-----------------------------------------------------------------------------
(* shutdown *)

\* Without an instance shutdown returns at once.  The assertion that there is
\* a worker raises when it fails, and the call ends.
Shutdown(t) ==
    /\ pc[t] = "idle" /\ lock = None
    /\ instance # None /\ worker # None
    /\ ref' = [ref EXCEPT ![t] = worker]
    /\ Goto(t, "signal")
    /\ UNCHANGED <<abandoned, lock, slotVars, active, workerVars, engine>>

Signal(t) ==
    /\ pc[t] = "signal"
    /\ signal' = [signal EXCEPT ![ref[t]] = TRUE]
    /\ Goto(t, "closing")
    /\ UNCHANGED <<abandoned, lock, slotVars, active, startup, closed, mine,
                   wpc, ref, engine>>

Closed(t) ==
    /\ pc[t] = "closing" /\ closed[ref[t]]
    /\ Goto(t, "idle")
    /\ ref' = [ref EXCEPT ![t] = None]
    /\ UNCHANGED <<abandoned, lock, slotVars, active, workerVars, engine>>

\* SHUTDOWN_TIMEOUT_SECONDS have passed.
Timeout(t) ==
    /\ pc[t] = "closing" /\ ~closed[ref[t]]
    /\ Goto(t, "fallback")
    /\ UNCHANGED <<abandoned, lock, slotVars, active, workerVars, ref,
                   engine>>

\* Mutant: the engine that is given up is taken out of the registry.
FallbackUnregisters(t) ==
    /\ pc[t] = "fallback" /\ lock = None
    /\ IF worker = ref[t]
       THEN /\ instance' = None /\ worker' = None
            /\ active' = active \ {ref[t]}
            /\ abandoned' = abandoned \cup {ref[t]}
       ELSE UNCHANGED <<slotVars, active, abandoned>>
    /\ Goto(t, "idle")
    /\ ref' = [ref EXCEPT ![t] = None]
    /\ UNCHANGED <<lock, workerVars, engine>>

\* The slots are cleared if they are still those of the worker that is late;
\* its engine stays in the registry.
Fallback(t) ==
    /\ pc[t] = "fallback" /\ lock = None
    /\ IF worker = ref[t]
       THEN /\ instance' = None /\ worker' = None
            /\ abandoned' = abandoned \cup {ref[t]}
       ELSE UNCHANGED <<slotVars, abandoned>>
    /\ Goto(t, "idle")
    /\ ref' = [ref EXCEPT ![t] = None]
    /\ UNCHANGED <<lock, active, workerVars, engine>>

-----------------------------------------------------------------------------
(* Explicit engines *)

\* check_no_live_default_singleton, at the start of StreamingEngine.__init__.
CheckNoDefault(t) ==
    /\ pc[t] = "idle" /\ lock = None
    /\ instance = None
    /\ Goto(t, "register")
    /\ UNCHANGED <<abandoned, lock, slotVars, active, workerVars, ref,
                   engine>>

\* The rest of StreamingEngine.__init__ adds the engine to the registry, or
\* raises before.
RegisterExplicit(t) ==
    /\ pc[t] = "register"
    /\ \/ active' = active \cup {t} /\ Goto(t, "explicit")
       \/ UNCHANGED active /\ Goto(t, "idle")
    /\ UNCHANGED <<abandoned, lock, slotVars, workerVars, ref, engine>>

CloseExplicit(t) ==
    /\ pc[t] = "explicit"
    /\ active' = active \ {t}
    /\ Goto(t, "idle")
    /\ UNCHANGED <<abandoned, lock, slotVars, workerVars, ref, engine>>

-----------------------------------------------------------------------------
(* The worker thread *)

\* _build_engine takes the lock.
Build(w) ==
    /\ wpc[w] = "start" /\ lock = None
    /\ lock' = w
    /\ WGoto(w, "register")
    /\ UNCHANGED <<abandoned, slotVars, active, startup, closed, signal, mine,
                   threadVars>>

\* The constructors of SPMDEngine and StreamingEngine.
Register(w) ==
    /\ wpc[w] = "register"
    /\ active' = active \cup {w}
    /\ WGoto(w, "count")
    /\ UNCHANGED <<abandoned, lock, slotVars, startup, closed, signal, mine,
                   threadVars>>

\* Mutant: the future is cancelled rather than failed.
BuildCancelled(w) ==
    /\ worker' = None
    /\ startup' = [startup EXCEPT ![w] = "cancelled"]
    /\ lock' = None
    /\ WGoto(w, "done")
    /\ UNCHANGED <<abandoned, instance, closed, signal, mine, threadVars>>

\* Mutant: the worker slot is not freed.
BuildFailsInSlot(w) ==
    /\ startup' = [startup EXCEPT ![w] = "failed"]
    /\ lock' = None
    /\ WGoto(w, "done")
    /\ UNCHANGED <<abandoned, slotVars, closed, signal, mine, threadVars>>

\* Mutant: nobody sets the exception of the future.
BuildFailsSilently(w) ==
    /\ worker' = None
    /\ lock' = None
    /\ WGoto(w, "done")
    /\ UNCHANGED <<abandoned, instance, startup, closed, signal, mine,
                   threadVars>>

\* _build_engine raises: the worker slot is freed and the thread ends.
BuildFails(w) ==
    /\ worker' = None
    /\ startup' = [startup EXCEPT ![w] = "failed"]
    /\ lock' = None
    /\ WGoto(w, "done")
    /\ UNCHANGED <<abandoned, instance, closed, signal, mine, threadVars>>

ConstructorRaises(w) ==
    /\ wpc[w] = "register"
    /\ UNCHANGED active
    /\ BuildFails(w)

\* Mutant: the other engines are not counted.
CountNothing(w) ==
    /\ wpc[w] = "count"
    /\ instance' = w
    /\ startup' = [startup EXCEPT ![w] = "ok"]
    /\ lock' = None
    /\ WGoto(w, "wait")
    /\ UNCHANGED <<abandoned, worker, active, closed, signal, mine,
                   threadVars>>

\* DefaultSingletonEngine.__init__ refuses to be one of several engines.
Count(w) ==
    /\ wpc[w] = "count"
    /\ IF Cardinality(active) > 1
       THEN WGoto(w, "refuse") /\ UNCHANGED <<lock, instance, startup>>
       ELSE /\ instance' = w
            /\ startup' = [startup EXCEPT ![w] = "ok"]
            /\ lock' = None
            /\ WGoto(w, "wait")
    /\ UNCHANGED <<abandoned, worker, active, closed, signal, mine,
                   threadVars>>

\* Mutant: the engine that is refused is not shut down.
RefuseLeaks(w) ==
    /\ wpc[w] = "refuse"
    /\ UNCHANGED active
    /\ BuildFails(w)

\* SPMDEngine.shutdown of the engine that is refused, which may take forever
\* with _state.lock held; then the constructor raises.
Refuse(w) ==
    /\ wpc[w] = "refuse"
    /\ active' = active \ {w}
    /\ BuildFails(w)

WaitForSignal(w) ==
    /\ wpc[w] = "wait" /\ signal[w]
    /\ WGoto(w, "teardown")
    /\ UNCHANGED <<abandoned, lock, slotVars, active, startup, closed, signal,
                   mine, threadVars>>

\* _teardown_engine takes what it finds in the slots.
Teardown(w) ==
    /\ wpc[w] = "teardown" /\ lock = None
    /\ mine' = [mine EXCEPT ![w] = instance]
    /\ instance' = None /\ worker' = None
    /\ WGoto(w, "close")
    /\ UNCHANGED <<abandoned, lock, active, startup, closed, signal,
                   threadVars>>

\* SPMDEngine.shutdown, which may take forever; then shutdown_future resolves.
CloseEngine(w) ==
    /\ wpc[w] = "close"
    /\ active' = active \ {mine[w]}
    /\ closed' = [closed EXCEPT ![w] = TRUE]
    /\ mine' = [mine EXCEPT ![w] = None]
    /\ WGoto(w, "done")
    /\ UNCHANGED <<abandoned, lock, slotVars, startup, signal, threadVars>>

\* The garbage collector finds an engine that was never shut down and that
\* nobody refers to, after its thread has ended.  A worker that runs refers to
\* its engine through startup_future.
Collect(w) ==
    /\ wpc[w] = "done" /\ w \in active
    /\ instance # w
    /\ \A t \in Threads : engine[t] # w /\ ref[t] # w
    /\ \A v \in Workers : mine[v] # w
    /\ ~terminated /\ terminated' = TRUE
    /\ UNCHANGED <<abandoned, lock, slotVars, active, workerVars, threadVars>>

-----------------------------------------------------------------------------
Running == ~terminated /\ UNCHANGED terminated

\* The steps of a thread that is inside a call.
InCall(t) ==
    /\ Running
    /\ Started(t) \/ Signal(t) \/ Closed(t) \/ Timeout(t) \/ Fallback(t)

\* The other steps of a thread.
ThreadStep(t) ==
    /\ Running
    /\ \/ GetOrCreate(t) \/ Forget(t) \/ Shutdown(t)
       \/ CheckNoDefault(t) \/ RegisterExplicit(t) \/ CloseExplicit(t)

\* The steps of a worker that do not depend on SPMDEngine.shutdown.
WorkerStep(w) ==
    /\ Running
    /\ \/ Build(w) \/ Register(w) \/ ConstructorRaises(w) \/ Count(w)
       \/ WaitForSignal(w) \/ Teardown(w)

\* The steps that do.
EngineShutdown(w) == Running /\ (Refuse(w) \/ CloseEngine(w))

\* The process is gone.
Terminated == terminated /\ UNCHANGED vars

Next ==
    \/ \E t \in Threads : ThreadStep(t) \/ InCall(t)
    \/ \E w \in Workers : WorkerStep(w) \/ EngineShutdown(w) \/ Collect(w)
    \/ Terminated

Spec == Init /\ [][Next]_vars

\* The scheduler runs every thread; SPMDEngine.shutdown may hang.
FairSpec ==
    /\ Spec
    /\ \A t \in Threads : WF_vars(InCall(t))
    /\ \A w \in Workers : WF_vars(WorkerStep(w))

-----------------------------------------------------------------------------
(* Properties *)

Built(w) == startup[w] = "ok"

\* At most one default engine is alive, one whose teardown hangs included:
\* the leaked engine stays registered and makes later constructions fail.
OneDefaultEngine ==
    \A v, w \in Workers :
        Built(v) /\ Built(w) /\ {v, w} \subseteq active => v = w

\* The engine in the slot belongs to the worker in the slot, which is there to
\* tear it down: shutdown finds a worker, and signals the right thread.  A
\* worker that was given up and clears the slots of its successors late never
\* takes them from an engine that was built.
InstanceHasItsWorker ==
    instance # None =>
        worker = instance /\ wpc[instance] \in {"wait", "teardown"}

\* A worker in the slot is alive and will resolve its startup future, so that
\* get_or_create never waits for a thread that has ended.
SlotWorkerAlive ==
    worker # None => wpc[worker] \notin {"unborn", "close", "done"}

\* The rapidsmpf Context is torn down by the thread that made it: a worker
\* shuts down no engine but its own, and does so before it ends, unless a
\* shutdown that gave up has taken the engine from it.
TornDownByItsWorker ==
    \A w \in Workers :
        /\ mine[w] \in {None, w}
        /\ wpc[w] = "done" /\ w \notin abandoned => w \notin active

\* get_or_create and shutdown return or raise, also while a teardown hangs;
\* only the teardown of an engine that is refused, which holds _state.lock, and
\* the end of the process may keep them from it.
EveryCallEnds ==
    \A t \in Threads :
        pc[t] \in {"startup", "signal", "closing", "fallback"}
            ~> \/ pc[t] \in {"idle", "using"}
               \/ terminated
               \/ \E w \in Workers : wpc[w] = "refuse"

=============================================================================
