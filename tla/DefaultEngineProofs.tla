------------------------- MODULE DefaultEngineProofs -------------------------
(***************************************************************************)
(* Proofs that the safety properties of DefaultEngine hold for any number  *)
(* of threads and any number of _DaemonWorkers.                            *)
(***************************************************************************)
EXTENDS DefaultEngine, TLAPS, FiniteSetTheorems

-----------------------------------------------------------------------------
(* The inductive invariant *)

\* The worker constructs its engine; the worker has one to tear down.
Building(w) == wpc[w] \in {"start", "register", "count", "refuse"}
Serving(w)  == wpc[w] \in {"wait", "teardown"}

\* A shutdown has signalled worker w or is about to.
Signalled(w) ==
    \/ signal[w]
    \/ \E t \in Threads : ref[t] = w /\ pc[t] \in {"signal", "closing", "fallback"}

\* What the step of a worker says of its futures and its engine.  A worker is
\* signalled only when its engine is built.
WorkerSteps ==
    \A w \in Workers :
        /\ wpc[w] = "unborn" \/ Building(w) =>
              startup[w] = "pending" /\ ~Signalled(w)
        /\ Serving(w) \/ wpc[w] = "close" => startup[w] = "ok"
        /\ wpc[w] \in {"unborn", "start", "register"} => w \notin active
        /\ wpc[w] \in {"count", "refuse"} \/ Serving(w) => w \in active
        /\ wpc[w] = "teardown" => signal[w]
        /\ wpc[w] = "close" /\ w \notin abandoned => mine[w] = w
        /\ wpc[w] # "close" => mine[w] = None

\* What the step of a thread says of the worker it waits for.
ThreadSteps ==
    \A t \in Threads :
        /\ pc[t] \in {"startup", "signal", "closing", "fallback"}
             => ref[t] \in Workers
        /\ pc[t] \in {"closing", "fallback"} => signal[ref[t]]

\* Until a shutdown gives up, the slots are those of the one live worker.
SlotsKept ==
    abandoned = {} =>
        \A w \in Workers :
            /\ Building(w) \/ Serving(w) <=> worker = w
            /\ Serving(w) <=> instance = w

\* The engine of a worker that was given up is never torn down: it stays in
\* the registry, no other is built beside it, and the slot stays empty.
Leaked ==
    \A w \in abandoned :
        /\ instance = None /\ mine[w] = None
        /\ Built(w) /\ w \in active
        /\ Serving(w) \/ wpc[w] \in {"close", "done"}

\* The inductive invariant: what steps say of futures and registry, and what
\* the slots hold before and after a shutdown has given up.
IInv ==
    /\ TypeOK
    /\ OneDefaultEngine
    /\ SlotWorkerAlive
    /\ TornDownByItsWorker
    /\ WorkerSteps
    /\ ThreadSteps
    /\ SlotsKept
    /\ Leaked

-----------------------------------------------------------------------------
(* Every action keeps the invariant *)

\* Cardinality(active) is at most 1 only for an engine that is alone.
LEMMA AloneInRegistry ==
    ASSUME TypeOK, NEW w \in active, ~(Cardinality(active) > 1)
    PROVE  active = {w}
<1>1. IsFiniteSet(active)
  <2>1. IsFiniteSet(Workers \cup Threads)
    BY DefaultEngineAssumption, FS_Union
  <2>. QED  BY <2>1, FS_Subset DEF TypeOK
<1>2. Cardinality(active) \in Nat /\ Cardinality(active) # 0
  BY <1>1, FS_CardinalityType, FS_EmptySet
<1>3. PICK x : active = {x}
  BY <1>1, <1>2, FS_Singleton
<1>. QED  BY <1>3

\* Waiting for a worker, or starting one, keeps the invariant: an unborn worker
\* was never signalled.
LEMMA GetOrCreateKeeps ==
    ASSUME IInv, NEW t \in Threads, Running, GetOrCreate(t)
    PROVE  IInv'
<1>. USE DefaultEngineAssumption DEF IInv, TypeOK, Running, GetOrCreate, Goto, WGoto,
          slotVars, workerVars, threadVars
<1>1. TypeOK'  OBVIOUS
<1>2. OneDefaultEngine'  BY DEF OneDefaultEngine, Built, WorkerSteps, Building
<1>3. SlotWorkerAlive'  BY DEF SlotWorkerAlive
<1>4. TornDownByItsWorker'  BY DEF TornDownByItsWorker, WorkerSteps
<1>5. WorkerSteps'
  BY DEF WorkerSteps, Building, Serving, Signalled
<1>6. ThreadSteps'  BY DEF ThreadSteps
<1>7. SlotsKept'  BY DEF SlotsKept, Building, Serving
<1>8. Leaked'  BY DEF Leaked, Built, Serving
<1>. QED  BY <1>1, <1>2, <1>3, <1>4, <1>5, <1>6, <1>7, <1>8

\* Getting the result of the startup future keeps the invariant.
LEMMA StartedKeeps ==
    ASSUME IInv, NEW t \in Threads, Running, Started(t)
    PROVE  IInv'
<1>. USE DefaultEngineAssumption DEF IInv, TypeOK, Running, Started, Goto, slotVars,
          workerVars, threadVars
<1>1. TypeOK'  OBVIOUS
<1>2. OneDefaultEngine'  BY DEF OneDefaultEngine, Built, WorkerSteps, Building
<1>3. SlotWorkerAlive'  BY DEF SlotWorkerAlive
<1>4. TornDownByItsWorker'  BY DEF TornDownByItsWorker, WorkerSteps
<1>5. WorkerSteps'
  BY DEF WorkerSteps, Building, Serving, Signalled
<1>6. ThreadSteps'  BY DEF ThreadSteps
<1>7. SlotsKept'  BY DEF SlotsKept, Building, Serving
<1>8. Leaked'  BY DEF Leaked, Built, Serving
<1>. QED  BY <1>1, <1>2, <1>3, <1>4, <1>5, <1>6, <1>7, <1>8

\* Letting go of the engine keeps the invariant.
LEMMA ForgetKeeps ==
    ASSUME IInv, NEW t \in Threads, Running, Forget(t)
    PROVE  IInv'
<1>. USE DefaultEngineAssumption DEF IInv, TypeOK, Running, Forget, Goto, slotVars,
          workerVars, threadVars
<1>1. TypeOK'  OBVIOUS
<1>2. OneDefaultEngine'  BY DEF OneDefaultEngine, Built, WorkerSteps, Building
<1>3. SlotWorkerAlive'  BY DEF SlotWorkerAlive
<1>4. TornDownByItsWorker'  BY DEF TornDownByItsWorker, WorkerSteps
<1>5. WorkerSteps'
  BY DEF WorkerSteps, Building, Serving, Signalled
<1>6. ThreadSteps'  BY DEF ThreadSteps
<1>7. SlotsKept'  BY DEF SlotsKept, Building, Serving
<1>8. Leaked'  BY DEF Leaked, Built, Serving
<1>. QED  BY <1>1, <1>2, <1>3, <1>4, <1>5, <1>6, <1>7, <1>8

\* A shutdown that finds an engine keeps the invariant: it is about to signal
\* the worker of that engine, since no engine is built after a shutdown gave up.
LEMMA ShutdownKeeps ==
    ASSUME IInv, NEW t \in Threads, Running, Shutdown(t)
    PROVE  IInv'
<1>. USE DefaultEngineAssumption DEF IInv, TypeOK, Running, Shutdown, Goto, slotVars,
          workerVars, threadVars
<1>a. abandoned = {} /\ worker = instance /\ Serving(worker)
  BY DEF Leaked, SlotsKept
<1>1. TypeOK'  OBVIOUS
<1>2. OneDefaultEngine'  BY DEF OneDefaultEngine, Built, WorkerSteps, Building
<1>3. SlotWorkerAlive'  BY DEF SlotWorkerAlive
<1>4. TornDownByItsWorker'  BY DEF TornDownByItsWorker, WorkerSteps
<1>5. WorkerSteps'
  BY <1>a DEF WorkerSteps, Building, Serving, Signalled
<1>6. ThreadSteps'  BY DEF ThreadSteps
<1>7. SlotsKept'  BY DEF SlotsKept, Building, Serving
<1>8. Leaked'  BY DEF Leaked, Built, Serving
<1>. QED  BY <1>1, <1>2, <1>3, <1>4, <1>5, <1>6, <1>7, <1>8

\* Setting the signal keeps the invariant.
LEMMA SignalKeeps ==
    ASSUME IInv, NEW t \in Threads, Running, Signal(t)
    PROVE  IInv'
<1>. USE DefaultEngineAssumption DEF IInv, TypeOK, Running, Signal, Goto, slotVars,
          workerVars, threadVars
<1>1. TypeOK'  OBVIOUS
<1>2. OneDefaultEngine'  BY DEF OneDefaultEngine, Built, WorkerSteps, Building
<1>3. SlotWorkerAlive'  BY DEF SlotWorkerAlive
<1>4. TornDownByItsWorker'  BY DEF TornDownByItsWorker, WorkerSteps
<1>5. WorkerSteps'
  BY DEF WorkerSteps, Building, Serving, Signalled
<1>6. ThreadSteps'  BY DEF ThreadSteps
<1>7. SlotsKept'  BY DEF SlotsKept, Building, Serving
<1>8. Leaked'  BY DEF Leaked, Built, Serving
<1>. QED  BY <1>1, <1>2, <1>3, <1>4, <1>5, <1>6, <1>7, <1>8

\* A shutdown that ends keeps the invariant.
LEMMA ClosedKeeps ==
    ASSUME IInv, NEW t \in Threads, Running, Closed(t)
    PROVE  IInv'
<1>. USE DefaultEngineAssumption DEF IInv, TypeOK, Running, Closed, Goto, slotVars,
          workerVars, threadVars
<1>1. TypeOK'  OBVIOUS
<1>2. OneDefaultEngine'  BY DEF OneDefaultEngine, Built, WorkerSteps, Building
<1>3. SlotWorkerAlive'  BY DEF SlotWorkerAlive
<1>4. TornDownByItsWorker'  BY DEF TornDownByItsWorker, WorkerSteps
<1>5. WorkerSteps'
  BY DEF WorkerSteps, Building, Serving, Signalled
<1>6. ThreadSteps'  BY DEF ThreadSteps
<1>7. SlotsKept'  BY DEF SlotsKept, Building, Serving
<1>8. Leaked'  BY DEF Leaked, Built, Serving
<1>. QED  BY <1>1, <1>2, <1>3, <1>4, <1>5, <1>6, <1>7, <1>8

\* A shutdown that stops waiting keeps the invariant.
LEMMA TimeoutKeeps ==
    ASSUME IInv, NEW t \in Threads, Running, Timeout(t)
    PROVE  IInv'
<1>. USE DefaultEngineAssumption DEF IInv, TypeOK, Running, Timeout, Goto, slotVars,
          workerVars, threadVars
<1>1. TypeOK'  OBVIOUS
<1>2. OneDefaultEngine'  BY DEF OneDefaultEngine, Built, WorkerSteps, Building
<1>3. SlotWorkerAlive'  BY DEF SlotWorkerAlive
<1>4. TornDownByItsWorker'  BY DEF TornDownByItsWorker, WorkerSteps
<1>5. WorkerSteps'
  BY DEF WorkerSteps, Building, Serving, Signalled
<1>6. ThreadSteps'  BY DEF ThreadSteps
<1>7. SlotsKept'  BY DEF SlotsKept, Building, Serving
<1>8. Leaked'  BY DEF Leaked, Built, Serving
<1>. QED  BY <1>1, <1>2, <1>3, <1>4, <1>5, <1>6, <1>7, <1>8

\* Clearing the slots of a late worker keeps the invariant: the worker was
\* signalled, so its engine is built and in the registry, where it stays.
LEMMA FallbackKeeps ==
    ASSUME IInv, NEW t \in Threads, Running, Fallback(t)
    PROVE  IInv'
<1>. USE DefaultEngineAssumption DEF IInv, TypeOK, Running, Fallback, Goto, slotVars,
          workerVars, threadVars
<1>a. worker = ref[t] => Serving(worker)
  BY DEF ThreadSteps, SlotWorkerAlive, WorkerSteps, Signalled, Building,
       Serving
<1>1. TypeOK'  BY DEF ThreadSteps
<1>2. OneDefaultEngine'  BY DEF OneDefaultEngine, Built, WorkerSteps, Building
<1>3. SlotWorkerAlive'  BY DEF SlotWorkerAlive
<1>4. TornDownByItsWorker'  BY DEF TornDownByItsWorker, WorkerSteps
<1>5. WorkerSteps'
  BY DEF WorkerSteps, Building, Serving, Signalled
<1>6. ThreadSteps'  BY DEF ThreadSteps
<1>7. SlotsKept'  BY DEF SlotsKept, Building, Serving
<1>8. Leaked'  BY <1>a DEF Leaked, Built, Serving, WorkerSteps, ThreadSteps
<1>. QED  BY <1>1, <1>2, <1>3, <1>4, <1>5, <1>6, <1>7, <1>8

\* The check of an explicit engine keeps the invariant.
LEMMA CheckNoDefaultKeeps ==
    ASSUME IInv, NEW t \in Threads, Running, CheckNoDefault(t)
    PROVE  IInv'
<1>. USE DefaultEngineAssumption DEF IInv, TypeOK, Running, CheckNoDefault, Goto,
          slotVars, workerVars, threadVars
<1>1. TypeOK'  OBVIOUS
<1>2. OneDefaultEngine'  BY DEF OneDefaultEngine, Built, WorkerSteps, Building
<1>3. SlotWorkerAlive'  BY DEF SlotWorkerAlive
<1>4. TornDownByItsWorker'  BY DEF TornDownByItsWorker, WorkerSteps
<1>5. WorkerSteps'
  BY DEF WorkerSteps, Building, Serving, Signalled
<1>6. ThreadSteps'  BY DEF ThreadSteps
<1>7. SlotsKept'  BY DEF SlotsKept, Building, Serving
<1>8. Leaked'  BY DEF Leaked, Built, Serving
<1>. QED  BY <1>1, <1>2, <1>3, <1>4, <1>5, <1>6, <1>7, <1>8

\* Registering an explicit engine keeps the invariant.
LEMMA RegisterExplicitKeeps ==
    ASSUME IInv, NEW t \in Threads, Running, RegisterExplicit(t)
    PROVE  IInv'
<1>. USE DefaultEngineAssumption DEF IInv, TypeOK, Running, RegisterExplicit, Goto,
          slotVars, workerVars, threadVars
<1>1. TypeOK'  OBVIOUS
<1>2. OneDefaultEngine'  BY DEF OneDefaultEngine, Built, WorkerSteps, Building
<1>3. SlotWorkerAlive'  BY DEF SlotWorkerAlive
<1>4. TornDownByItsWorker'  BY DEF TornDownByItsWorker, WorkerSteps
<1>5. WorkerSteps'
  BY DEF WorkerSteps, Building, Serving, Signalled
<1>6. ThreadSteps'  BY DEF ThreadSteps
<1>7. SlotsKept'  BY DEF SlotsKept, Building, Serving
<1>8. Leaked'  BY DEF Leaked, Built, Serving
<1>. QED  BY <1>1, <1>2, <1>3, <1>4, <1>5, <1>6, <1>7, <1>8

\* Closing an explicit engine keeps the invariant.
LEMMA CloseExplicitKeeps ==
    ASSUME IInv, NEW t \in Threads, Running, CloseExplicit(t)
    PROVE  IInv'
<1>. USE DefaultEngineAssumption DEF IInv, TypeOK, Running, CloseExplicit, Goto,
          slotVars, workerVars, threadVars
<1>1. TypeOK'  OBVIOUS
<1>2. OneDefaultEngine'  BY DEF OneDefaultEngine, Built, WorkerSteps, Building
<1>3. SlotWorkerAlive'  BY DEF SlotWorkerAlive
<1>4. TornDownByItsWorker'  BY DEF TornDownByItsWorker, WorkerSteps
<1>5. WorkerSteps'
  BY DEF WorkerSteps, Building, Serving, Signalled
<1>6. ThreadSteps'  BY DEF ThreadSteps
<1>7. SlotsKept'  BY DEF SlotsKept, Building, Serving
<1>8. Leaked'  BY DEF Leaked, Built, Serving
<1>. QED  BY <1>1, <1>2, <1>3, <1>4, <1>5, <1>6, <1>7, <1>8

\* Taking the lock to build keeps the invariant.
LEMMA BuildKeeps ==
    ASSUME IInv, NEW w \in Workers, Running, Build(w)
    PROVE  IInv'
<1>. USE DefaultEngineAssumption DEF IInv, TypeOK, Running, Build, WGoto, slotVars,
          workerVars, threadVars
<1>1. TypeOK'  OBVIOUS
<1>2. OneDefaultEngine'  BY DEF OneDefaultEngine, Built, WorkerSteps, Building
<1>3. SlotWorkerAlive'  BY DEF SlotWorkerAlive
<1>4. TornDownByItsWorker'  BY DEF TornDownByItsWorker, WorkerSteps
<1>5. WorkerSteps'
  BY DEF WorkerSteps, Building, Serving, Signalled
<1>6. ThreadSteps'  BY DEF ThreadSteps
<1>7. SlotsKept'  BY DEF SlotsKept, Building, Serving
<1>8. Leaked'  BY DEF Leaked, Built, Serving, Building
<1>. QED  BY <1>1, <1>2, <1>3, <1>4, <1>5, <1>6, <1>7, <1>8

\* Registering the engine under construction keeps the invariant.
LEMMA RegisterKeeps ==
    ASSUME IInv, NEW w \in Workers, Running, Register(w)
    PROVE  IInv'
<1>. USE DefaultEngineAssumption DEF IInv, TypeOK, Running, Register, WGoto, slotVars,
          workerVars, threadVars
<1>1. TypeOK'  OBVIOUS
<1>2. OneDefaultEngine'  BY DEF OneDefaultEngine, Built, WorkerSteps, Building
<1>3. SlotWorkerAlive'  BY DEF SlotWorkerAlive
<1>4. TornDownByItsWorker'  BY DEF TornDownByItsWorker, WorkerSteps
<1>5. WorkerSteps'
  BY DEF WorkerSteps, Building, Serving, Signalled
<1>6. ThreadSteps'  BY DEF ThreadSteps
<1>7. SlotsKept'  BY DEF SlotsKept, Building, Serving
<1>8. Leaked'  BY DEF Leaked, Built, Serving, Building
<1>. QED  BY <1>1, <1>2, <1>3, <1>4, <1>5, <1>6, <1>7, <1>8

\* A constructor that raises keeps the invariant.
LEMMA ConstructorRaisesKeeps ==
    ASSUME IInv, NEW w \in Workers, Running, ConstructorRaises(w)
    PROVE  IInv'
<1>. USE DefaultEngineAssumption DEF IInv, TypeOK, Running, ConstructorRaises, WGoto,
          BuildFails, slotVars, workerVars, threadVars
<1>1. TypeOK'  OBVIOUS
<1>2. OneDefaultEngine'  BY DEF OneDefaultEngine, Built, WorkerSteps, Building
<1>3. SlotWorkerAlive'  BY DEF SlotWorkerAlive
<1>4. TornDownByItsWorker'  BY DEF TornDownByItsWorker, WorkerSteps
<1>5. WorkerSteps'
  BY DEF WorkerSteps, Building, Serving, Signalled
<1>6. ThreadSteps'  BY DEF ThreadSteps
<1>7. SlotsKept'  BY DEF SlotsKept, Building, Serving
<1>8. Leaked'  BY DEF Leaked, Built, Serving, Building
<1>. QED  BY <1>1, <1>2, <1>3, <1>4, <1>5, <1>6, <1>7, <1>8

\* Counting the registered engines keeps the invariant: the engine goes into
\* the slot only if it is alone, and then no shutdown has given up before.
LEMMA CountKeeps ==
    ASSUME IInv, NEW w \in Workers, Running, Count(w)
    PROVE  IInv'
<1>. USE DefaultEngineAssumption DEF IInv, TypeOK, Running, Count, WGoto, slotVars,
          workerVars, threadVars
<1>a. ~(Cardinality(active) > 1) => active = {w}
  BY AloneInRegistry DEF WorkerSteps
<1>b. ~(Cardinality(active) > 1) => abandoned = {}
  BY <1>a DEF Leaked, Serving
<1>1. TypeOK'  OBVIOUS
<1>2. OneDefaultEngine'  BY <1>a DEF OneDefaultEngine, Built
<1>3. SlotWorkerAlive'  BY DEF SlotWorkerAlive
<1>4. TornDownByItsWorker'  BY DEF TornDownByItsWorker, WorkerSteps
<1>5. WorkerSteps'
  BY DEF WorkerSteps, Building, Serving, Signalled
<1>6. ThreadSteps'  BY DEF ThreadSteps
<1>7. SlotsKept'  BY DEF SlotsKept, Building, Serving
<1>8. Leaked'  BY <1>b DEF Leaked, Built, Serving, Building
<1>. QED  BY <1>1, <1>2, <1>3, <1>4, <1>5, <1>6, <1>7, <1>8

\* Shutting a refused engine down keeps the invariant.
LEMMA RefuseKeeps ==
    ASSUME IInv, NEW w \in Workers, Running, Refuse(w)
    PROVE  IInv'
<1>. USE DefaultEngineAssumption DEF IInv, TypeOK, Running, Refuse, WGoto, BuildFails,
          slotVars, workerVars, threadVars
<1>1. TypeOK'  OBVIOUS
<1>2. OneDefaultEngine'  BY DEF OneDefaultEngine, Built, WorkerSteps, Building
<1>3. SlotWorkerAlive'  BY DEF SlotWorkerAlive
<1>4. TornDownByItsWorker'  BY DEF TornDownByItsWorker, WorkerSteps
<1>5. WorkerSteps'
  BY DEF WorkerSteps, Building, Serving, Signalled
<1>6. ThreadSteps'  BY DEF ThreadSteps
<1>7. SlotsKept'  BY DEF SlotsKept, Building, Serving
<1>8. Leaked'  BY DEF Leaked, Built, Serving, Building
<1>. QED  BY <1>1, <1>2, <1>3, <1>4, <1>5, <1>6, <1>7, <1>8

\* A worker that sees its signal keeps the invariant.
LEMMA WaitForSignalKeeps ==
    ASSUME IInv, NEW w \in Workers, Running, WaitForSignal(w)
    PROVE  IInv'
<1>. USE DefaultEngineAssumption DEF IInv, TypeOK, Running, WaitForSignal, WGoto,
          slotVars, workerVars, threadVars
<1>1. TypeOK'  OBVIOUS
<1>2. OneDefaultEngine'  BY DEF OneDefaultEngine, Built, WorkerSteps, Building
<1>3. SlotWorkerAlive'  BY DEF SlotWorkerAlive
<1>4. TornDownByItsWorker'  BY DEF TornDownByItsWorker, WorkerSteps
<1>5. WorkerSteps'
  BY DEF WorkerSteps, Building, Serving, Signalled
<1>6. ThreadSteps'  BY DEF ThreadSteps
<1>7. SlotsKept'  BY DEF SlotsKept, Building, Serving
<1>8. Leaked'  BY DEF Leaked, Built, Serving
<1>. QED  BY <1>1, <1>2, <1>3, <1>4, <1>5, <1>6, <1>7, <1>8

\* Taking the engine out of the slots keeps the invariant: it is the worker's
\* own, or none.
LEMMA TeardownKeeps ==
    ASSUME IInv, NEW w \in Workers, Running, Teardown(w)
    PROVE  IInv'
<1>. USE DefaultEngineAssumption DEF IInv, TypeOK, Running, Teardown, WGoto, slotVars,
          workerVars, threadVars
<1>a. instance \in {None, w}
  BY DEF Leaked, SlotsKept, Serving
<1>b. w \notin abandoned => abandoned = {} /\ instance = w
  BY DEF Leaked, SlotsKept, Serving, WorkerSteps, OneDefaultEngine, Built
<1>1. TypeOK'  OBVIOUS
<1>2. OneDefaultEngine'  BY DEF OneDefaultEngine, Built, WorkerSteps, Building
<1>3. SlotWorkerAlive'  BY DEF SlotWorkerAlive
<1>4. TornDownByItsWorker'  BY <1>a DEF TornDownByItsWorker, WorkerSteps
<1>5. WorkerSteps'
  BY <1>b DEF WorkerSteps, Building, Serving, Signalled
<1>6. ThreadSteps'  BY DEF ThreadSteps
<1>7. SlotsKept'  BY DEF SlotsKept, Building, Serving
<1>8. Leaked'  BY DEF Leaked, Built, Serving
<1>. QED  BY <1>1, <1>2, <1>3, <1>4, <1>5, <1>6, <1>7, <1>8

\* Shutting the engine down keeps the invariant.
LEMMA CloseEngineKeeps ==
    ASSUME IInv, NEW w \in Workers, Running, CloseEngine(w)
    PROVE  IInv'
<1>. USE DefaultEngineAssumption DEF IInv, TypeOK, Running, CloseEngine, WGoto,
          slotVars, workerVars, threadVars
<1>1. TypeOK'  OBVIOUS
<1>2. OneDefaultEngine'  BY DEF OneDefaultEngine, Built, WorkerSteps, Building
<1>3. SlotWorkerAlive'  BY DEF SlotWorkerAlive
<1>4. TornDownByItsWorker'  BY DEF TornDownByItsWorker, WorkerSteps
<1>5. WorkerSteps'
  BY DEF WorkerSteps, Building, Serving, Signalled, TornDownByItsWorker
<1>6. ThreadSteps'  BY DEF ThreadSteps
<1>7. SlotsKept'  BY DEF SlotsKept, Building, Serving
<1>8. Leaked'  BY DEF Leaked, Built, Serving, TornDownByItsWorker
<1>. QED  BY <1>1, <1>2, <1>3, <1>4, <1>5, <1>6, <1>7, <1>8

\* Collecting an engine nobody refers to keeps the invariant.
LEMMA CollectKeeps ==
    ASSUME IInv, NEW w \in Workers, Collect(w)
    PROVE  IInv'
<1>. USE DefaultEngineAssumption DEF IInv, TypeOK, Collect, slotVars,
          workerVars, threadVars
<1>1. TypeOK'  OBVIOUS
<1>2. OneDefaultEngine'  BY DEF OneDefaultEngine, Built, WorkerSteps, Building
<1>3. SlotWorkerAlive'  BY DEF SlotWorkerAlive
<1>4. TornDownByItsWorker'  BY DEF TornDownByItsWorker, WorkerSteps
<1>5. WorkerSteps'
  BY DEF WorkerSteps, Building, Serving, Signalled
<1>6. ThreadSteps'  BY DEF ThreadSteps
<1>7. SlotsKept'  BY DEF SlotsKept, Building, Serving
<1>8. Leaked'  BY DEF Leaked, Built, Serving
<1>. QED  BY <1>1, <1>2, <1>3, <1>4, <1>5, <1>6, <1>7, <1>8

-----------------------------------------------------------------------------
(* Theorems *)

\* The invariant holds initially.
LEMMA InitIInv == Init => IInv
<1>. SUFFICES ASSUME Init PROVE IInv
  OBVIOUS
<1>. USE DefaultEngineAssumption DEF Init
<1>1. TypeOK  BY DEF TypeOK
<1>2. OneDefaultEngine  BY DEF OneDefaultEngine, Built
<1>3. SlotWorkerAlive  BY DEF SlotWorkerAlive
<1>4. TornDownByItsWorker  BY DEF TornDownByItsWorker
<1>5. WorkerSteps  BY DEF WorkerSteps, Building, Serving, Signalled
<1>6. ThreadSteps  BY DEF ThreadSteps
<1>7. SlotsKept  BY DEF SlotsKept, Building, Serving
<1>8. Leaked  BY DEF Leaked
<1>. QED  BY <1>1, <1>2, <1>3, <1>4, <1>5, <1>6, <1>7, <1>8 DEF IInv

\* Every step keeps the invariant.
LEMMA NextIInv == IInv /\ [Next]_vars => IInv'
<1>. SUFFICES ASSUME IInv, [Next]_vars PROVE IInv'
  OBVIOUS
<1>1. CASE UNCHANGED vars
  BY <1>1 DEF vars, slotVars, workerVars, threadVars, IInv, TypeOK,
       OneDefaultEngine, Built, SlotWorkerAlive, TornDownByItsWorker,
       WorkerSteps, Building, Serving, Signalled, ThreadSteps, SlotsKept,
       Leaked
<1>2. ASSUME NEW t \in Threads, ThreadStep(t) \/ InCall(t)
      PROVE  IInv'
  BY <1>2, GetOrCreateKeeps, ForgetKeeps, ShutdownKeeps, StartedKeeps,
     SignalKeeps, ClosedKeeps, TimeoutKeeps, FallbackKeeps,
     CheckNoDefaultKeeps, RegisterExplicitKeeps, CloseExplicitKeeps
     DEF ThreadStep, InCall
<1>3. ASSUME NEW w \in Workers,
             WorkerStep(w) \/ EngineShutdown(w) \/ Collect(w)
      PROVE  IInv'
  BY <1>3, BuildKeeps, RegisterKeeps, ConstructorRaisesKeeps, CountKeeps,
     RefuseKeeps, WaitForSignalKeeps, TeardownKeeps, CloseEngineKeeps,
     CollectKeeps
     DEF WorkerStep, EngineShutdown
<1>. QED  BY <1>1, <1>2, <1>3 DEF Next, Terminated

\* The invariant holds always.
LEMMA SpecIInv == Spec => []IInv
BY InitIInv, NextIInv, PTL DEF Spec

\* The slots, futures and program counters always have their types.
THEOREM TypesPreserved == Spec => []TypeOK
<1>1. IInv => TypeOK  BY DEF IInv
<1>. QED  BY <1>1, SpecIInv, PTL

\* get_or_create never makes a second default engine, however many workers
\* were started and given up: one that was leaked stays registered, and
\* DefaultSingletonEngine refuses to be built beside it.
THEOREM AtMostOneDefaultEngine == Spec => []OneDefaultEngine
<1>1. IInv => OneDefaultEngine  BY DEF IInv
<1>. QED  BY <1>1, SpecIInv, PTL

\* get_or_create never waits for the startup future of a worker that ended.
THEOREM WorkerInSlotAlive == Spec => []SlotWorkerAlive
<1>1. IInv => SlotWorkerAlive  BY DEF IInv
<1>. QED  BY <1>1, SpecIInv, PTL

\* A shutdown that finds an engine finds its worker, the thread that made it,
\* also after workers were given up and have cleared the slots late.
THEOREM ShutdownSignalsOwner == Spec => []InstanceHasItsWorker
<1>1. IInv => InstanceHasItsWorker
  BY DefaultEngineAssumption DEF IInv, TypeOK, SlotsKept, Leaked, Serving,
       InstanceHasItsWorker
<1>. QED  BY <1>1, SpecIInv, PTL

\* No thread tears down the engine of another, and a worker that was not
\* given up does not end before its engine is gone, also when _teardown_engine
\* of a late worker finds the slots of its successors.
THEOREM TornDownByMaker == Spec => []TornDownByItsWorker
<1>1. IInv => TornDownByItsWorker  BY DEF IInv
<1>. QED  BY <1>1, SpecIInv, PTL

=============================================================================
