--------------------------- MODULE SpillableBuffer ---------------------------
(***************************************************************************)
(* The concurrent protocol between SpillableBufferOwner and SpillManager   *)
(* (python/cudf/cudf/core/buffer/spillable_buffer.py, spill_manager.py).   *)
(*                                                                         *)
(* Threads run cudf code that enters access contexts, reads device         *)
(* pointers, exposes buffers and creates and drops them.  Any thread may   *)
(* at any moment run the spill loop, either because a device limit is      *)
(* configured or because an RMM allocation failed and the out-of-memory    *)
(* handler was called -- possibly while the thread already holds the lock  *)
(* of the very buffer it is moving back to the device.                     *)
(*                                                                         *)
(* A thread switch can happen wherever the code does not hold a lock, and  *)
(* inside the locked regions wherever unlocked readers can look: one       *)
(* action stands for the code between two such points.  Every buffer       *)
(* occupies one slot of device memory.                                     *)
(***************************************************************************)
EXTENDS Integers, Sequences, FiniteSets

CONSTANTS
    Threads,      \* Python threads
    Owners,       \* SpillableBufferOwner objects
    Slots,        \* device memory, in units of one buffer
    Null,         \* the null device pointer, an unheld lock, free memory
    NoPtr,        \* "no pointer has been read"
    NoLimit,      \* device_memory_limit=None
    DeviceLimit,  \* SpillManager._device_memory_limit
    MaxOps        \* bound on the operations the threads start

ASSUME ConstantsAssumption ==
    /\ IsFiniteSet(Owners)
    /\ Null \notin Threads \cup Owners \cup Slots
    /\ NoPtr \notin Slots \cup {Null}
    /\ NoLimit \notin Nat
    /\ DeviceLimit \in Nat \cup {NoLimit}
    /\ MaxOps \in Nat

VARIABLES
    \* SpillableBufferOwner
    lock,     \* owner -> thread holding its RLock, or Null
    type,     \* _ptr_desc["type"]
    host,     \* is there a _ptr_desc["memoryview"]?
    ptr,      \* _ptr
    exposed,  \* _exposed
    locks,    \* _spill_locks: the threads whose contexts hold a live SpillLock
    last,     \* _last_accessed, as a rank among the owners
    \* SpillManager and the program
    buffers,  \* SpillManager._buffers (weak references)
    refs,     \* owners the program still refers to
    mem,      \* slot -> owner whose data it holds, or Null
    \* what each thread is doing
    pc,       \* next step
    op,       \* operation in progress
    cur,      \* owner the operation is about
    todo,     \* rest of the tuple the loop of spill_device_memory iterates over
    goal,     \* its argument nbytes
    spilled,  \* its local variable of that name
    retry,    \* retry_once of _out_of_memory_handle
    ret,      \* who called spill_device_memory
    nops,     \* operations started
    \* pointers in the hands of the program
    got,      \* thread -> owner -> pointer read inside its access context
    raw       \* owner -> pointers read outside of any context of the reader

ownerVars   == <<lock, type, host, ptr, exposed, locks, last>>
managerVars == <<buffers, refs, mem>>
callVars    == <<op, cur>>
loopVars    == <<todo, goal, spilled, retry, ret>>
threadVars  == <<pc, callVars, loopVars, nops>>
pointerVars == <<got, raw>>
vars        == <<ownerVars, managerVars, threadVars, pointerVars>>

Steps == {"idle", "ptr", "acquire", "unspill", "alloc", "touch", "limit",
          "register", "expose_lock", "expose_set", "return", "snapshot",
          "loop", "check", "copy", "clear", "mark", "end"}
Ops   == {"none", "new", "ptr", "rawptr", "expose", "spill", "spillowner"}

\* The fields of SpillableBufferOwner and SpillManager and the local variables
\* of the operations have their types, at every step of every operation.
TypeOK ==
    /\ lock \in [Owners -> Threads \cup {Null}]
    /\ type \in [Owners -> {"gpu", "cpu"}]
    /\ host \in [Owners -> BOOLEAN]
    /\ ptr \in [Owners -> Slots \cup {Null}]
    /\ exposed \in [Owners -> BOOLEAN]
    /\ locks \in [Owners -> SUBSET Threads]
    /\ last \in [Owners -> Int]
    /\ buffers \subseteq Owners
    /\ refs \subseteq Owners
    /\ mem \in [Slots -> Owners \cup {Null}]
    /\ pc \in [Threads -> Steps]
    /\ op \in [Threads -> Ops]
    /\ cur \in [Threads -> Owners \cup {Null}]
    /\ todo \in [Threads -> Seq(Owners)]
    /\ goal \in [Threads -> Int]
    /\ spilled \in [Threads -> Nat]
    /\ retry \in [Threads -> BOOLEAN]
    /\ ret \in [Threads -> {"oom", "limit", "user"}]
    /\ nops \in Nat
    /\ got \in [Threads -> [Owners -> Slots \cup {Null, NoPtr}]]
    /\ raw \in [Owners -> SUBSET (Slots \cup {Null})]

-----------------------------------------------------------------------------
(* Helpers *)

is_spilled(o) == type[o] # "gpu"

\* Mutant: a spill lock does not make a buffer unspillable.
spillableIfPinned(o) == ~exposed[o]

\* Mutant: exposure does not make a buffer unspillable.
spillableIfExposed(o) == locks[o] = {}

spillable(o) == ~exposed[o] /\ locks[o] = {}

\* Mutant: without the test of is_spilled.
EligibleAnywhere(o) == spillable(o)

\* What the spill loop looks for.
Eligible(o) == ~is_spilled(o) /\ spillable(o)

\* Mutant: the assignment is forgotten.
NotMoved(o, target) == type

\* Mutant: a target nobody knows.
MovedToDisk(o, target) == [type EXCEPT ![o] = "disk"]

\* _ptr_desc["type"] = target, at the end of spill.
Moved(o, target) == [type EXCEPT ![o] = target]

\* Mutant: _owner is kept.
Kept(p) == mem

\* _owner = None frees the device memory at address p.
Deallocated(p) == [s \in Slots |-> IF s = p THEN Null ELSE mem[s]]

\* _last_accessed = time.monotonic(): o becomes the most recently used owner.
Touched(o) ==
    [x \in Owners |-> IF x = o THEN Cardinality(Owners)
                      ELSE IF last[x] > last[o] THEN last[x] - 1 ELSE last[x]]

\* Mutant: the buffers are not sorted.
AnyOrder ==
    {q \in [1..Cardinality(buffers) -> buffers] :
        /\ \A i, j \in DOMAIN q : i # j => q[i] # q[j]}

\* SpillManager.buffers(order_by_access_time=True): the tuples it may return.
ByAccessTime ==
    {q \in [1..Cardinality(buffers) -> buffers] :
        /\ \A i, j \in DOMAIN q : i # j => q[i] # q[j]
        /\ \A i, j \in DOMAIN q : i < j => last[q[i]] <= last[q[j]]}

\* Bytes the manager believes to be on the device.
Unspilled == Cardinality({o \in buffers : ~is_spilled(o)})

\* The owner the spill loop is looking at.
Victim(t) == Head(todo[t])

Idle(t) == pc[t] = "idle"

Goto(t, step) == pc' = [pc EXCEPT ![t] = step]

\* A thread starts one of its operations, on owner o, at a step.
Begin(t, o, what, step) ==
    /\ Idle(t)
    /\ nops < MaxOps
    /\ nops' = nops + 1
    /\ op' = [op EXCEPT ![t] = what]
    /\ cur' = [cur EXCEPT ![t] = o]
    /\ Goto(t, step)

\* The operation returns or raises; its local variables are gone.
Finish(t) ==
    /\ Goto(t, "idle")
    /\ op' = [op EXCEPT ![t] = "none"]
    /\ cur' = [cur EXCEPT ![t] = Null]
    /\ todo' = [todo EXCEPT ![t] = <<>>]
    /\ goal' = [goal EXCEPT ![t] = 0]
    /\ spilled' = [spilled EXCEPT ![t] = 0]
    /\ retry' = [retry EXCEPT ![t] = TRUE]
    /\ ret' = [ret EXCEPT ![t] = "user"]

\* spill_device_memory(nbytes=n), on behalf of caller.
CallSpill(t, n, caller) ==
    /\ goal' = [goal EXCEPT ![t] = n]
    /\ ret' = [ret EXCEPT ![t] = caller]
    /\ retry' = [retry EXCEPT ![t] = TRUE]
    /\ UNCHANGED <<todo, spilled>>

\* Owners nothing refers to: not the program, no operation and no loop.  (The
\* tuple of a loop also holds the owners the loop is done with; letting those
\* go earlier only adds behaviours.)
Garbage ==
    {o \in buffers \ refs :
        \A t \in Threads : /\ cur[t] # o
                           /\ \A i \in DOMAIN todo[t] : todo[t][i] # o}

\* The owners in S cease to exist.
Free(S) ==
    /\ buffers' = buffers \ S
    /\ mem' = [s \in Slots |-> IF mem[s] \in S THEN Null ELSE mem[s]]
    /\ ptr' = [o \in Owners |-> IF o \in S THEN Null ELSE ptr[o]]
    /\ type' = [o \in Owners |-> IF o \in S THEN "cpu" ELSE type[o]]
    /\ host' = [o \in Owners |-> IF o \in S THEN FALSE ELSE host[o]]
    /\ exposed' = [o \in Owners |-> IF o \in S THEN FALSE ELSE exposed[o]]

\* The pointer leaves the owner: into the caller's context if it has one.
Deliver(t, o) ==
    IF t \in locks[o]
    THEN got' = [got EXCEPT ![t][o] = ptr[o]] /\ UNCHANGED raw
    ELSE raw' = [raw EXCEPT ![o] = @ \cup {ptr[o]}] /\ UNCHANGED got

-----------------------------------------------------------------------------
(* Access contexts *)

\* Mutant: __enter__ does not take the lock.
EnterUnlocked(t, o) ==
    /\ Idle(t) /\ nops < MaxOps
    /\ o \in refs \cap buffers
    /\ t \notin locks[o]
    /\ locks' = [locks EXCEPT ![o] = @ \cup {t}]
    /\ nops' = nops + 1
    /\ UNCHANGED <<lock, type, host, ptr, exposed, last, managerVars, pc,
                   callVars, loopVars, pointerVars>>

\* _SpillableBufferAccessContext.__enter__, scope="internal".
Enter(t, o) ==
    /\ Idle(t) /\ nops < MaxOps
    /\ o \in refs \cap buffers
    /\ t \notin locks[o]
    /\ lock[o] = Null
    /\ locks' = [locks EXCEPT ![o] = @ \cup {t}]
    /\ nops' = nops + 1
    /\ UNCHANGED <<lock, type, host, ptr, exposed, last, managerVars, pc,
                   callVars, loopVars, pointerVars>>

\* SpillableBuffer.serialize of an unspilled buffer: the frame's wrapper takes
\* a spill lock and keeps the pointer; the frame is dropped by Exit.
Serialize(t, o) ==
    /\ Idle(t) /\ nops < MaxOps
    /\ o \in refs \cap buffers
    /\ t \notin locks[o]
    /\ lock[o] = Null
    /\ ~is_spilled(o)
    /\ locks' = [locks EXCEPT ![o] = @ \cup {t}]
    /\ got' = [got EXCEPT ![t][o] = ptr[o]]
    /\ nops' = nops + 1
    /\ UNCHANGED <<lock, type, host, ptr, exposed, last, managerVars, pc,
                   callVars, loopVars, raw>>

\* __exit__: the SpillLock dies, and with it its entry in the WeakSet.  No
\* lock is taken.
Exit(t, o) ==
    /\ Idle(t)
    /\ t \in locks[o]
    /\ locks' = [locks EXCEPT ![o] = @ \ {t}]
    /\ got' = [got EXCEPT ![t][o] = NoPtr]
    /\ UNCHANGED <<lock, type, host, ptr, exposed, last, managerVars,
                   threadVars, raw>>

-----------------------------------------------------------------------------
(* SpillableBufferOwner.ptr and mark_exposed *)

\* ptr, first test: without any spill lock the buffer gets exposed.
ReadPtr(t, o) ==
    /\ o \in refs \cap buffers
    /\ IF locks[o] = {} THEN Begin(t, o, "rawptr", "limit")
                        ELSE Begin(t, o, "ptr", "ptr")
    /\ UNCHANGED <<ownerVars, managerVars, loopVars, pointerVars>>

\* ptr, second test, on whatever is_spilled says now.
PtrTest(t) ==
    /\ pc[t] = "ptr"
    /\ Goto(t, IF is_spilled(cur[t]) THEN "acquire" ELSE "touch")
    /\ UNCHANGED <<ownerVars, managerVars, callVars, loopVars, nops,
                   pointerVars>>

\* "with self.lock" of spill(target="gpu").
Acquire(t) ==
    /\ pc[t] = "acquire"
    /\ lock[cur[t]] = Null
    /\ lock' = [lock EXCEPT ![cur[t]] = t]
    /\ Goto(t, "unspill")
    /\ UNCHANGED <<type, host, ptr, exposed, locks, last, managerVars,
                   callVars, loopVars, nops, pointerVars>>

\* Last lines of ptr in the spill-locked branch.
PtrTouch(t) ==
    /\ pc[t] = "touch"
    /\ last' = Touched(cur[t])
    /\ Deliver(t, cur[t])
    /\ Finish(t)
    /\ UNCHANGED <<lock, type, host, ptr, exposed, locks, managerVars, nops>>

\* mark_exposed called by an access context of scope="external".
MarkExposed(t, o) ==
    /\ o \in refs \cap buffers
    /\ Begin(t, o, "expose", "limit")
    /\ UNCHANGED <<ownerVars, managerVars, loopVars, pointerVars>>

\* mark_exposed: "with self.lock".
ExposeLock(t) ==
    /\ pc[t] = "expose_lock"
    /\ lock[cur[t]] = Null
    /\ lock' = [lock EXCEPT ![cur[t]] = t]
    /\ Goto(t, "unspill")
    /\ UNCHANGED <<type, host, ptr, exposed, locks, last, managerVars,
                   callVars, loopVars, nops, pointerVars>>

\* mark_exposed: the rest of the locked region, after spill(target="gpu").
ExposeSet(t) ==
    /\ pc[t] = "expose_set"
    /\ exposed' = [exposed EXCEPT ![cur[t]] = TRUE]
    /\ last' = Touched(cur[t])
    /\ lock' = [lock EXCEPT ![cur[t]] = Null]
    /\ IF op[t] = "rawptr"
       THEN Goto(t, "return") /\ UNCHANGED <<callVars, loopVars>>
       ELSE Finish(t)
    /\ UNCHANGED <<type, host, ptr, locks, managerVars, nops, pointerVars>>

\* "return self._ptr" after mark_exposed.
PtrReturn(t) ==
    /\ pc[t] = "return"
    /\ Deliver(t, cur[t])
    /\ Finish(t)
    /\ UNCHANGED <<ownerVars, managerVars, nops>>

-----------------------------------------------------------------------------
(* spill(target="gpu") and the RMM allocation inside it *)

\* Where the caller of spill(target="gpu") goes on, and with which lock:
\* mark_exposed keeps it, ptr had none.
AfterUnspill(t) == IF op[t] = "ptr" THEN "touch" ELSE "expose_set"

\* Mutant: mark_exposed does not keep the lock.
LockNotKept(t) == Null

LockAfterUnspill(t) == IF op[t] = "ptr" THEN Null ELSE t

\* The early return, or the pop of the host copy that feeds the transfer.
Unspill(t) ==
    /\ pc[t] = "unspill"
    /\ is_spilled(cur[t]) => ~exposed[cur[t]] /\ host[cur[t]]
    /\ IF is_spilled(cur[t])
       THEN /\ host' = [host EXCEPT ![cur[t]] = FALSE]
            /\ Goto(t, "alloc")
            /\ UNCHANGED lock
       ELSE /\ lock' = [lock EXCEPT ![cur[t]] = LockAfterUnspill(t)]
            /\ Goto(t, AfterUnspill(t))
            /\ UNCHANGED host
    /\ UNCHANGED <<type, ptr, exposed, locks, last, managerVars, callVars,
                   loopVars, nops, pointerVars>>

\* "Cannot in-place move an exposed buffer", or the KeyError of popping a host
\* copy that an earlier unspill lost.
UnspillRaises(t) ==
    /\ pc[t] = "unspill"
    /\ is_spilled(cur[t])
    /\ exposed[cur[t]] \/ ~host[cur[t]]
    /\ lock' = [lock EXCEPT ![cur[t]] = Null]
    /\ Finish(t)
    /\ UNCHANGED <<type, host, ptr, exposed, locks, last, managerVars, nops,
                   pointerVars>>

\* The allocation succeeds.  For op "new" it is the program's own allocation.
Alloc(t) ==
    /\ pc[t] = "alloc"
    /\ \E s \in Slots :
        /\ mem[s] = Null
        /\ mem' = [mem EXCEPT ![s] = cur[t]]
        /\ ptr' = [ptr EXCEPT ![cur[t]] = s]
    /\ type' = Moved(cur[t], "gpu")
    /\ IF op[t] = "new"
       THEN Goto(t, "register") /\ UNCHANGED lock
       ELSE /\ lock' = [lock EXCEPT ![cur[t]] = LockAfterUnspill(t)]
            /\ Goto(t, AfterUnspill(t))
    /\ UNCHANGED <<host, exposed, locks, last, buffers, refs, callVars,
                   loopVars, nops, pointerVars>>

\* from_device_memory wraps the new memory and SpillManager.add registers it.
Register(t) ==
    /\ pc[t] = "register"
    /\ buffers' = buffers \cup {cur[t]}
    /\ last' = Touched(cur[t])
    /\ Goto(t, "limit")
    /\ UNCHANGED <<lock, type, host, ptr, exposed, locks, refs, mem, callVars,
                   loopVars, nops, pointerVars>>

\* The allocation fails and RMM calls _out_of_memory_handle.
AllocFails(t) ==
    /\ pc[t] = "alloc"
    /\ \A s \in Slots : mem[s] # Null
    /\ CallSpill(t, 1, "oom")
    /\ Goto(t, "snapshot")
    /\ UNCHANGED <<ownerVars, managerVars, callVars, nops, pointerVars>>

-----------------------------------------------------------------------------
(* SpillManager.spill_to_device_limit and spill_device_memory *)

\* Where the caller of spill_to_device_limit goes on.
AfterLimit(t) == IF op[t] \in {"rawptr", "expose"} THEN "expose_lock" ELSE "end"

\* spill_to_device_limit: a no-op without a limit.
Limit(t) ==
    /\ pc[t] = "limit"
    /\ IF DeviceLimit = NoLimit
       THEN Goto(t, AfterLimit(t)) /\ UNCHANGED loopVars
       ELSE /\ CallSpill(t, Unspilled - DeviceLimit, "limit")
            /\ Goto(t, "snapshot")
    /\ UNCHANGED <<ownerVars, managerVars, callVars, nops, pointerVars>>

Snapshot(t) ==
    /\ pc[t] = "snapshot"
    /\ \E q \in ByAccessTime : todo' = [todo EXCEPT ![t] = q]
    /\ spilled' = [spilled EXCEPT ![t] = 0]
    /\ Goto(t, "loop")
    /\ UNCHANGED <<ownerVars, managerVars, callVars, goal, retry, ret, nops,
                   pointerVars>>

\* The locks are RLocks.  Releasing o leaves it locked if the thread is in
\* the out-of-memory handler called from its own unspilling of o.
Released(t, o) ==
    IF ret[t] = "oom" /\ op[t] # "new" /\ cur[t] = o THEN t ELSE Null

\* Mutant: the acquire waits for the lock.
LoopTryBlocking(t) ==
    /\ pc[t] = "loop"
    /\ todo[t] # <<>>
    /\ lock[Victim(t)] \in {Null, t}
    /\ lock' = [lock EXCEPT ![Victim(t)] = t]
    /\ Goto(t, "check")
    /\ UNCHANGED <<type, host, ptr, exposed, locks, last, managerVars,
                   callVars, loopVars, nops, pointerVars>>

\* buf.lock.acquire(blocking=False) succeeds on an RLock the thread has.
LoopTry(t) ==
    /\ pc[t] = "loop"
    /\ todo[t] # <<>>
    /\ IF lock[Victim(t)] \in {Null, t}
       THEN /\ lock' = [lock EXCEPT ![Victim(t)] = t]
            /\ Goto(t, "check")
            /\ UNCHANGED todo
       ELSE /\ todo' = [todo EXCEPT ![t] = Tail(@)]
            /\ UNCHANGED <<lock, pc>>
    /\ UNCHANGED <<type, host, ptr, exposed, locks, last, managerVars,
                   callVars, goal, spilled, retry, ret, nops, pointerVars>>

\* "if not buf.is_spilled and buf.spillable", and the release otherwise.
LoopCheck(t) ==
    /\ pc[t] = "check"
    /\ IF Eligible(Victim(t))
       THEN Goto(t, "copy") /\ UNCHANGED <<lock, todo>>
       ELSE /\ lock' = [lock EXCEPT ![Victim(t)] = Released(t, Victim(t))]
            /\ todo' = [todo EXCEPT ![t] = Tail(@)]
            /\ Goto(t, "loop")
    /\ UNCHANGED <<type, host, ptr, exposed, locks, last, managerVars,
                   callVars, goal, spilled, retry, ret, nops, pointerVars>>

\* spill(target="cpu"): the device data is copied to a new host allocation.
SpillCopy(t) ==
    /\ pc[t] = "copy"
    /\ host' = [host EXCEPT ![Victim(t)] = TRUE]
    /\ Goto(t, "clear")
    /\ UNCHANGED <<lock, type, ptr, exposed, locks, last, managerVars,
                   callVars, loopVars, nops, pointerVars>>

\* _ptr = 0 and _owner = None: the device memory is freed.
SpillClear(t) ==
    /\ pc[t] = "clear"
    /\ mem' = Deallocated(ptr[Victim(t)])
    /\ ptr' = [ptr EXCEPT ![Victim(t)] = Null]
    /\ Goto(t, "mark")
    /\ UNCHANGED <<lock, type, host, exposed, locks, last, buffers, refs,
                   callVars, loopVars, nops, pointerVars>>

\* Mutant: the loop ends after its first buffer.
EnoughAtOnce(t) == TRUE

\* "spilled >= nbytes", after one more buffer was spilled.
Enough(t) == spilled[t] + 1 >= goal[t]

\* _ptr_desc["type"] = "cpu", the release, and the test that ends the loop.
SpillMark(t) ==
    /\ pc[t] = "mark"
    /\ type' = Moved(Victim(t), "cpu")
    /\ lock' = [lock EXCEPT ![Victim(t)] = Released(t, Victim(t))]
    /\ spilled' = [spilled EXCEPT ![t] = @ + 1]
    /\ todo' = [todo EXCEPT ![t] = IF Enough(t) THEN <<>> ELSE Tail(@)]
    /\ Goto(t, "loop")
    /\ UNCHANGED <<host, ptr, exposed, locks, last, managerVars, callVars,
                   goal, retry, ret, nops, pointerVars>>

\* spill_device_memory returns to the device-limit caller or to the program.
LoopDone(t) ==
    /\ pc[t] = "loop"
    /\ todo[t] = <<>>
    /\ ret[t] # "oom"
    /\ Goto(t, AfterLimit(t))
    /\ UNCHANGED <<ownerVars, managerVars, callVars, loopVars, nops,
                   pointerVars>>

\* _out_of_memory_handle: "spilled > 0".
SpilledAny(t) == spilled[t] > 0

\* ... or to _out_of_memory_handle, which asks RMM to allocate again.
OomSpilled(t) ==
    /\ pc[t] = "loop"
    /\ todo[t] = <<>>
    /\ ret[t] = "oom"
    /\ SpilledAny(t)
    /\ Goto(t, "alloc")
    /\ UNCHANGED <<ownerVars, managerVars, callVars, loopVars, nops,
                   pointerVars>>

\* Nothing was spilled: gc.collect(), and the handler runs once more.
OomRetry(t) ==
    /\ pc[t] = "loop"
    /\ todo[t] = <<>>
    /\ ret[t] = "oom"
    /\ ~SpilledAny(t)
    /\ retry[t]
    /\ retry' = [retry EXCEPT ![t] = FALSE]
    /\ Goto(t, "snapshot")
    /\ Free(Garbage)
    /\ UNCHANGED <<lock, locks, last, refs, callVars, todo, goal, spilled, ret,
                   nops, pointerVars>>

\* The handler gives up; MemoryError unwinds the operation and its lock.
OomFail(t) ==
    /\ pc[t] = "loop"
    /\ todo[t] = <<>>
    /\ ret[t] = "oom"
    /\ ~SpilledAny(t)
    /\ ~retry[t]
    /\ lock' = [o \in Owners |-> IF o = cur[t] /\ op[t] # "new"
                                 THEN Null ELSE lock[o]]
    /\ Finish(t)
    /\ UNCHANGED <<type, host, ptr, exposed, locks, last, managerVars, nops,
                   pointerVars>>

\* The operation returns; a new buffer is now the program's.
OpEnd(t) ==
    /\ pc[t] = "end"
    /\ refs' = IF op[t] = "new" THEN refs \cup {cur[t]} ELSE refs
    /\ Finish(t)
    /\ UNCHANGED <<ownerVars, buffers, mem, nops, pointerVars>>

-----------------------------------------------------------------------------
(* The rest of the program *)

\* as_buffer(rmm.DeviceBuffer(...)): the allocation comes first.
NewFromDevice(t, o) ==
    /\ o \notin buffers \cup refs
    /\ \A u \in Threads : cur[u] # o
    /\ Begin(t, o, "new", "alloc")
    /\ UNCHANGED <<ownerVars, managerVars, loopVars, pointerVars>>

\* as_buffer(memoryview): from_host_memory makes an already spilled owner.
NewFromHost(t, o) ==
    /\ o \notin buffers \cup refs
    /\ \A u \in Threads : cur[u] # o
    /\ Begin(t, o, "new", "limit")
    /\ type' = [type EXCEPT ![o] = "cpu"]
    /\ host' = [host EXCEPT ![o] = TRUE]
    /\ last' = Touched(o)
    /\ buffers' = buffers \cup {o}
    /\ UNCHANGED <<lock, ptr, exposed, locks, refs, mem, loopVars,
                   pointerVars>>

\* owner.spill(target="cpu") and owner.memoryview(): the blocking acquire,
\* then the same body as the loop's on a tuple of one.
SpillOwner(t, o) ==
    /\ o \in refs \cap buffers
    /\ lock[o] = Null
    /\ lock' = [lock EXCEPT ![o] = t]
    /\ Begin(t, Null, "spillowner", "check")
    /\ todo' = [todo EXCEPT ![t] = <<o>>]
    /\ goal' = [goal EXCEPT ![t] = 1]
    /\ spilled' = [spilled EXCEPT ![t] = 0]
    /\ ret' = [ret EXCEPT ![t] = "user"]
    /\ UNCHANGED <<type, host, ptr, exposed, locks, last, managerVars, retry,
                   pointerVars>>

\* manager.spill_device_memory(nbytes=n) called by the program.
SpillDeviceMemory(t, n) ==
    /\ Begin(t, Null, "spill", "snapshot")
    /\ CallSpill(t, n, "user")
    /\ UNCHANGED <<ownerVars, managerVars, pointerVars>>

\* The program drops its last reference to o; it keeps a reference to what
\* it is using, and third parties keep what they hold pointers into.
Drop(o) ==
    /\ o \in refs
    /\ locks[o] = {} /\ raw[o] = {}
    /\ \A t \in Threads : cur[t] # o
    /\ refs' = refs \ {o}
    /\ UNCHANGED <<ownerVars, buffers, mem, threadVars, pointerVars>>

\* The garbage collector, or the last reference count, frees o.
Collect(o) ==
    /\ o \in Garbage
    /\ Free({o})
    /\ UNCHANGED <<lock, locks, last, refs, threadVars, pointerVars>>

-----------------------------------------------------------------------------

Init ==
    /\ lock = [o \in Owners |-> Null]
    /\ type = [o \in Owners |-> "cpu"]
    /\ host = [o \in Owners |-> FALSE]
    /\ ptr = [o \in Owners |-> Null]
    /\ exposed = [o \in Owners |-> FALSE]
    /\ locks = [o \in Owners |-> {}]
    /\ last = [o \in Owners |-> 0]
    /\ buffers = {}
    /\ refs = {}
    /\ mem = [s \in Slots |-> Null]
    /\ pc = [t \in Threads |-> "idle"]
    /\ op = [t \in Threads |-> "none"]
    /\ cur = [t \in Threads |-> Null]
    /\ todo = [t \in Threads |-> <<>>]
    /\ goal = [t \in Threads |-> 0]
    /\ spilled = [t \in Threads |-> 0]
    /\ retry = [t \in Threads |-> TRUE]
    /\ ret = [t \in Threads |-> "user"]
    /\ nops = 0
    /\ got = [t \in Threads |-> [o \in Owners |-> NoPtr]]
    /\ raw = [o \in Owners |-> {}]

\* What a thread does once it has started an operation.
Continue(t) ==
    \/ PtrTest(t) \/ Acquire(t) \/ PtrTouch(t)
    \/ ExposeLock(t) \/ ExposeSet(t) \/ PtrReturn(t)
    \/ Unspill(t) \/ UnspillRaises(t)
    \/ Alloc(t) \/ AllocFails(t) \/ Register(t)
    \/ Limit(t) \/ Snapshot(t) \/ LoopTry(t) \/ LoopCheck(t)
    \/ SpillCopy(t) \/ SpillClear(t) \/ SpillMark(t)
    \/ LoopDone(t) \/ OomSpilled(t) \/ OomRetry(t) \/ OomFail(t) \/ OpEnd(t)

\* Operations on owner o that a thread may start.
Start(t, o) ==
    \/ Enter(t, o) \/ Serialize(t, o) \/ Exit(t, o)
    \/ ReadPtr(t, o) \/ MarkExposed(t, o) \/ SpillOwner(t, o)
    \/ NewFromDevice(t, o) \/ NewFromHost(t, o)

Terminated ==
    /\ nops = MaxOps
    /\ \A t \in Threads : Idle(t)
    /\ UNCHANGED vars

Next ==
    \/ \E t \in Threads : Continue(t)
    \/ \E t \in Threads, o \in Owners : Start(t, o)
    \/ \E t \in Threads, n \in 1..Cardinality(Owners) : SpillDeviceMemory(t, n)
    \/ \E o \in Owners : Drop(o) \/ Collect(o)
    \/ Terminated

Spec == Init /\ [][Next]_vars

\* Python keeps running every thread that can run.
FairSpec == Spec /\ \A t \in Threads : WF_vars(Continue(t))

-----------------------------------------------------------------------------
(* Properties *)

\* The slots hold what the owners think they hold: a device pointer leads to
\* memory with the owner's own data, and no memory is left behind by spilling,
\* by a failed unspill or by garbage collection (_ptr and _owner).
DeviceMemoryOwned ==
    \A o \in Owners, s \in Slots : ptr[o] = s <=> mem[s] = o

\* A pointer read inside an access context, or kept by a serialized frame,
\* leads to the buffer's data until the context is left, whatever the spill
\* loops of other threads do (ptr: "spilling is disabled while in the
\* context").
PinnedPointersValid ==
    \A t \in Threads, o \in Owners :
        got[t][o] # NoPtr => got[t][o] = ptr[o] /\ ptr[o] \in Slots

\* Exposure is permanent: an exposed buffer is on the device, so the error
\* "Cannot in-place move an exposed buffer" is never raised by unspilling.
ExposedOnDevice ==
    \A o \in Owners : exposed[o] => ~is_spilled(o) /\ ptr[o] \in Slots

\* Seen without its lock being held, a buffer has a device pointer exactly if
\* its type says so, and keeps no host copy next to its device copy.
UnlockedConsistent ==
    \A o \in Owners : lock[o] = Null =>
        /\ ~is_spilled(o) <=> ptr[o] \in Slots
        /\ ~is_spilled(o) => ~host[o]

\* The out-of-memory handler runs inside spill(target="gpu") and its RLock
\* lets it into the buffer being unspilled; it never spills that buffer.
NeverSpillsWhatItUnspills ==
    \A t \in Threads :
        pc[t] \in {"copy", "clear", "mark"} /\ ret[t] = "oom"
            => Victim(t) # cur[t]

\* The device address of an exposed buffer never changes while it exists.
ExposedPointerStable ==
    [][\A o \in Owners :
        exposed[o] /\ o \in buffers' => ptr'[o] = ptr[o] /\ exposed'[o]]_vars

\* No operation runs forever or waits forever: the non-blocking acquire of
\* the spill loop excludes waiting in a circle, and the out-of-memory handler
\* asks RMM to try again only after memory was freed.
EveryOperationEnds ==
    \A t \in Threads : pc[t] # "idle" ~> pc[t] = "idle"

\* With one thread: the soft limit.  When spill_to_device_limit returns, the
\* managed buffers on the device are within the limit unless those that are
\* left there cannot be spilled.
LimitKept ==
    \A t \in Threads :
        (/\ pc[t] \in {"end", "expose_lock"}
         /\ op[t] \in {"new", "rawptr", "expose"})
            => \/ DeviceLimit = NoLimit
               \/ Unspilled <= DeviceLimit
               \/ \A o \in buffers : ~is_spilled(o) => ~spillable(o)

\* With one thread: the spill loop takes the buffer that has been idle for
\* longest among those it could take.
LeastRecentlyUsedFirst ==
    \A t \in Threads, o \in buffers :
        pc[t] = "copy" /\ op[t] # "spillowner" /\ ~is_spilled(o) /\ spillable(o)
            => last[Victim(t)] <= last[o]

-----------------------------------------------------------------------------
(* Refinement *)

\* Thread t has taken the host copy of o and is allocating device memory for
\* it, or is in the out-of-memory handler of that allocation.
Carries(t, o) ==
    /\ cur[t] = o
    /\ op[t] # "new"
    /\ \/ pc[t] = "alloc"
       \/ ret[t] = "oom" /\ pc[t] \in {"snapshot", "loop", "check", "copy",
                                      "clear", "mark"}

\* Where the data of a buffer is.
Place(o) ==
    IF ptr[o] \in Slots THEN "device"
    ELSE IF o \notin buffers THEN "none"
    ELSE IF host[o] \/ \E t \in Threads : Carries(t, o) THEN "host" ELSE "lost"

Store == INSTANCE DeviceStore WITH
    place <- [o \in Owners |-> Place(o)],
    lent <- [o \in Owners |-> {t \in Threads : got[t][o] # NoPtr}]

\* The protocol of locks, contexts and loops implements the atomic store.
ImplementsStore == Store!Spec

=============================================================================
