# TLA+ models of cudf

cudf is a GPU data frame library in several layers. Most of its code computes
(kernels, file formats, bindings); this project models the parts that
coordinate, where the order of steps, failure half-way and sharing decide
whether the result is right:

- the **buffer layer** of cudf (`python/cudf/cudf/core/buffer`): spilling moves
  buffers between device and host memory, access contexts and exposure keep
  them from moving while somebody holds their pointer, and copy-on-write lets
  them share memory until one of them is written;
- the **fast-slow proxies** of cudf.pandas
  (`python/cudf/cudf/pandas/fast_slow_proxy.py`): every call is tried in cuDF
  and repeated in pandas when that fails;
- the **default engine** of cudf-polars
  (`python/cudf_polars/cudf_polars/engine/default_singleton_engine.py`): one
  engine per process, built and torn down by a thread of its own;
- the **actor network** of cudf-polars
  (`python/cudf_polars/cudf_polars/streaming/actor_graph`): a query plan becomes
  actors connected by bounded channels;
- the **ordered union** of cudf-polars over several ranks
  (`streaming/actor_graph/union.py`).

TLC checks the models on small instances; TLAPS proves their safety for every
size: the spilling protocol, copy-on-write, the proxies, the default engine, the
actor network and the ordered union. File names below are those of these
directories.

## Inventory

| Component | State | Operations | Correct if |
|---|---|---|---|
| `SpillableBufferOwner` (`spillable_buffer.py`) | RLock, `_ptr_desc`, `_ptr`, `_exposed`, `_spill_locks`, `_last_accessed` | `spill`, `mark_exposed`, `spill_lock`, `ptr`, `memoryview`, creation | pointers lent to contexts stay valid; exposure is permanent; pointer, type and memory agree |
| `SpillManager` (`spill_manager.py`) | weak map of owners, limit | `add`, `buffers`, `spill_device_memory`, `spill_to_device_limit`, `_out_of_memory_handle` | no deadlock, the handler ends, the limit is kept where it can be, least recently used first |
| `Buffer`, `SpillableBuffer` (`buffer.py`, `spillable_buffer.py`) | owner, offset, size, stacks of modes and spill locks; the owner's set of slices | slicing, `copy`, `access`, `ptr`, `make_single_owner_inplace`, `serialize` | every buffer behaves as if it had its own memory; open contexts pin the owner the buffer has |
| `as_buffer` (`utils.py`) | none | wraps device memory, host memory, and memory of a known owner | the new buffer is the right slice of the right owner |
| Proxies of cudf.pandas (`fast_slow_proxy.py`) | the wrapped object, the transfer block, the parents of an intermediate and their recorded identities, method proxies cached by classes | calls with fallback, conversion, replay, `force_state`, `set_transfer_block_state`, pickling | data and answers are those of plain pandas, wherever the objects are |
| Default engine (`default_singleton_engine.py`, `core.py`) | the slots `instance` and `worker`, two futures and an event per worker, the registry of live engines | `get_or_create`, `shutdown`, explicit engines, the worker thread | at most one default engine, torn down by its own thread; every call ends |
| Actor network (`core.py`, `nodes.py`, `io.py`, `utils.py`, `repartition.py`) | channels, local variables of the actors, fanout buffers, the `Lineariser` | fanout analysis, metadata, receiving, evaluating, sending, draining, raising | all chunks arrive once and in order; everything stops, also after an error |
| Ordered union and sampling (`union.py`, `utils.py`) | the plan, one exchange per child, stores, the sampler's buffer | gather counts, route, exchange, emit, drain, sample, replay | row order of `pl.concat`; no rank waits for ever |
| Global manager (`spill_manager.py`, from line 401) | `_global_manager`, the RMM resource stack | lazy `get_global_manager`, `set_global_manager`, `set_spill_on_demand_globally`, `spill_on_demand_globally` | one manager, one handler, the stack restored |
| `SpillStatistics` (`spill_manager.py`) | counters under a lock | `log_spill`, `log_expose` | totals are the sums of the events |
| Column access layer (`column/column.py`, `column/utils.py`) | none of its own | `access`, `access_columns`, in-place fills | enters the contexts of all buffers of a column |
| Rest of cudf-polars, libcudf pools, Java memory buffers, import hooks, custreamz, kernels, I/O, bindings | various | various | not modelled, see below |

How they interact. In the buffer layer, a thread that needs a pointer enters an
access context of a `Buffer`; `__enter__` puts a `SpillLock` into the owner's
weak set, or exposes the owner. `Buffer.ptr` first makes the buffer the only
slice of its owner if the mode is "write", then reads the owner's `ptr`, which
unspills. Unspilling allocates through RMM; a failed allocation calls the
manager's handler, in the same thread and with that buffer's lock held, and the
handler walks over all owners and spills those it can lock and finds spillable.
Creating or exposing a buffer runs the same loop when a device limit is set.
Owners and slices are in weak collections, so dropping a reference is a step of
the protocol too. cudf.pandas sits on top of cuDF and pandas and sees only their
objects. cudf-polars has its own memory management in rapidsmpf and does not use
cudf's buffers: `collect(engine="gpu")` gets the default engine, translates the
plan, and runs the actor network on every rank; an ordered union is one actor
of that network, which talks to its peers on the other ranks.

What is hard: tests of `_spill_locks` and `is_spilled` that take no lock; the
handler entering, through a reentrant lock, the buffer that is being moved;
allocation failure in the middle of a move, of a copy or of `__enter__`; owner
swaps inside open contexts; a fast attempt that fails after some arguments have
been converted; intermediates whose parents were replaced; a shutdown that gives
up on a thread that is merely late; consumers that share a channel and read at
different times; ranks that wait in different collectives. `PROJECT.json` lists
these under "hazards", each at its line.

## Modules

| Module | What it is |
|---|---|
| `SpillableBuffer` | the concurrent protocol of owners, contexts and the manager |
| `DeviceStore` | what that protocol promises: data moves atomically, never while lent |
| `SpillableBufferProofs` | the inductive invariant, the theorems, the proof that the protocol implements `DeviceStore` |
| `CopyOnWrite` | slices, copies, contexts and owner swaps over real bytes |
| `ValueBuffers` | what copy-on-write promises: every buffer has its own value |
| `CopyOnWriteProofs` | the inductive invariant, the theorems, the proof that it implements `ValueBuffers` |
| `FastSlowProxy` | calls, fallback, conversion and replay beside what pandas alone would do |
| `FastSlowProxyProofs` | what a conversion keeps, and that programs see what they would see under pandas |
| `DefaultEngine` | the slots, the worker threads, the registry, explicit engines |
| `DefaultEngineProofs` | the inductive invariant and the theorems |
| `ActorNetwork` | from a plan to actors and channels, and what they do until they stop |
| `ActorNetworkLemmas` | the inductive invariants, the `Lineariser`, channels, and what each kind of actor makes of its input |
| `ActorNetworkProofs` | the steps of the actors, and the theorems: bounds, and the chunks that a query delivers |
| `OrderedUnion` | routing, exchange and emission over ranks, with a sampler downstream |
| `OrderedUnionProofs` | partitions and their owners, exchanges, the order of the rows, the promised counts |
| `SequenceLemmas` | facts about sequences, and induction, that the proofs of the proxies, the actor network and the ordered union share |
| `MC...` | instances for TLC |

Operators marked "Mutant" in a module are plausible errors: putting one of them
in the place of the definition it follows makes TLC report the property that
`PROJECT.json` pairs it with. They are not part of the specifications.

### SpillableBuffer

State. `lock`, `type`, `host`, `ptr`, `exposed`, `locks`, `last` are the fields
of the owners; `buffers` is the manager's weak map, `refs` the owners the
program refers to, `mem` the device memory. `pc`, `op`, `cur` say where a thread
is, `todo`, `goal`, `spilled`, `retry`, `ret` are the local variables of the
spill loop and of the handler. `got` and `raw` record pointers given out, inside
and outside a context of the reader.

Actions. One action stands for the code between two points where another thread
can interfere: outside the locks everywhere, inside the locked regions wherever
a reader that takes no lock can look.

| Code | Actions |
|---|---|
| `__enter__` (internal), `__exit__` | `Enter`, `Exit` |
| `serialize` of an unspilled buffer | `Serialize` |
| `SpillableBufferOwner.ptr` | `ReadPtr`, `PtrTest`, `Acquire`, `PtrTouch`, `PtrReturn` |
| `mark_exposed`, also `__enter__` (external) | `MarkExposed`, `Limit`, `ExposeLock`, `ExposeSet` |
| `spill(target="gpu")` | `Unspill`, `UnspillRaises`, `Alloc`, `AllocFails` |
| `spill(target="cpu")` | `SpillCopy`, `SpillClear`, `SpillMark` |
| `spill_device_memory` | `Snapshot`, `LoopTry`, `LoopCheck`, `LoopDone` |
| `_out_of_memory_handle` | `AllocFails`, `OomSpilled`, `OomRetry`, `OomFail` |
| `from_device_memory`, `from_host_memory`, `add` | `NewFromDevice`, `NewFromHost`, `Register`, `OpEnd` |
| owner.`spill("cpu")`, `memoryview` | `SpillOwner` |
| the program dropping references, CPython collecting | `Drop`, `Collect`, `OomRetry` |

Abstractions. Every buffer is one slot large, so that bytes are counted in
buffers. `SpillManager.buffers()` and the sum over it are one step each, as if
no access time changed while the tuple is being sorted. Contexts of one thread
on one owner are collapsed into one; nesting is in `CopyOnWrite`. Spilling on
demand is always enabled. `Collect` may free an owner a loop has already passed
although the loop's tuple still holds it, which only adds behaviours. Access
times are ranks. `MaxOps` bounds the operations started, in total.

### CopyOnWrite

State. A buffer has an owner, an offset and a size, a stack of modes and a stack
of scopes; an owner has its set of slices, a sequence of memory cells, and its
spilling state. `locks[o]` holds pairs of a buffer and a position in its stack:
the `SpillLock`s. `mem` maps cells to bytes; sharing means the same cell.
`third` is the memory whose pointer a third party got last through each buffer.
`pc`, `self` and `fresh` are a read of `Buffer.ptr` in progress.

Actions. `New`, `NewFromHost`, `Slice`, `ShallowCopy`, `DeepCopy`, `Drop`,
`EnterInternal`, `EnterExternal`, `Exit`; `ReadPtr`, `SingleCopy`, `SingleSwap`,
`OwnerPtr` and `UseRead` or `UseWrite` are `Buffer.ptr` and what is done with
the pointer; `Spill` is the manager, at any moment. `SingleCopyFails` adds the
failing copy (`SpecWithFailures`); an unspill that fails loses the data of the
owner and is in `SpillableBuffer` only.

Abstractions. One thread: the code says "TODO: Thread-safety". Garbage is
collected between operations. Empty slices are left out. Free cells are taken
lowest first: which address an allocation gets makes no difference to sharing.
There is one host array, and the program does not write to it once it has made
a buffer of it. Third parties are not modelled as writing to the memory
they hold: `column.py` allows that deliberately for
`Column.__cuda_array_interface__`. `spilling` is the option the process starts
with; without it the classes are `Buffer` and `BufferOwner`: no locks, no
exposure, no spilling.

### FastSlowProxy

State. `objects` are the objects of both libraries, in the order they are made: a
frame has data and a library ("world"), a view (an object of an intermediate
type: a groupby, an indexer, an accessor) looks at other objects. `proxies` have
the object they wrap, the transfer block, and for intermediates the parents,
their recorded identities and whether the call that made them works in cuDF.
`plain` is the reference: the same program under pandas alone. `answer` is what
the last read gave beside what pandas would give.

Identities. An intermediate remembers `id()` of its parents' objects, a number
and no reference, and CPython gives the number of a dead object to a new one.
Every object has an `Id`, which is its own number unless the constant `Reused`
maps it to an earlier object, and `OnlyDeadReused` lets a step make it only if
nothing referred to that object when the step began (`Holds`: a view keeps what
it looks at alive). With `Reused` empty no `id()` is given twice.

| Code | Definitions |
|---|---|
| `_fast_slow_function_call` | `Call`: `FastAttempt`, then `SlowAttempt`, then `WrapResult` |
| `_fast_arg`, `_slow_arg` | `ConvertAll`, in order, up to the first that fails |
| `_transform_arg` | `TransformArgs`, and `Conversion`, which repeats it for the arguments of arguments |
| `_fsproxy_fast`, `_fsproxy_slow` | `Blocked`, `ConvertOne`, `Convert` |
| conversion of final types | `ConvertFinal` |
| conversion of intermediates, `_fsproxy_parents_changed`, `_fsproxy_record_parent_ids` | `ConvertIntermediate`, `ParentsChanged`, `ParentObjects`, `ParentIds`, `RecordParentIds`, `Replay` |
| `_FastSlowAttribute.__get__` | `MethodBlock`: the first instance decides for the class |
| `set_transfer_block_state`, `force_state`, pickling | `SetTransferBlockState`, `ForceState`, `Pickle` |

The data of a frame is the sequence of the calls that wrote it, each with what
it read: an effect that is lost, repeated or reordered shows. A call reads,
writes its first argument, computes a frame or derives an intermediate, and each
call is taken by cuDF, refused, refused because of mixed types, or refused by
both libraries; data may become of a kind that cuDF cannot hold. `Chaining`
allows intermediates of intermediates. `Debugging` is `CUDF_PANDAS_DEBUGGING`.

Assumed of cuDF and pandas: a call that raises has written nothing, so that the
repetition in pandas starts from the same data. Left out: a conversion to cuDF
that fails for another reason than mixed types (`ConvertFinal`), and
`_SPECIAL_FUNCTIONS_ARGS_MAP` (lines 1639-1664), by which some functions take a
slow argument in a fast call (`TransformArgs`).

### DefaultEngine

State. `instance`, `worker` and `lock` are `_state`, `active` is
`StreamingEngine._active_engines`; `startup`, `closed` and `signal` are the
futures and the event of each worker, `mine` the local variable of
`_teardown_engine`. `wpc` and `pc` say where a worker and a thread are.
`abandoned` only records which workers a shutdown has given up. `terminated` says
that the process is gone: rapidsmpf calls `std::terminate` when an engine that
was never shut down is garbage-collected off its thread (`Collect`).

| Code | Actions |
|---|---|
| `get_or_create` | `GetOrCreate`, `Started`; the program: `Forget` |
| `shutdown`, `_DaemonWorker.shutdown` | `Shutdown`, `Signal`, `Closed`, `Timeout`, `Fallback` |
| `_run`, `_build_engine`, `__init__` | `Build`, `Register`, `Count`, `Refuse`, `ConstructorRaises`, `WaitForSignal` |
| `_teardown_engine`, `SPMDEngine.shutdown` | `Teardown`, `CloseEngine`; the weak set: `Collect` |
| `StreamingEngine.__init__`, `shutdown` of explicit engines | `CheckNoDefault`, `RegisterExplicit`, `CloseExplicit` |

A section under `_state.lock` is one step, except that `_build_engine` holds the
lock while it constructs, and while it shuts down an engine it must refuse
(`Refuse`). Calls of `shutdown` that return at once, and calls
refused with an error at once, change nothing and are left out.

### ActorNetwork

State. `plan` is the lowered plan and `fanout` what `determine_fanout_nodes`
makes of it. `queue`, `shut` and `md` are the channels, `pc` and `loc` the
actors, `fan` the variables of `fanout_node_unbounded`, `lin` those of the
`Lineariser` and its producers, `result` what the query returns.

| Code | Definitions |
|---|---|
| `generate_network`, `determine_fanout_nodes`, `traversal`, `ChannelManager` | `Uses`, `Sequential`, `UnboundedNodes`, `FanoutNodes`, `Actors`, `Slot`, `Init` |
| `recv_metadata`, `send_metadata` | `RecvMetadata`, `SendMetadata`, `DrainMetadata` |
| `chunkwise_evaluate`, `fanout_node_bounded`, `metadata_drain_node` | `RecvOne`, `SendNext`, `Drain` |
| `concatenate_node`, `default_node_multi`, `_passthrough_union` | `RecvAll`, `RecvRound`, `RecvSequential`, with `SendNext`, `Drain` |
| `fanout_node_unbounded` | `ReceiveTask`, `OutputTask`, `MainLoop` (`HandleDone`, `StartTasks`) |
| `dataframescan_node`, `Lineariser` | `Produce`, `Collect`, `Forward` |
| `shutdown_on_error`, `shutdown_channels` | `Raise`, `ShutDown`; a failing evaluation: `Fail` |

The data of a chunk is the sequence of source chunks in it, so that a lost,
repeated or misplaced chunk shows. `metadata_drain_node` and
`pull_from_channel` are one actor, the sink.

Assumed of rapidsmpf, from how the code uses it: a channel is first-in,
first-out and holds a bounded number of messages; a send waits for room; drain
waits until the queue is empty and shuts the channel; receiving from a channel
that is shut gives None and sending to it is dropped; an actor that ends shuts
its channels.

### OrderedUnion

State. `in` is the scenario: chunks and estimated counts of every child on every
rank, and the duplicated children. `reader`, `child`, `index` are the task
`read_and_exchange`, `emitted` and `store` the task `emit`, `exchanged` the
queue between them; `exchange` and `finished` are the collectives. `sampler`,
`sample`, `sampled` and `output` are the downstream actor.

The routing plan is the operators `Offset`, `Total`, `OverflowDestination`,
`Destination`, `LocalCount`, `PartitionOwner`, `PartitionRange`. The actions are
`Contribute` and `Gathered` (the AllGather of counts), `Read`,
`InsertFinished`, `Exchanged`, `TakeStore`, `Emit`, `Drain`, and `Sample`,
`Aggregate`, `Replay`. The collectives of rapidsmpf are assumed to deliver what
was inserted once all ranks have finished inserting. The replay goes on to a
consumer that always takes it.

## Runs

| Run | Bounds | Checks |
|---|---|---|
| `spill_on_demand` | 2 threads, 2 owners, 1 slot, 7 operations | `TypeOK`, `DeviceMemoryOwned`, `PinnedPointersValid`, `ExposedOnDevice`, `UnlockedConsistent`, `NeverSpillsWhatItUnspills`, `ImplementsStore`, `ExposedPointerStable` |
| `spill_live` | 2 threads, 3 owners, 1 slot, full at the start; 2 operations, fairness | `EveryOperationEnds` |
| `spill_one_thread` | 1 thread, 3 owners, 2 slots, limit 0, 7 operations | `LimitKept`, `LeastRecentlyUsedFirst` |
| `cow_contexts` | 2 buffers, 2 owners, 1 byte, 3 cells, nesting 2, all accesses, with and without spilling | `SlicesKnown`, `SoleWriter`, `ContextsPinOwners`, `PointerUsedInPlace`, `DeviceMemoryUnshared`, `InternalUseNeverExposes` |
| `cow_values` | 2 buffers, 2 owners, 2 bytes of 2 values, with and without spilling | `TypeOK`, `ImplementsValues` |
| `default_engine` | 2 threads, 3 workers, fairness | `TypeOK`, `OneDefaultEngine`, `InstanceHasItsWorker`, `SlotWorkerAlive`, `TornDownByItsWorker`, `EveryCallEnds` |
| `actor_network` | 9 plans of 2 to 4 nodes and up to 5 chunks, capacity 1, 2 producers, 1 failure, fairness | `TypeOK`, `ResultCorrect`, `OneInFlight`, `Terminates` |
| `ordered_union` | 2 ranks and 2 children with all counts up to 2 under four kinds of estimates, duplicated children, 3 ranks; capacity 1, samples of up to 2; fairness | `TypeOK`, `OrderPreserved`, `PromisedCounts`, `FinishedIsFinal`, `AllRanksEnd` |
| `fast_slow` | 1 or 2 frames, 3 proxies, 3 calls and a read; no identity reused | `TypeOK`, `WorldsApart`, `FinalsMatchPandas`, `AnswersMatchPandas`, `ForcedStaysSlow` |

Why these bounds. In the buffer layer, one slot for two buffers makes every
second allocation fail, so the handler runs inside unspilling and spills race
contexts. Seven operations create two buffers, enter, read, leave and expose with
two to spare. A circular wait on the buffer locks needs two threads in the
handler at once, each holding the lock of the buffer it unspills; then both these
buffers are on the host, and the device must be full all the same. So
`spill_live` has a third owner in the only slot, and to stay small it starts
there (`InitFull`), with or without a context of each thread; one operation for
each thread is enough, and its mutant is the blocking acquire
(`LoopTryBlocking`). Three owners are also needed for the order of spilling, a
one-thread question: with two threads the access times a loop sorted by are stale
by the time it gets to a buffer, and neither `LimitKept` nor
`LeastRecentlyUsedFirst` is promised. Two bytes are needed for slices that
overlap in part; two buffers and two owners for a swap. Three cells are one for
each of two owners and one to move into (or a host array); an operation that
finds no free cell waits until one is dropped. Threads, owners, slots, buffers
and byte values are interchangeable, which is what the symmetry sets say; runs
with liveness use none.

Three workers are a leaked one, its successor, and one more to find the slots
in whatever state these leave; two threads are one that gives up and one that
starts anew. When the workers are used up, `get_or_create` finds no more.

Capacity 1 is the tightest a channel can be, so a network that stops with it
does not depend on room in channels. Four chunks are more than a fanout output,
its channel and a consumer can hold between them: with a bounded fanout in the
wrong place the network stands still. Five chunks make two producers go round
twice with one left over. The plans are one for each kind of sharing: none,
pointwise, broadcast on either side, concatenation, empty inputs, and a shared
node that the traversal reaches before the parent that marks it (`LateMark`).

With two ranks every count matrix up to two is tried under exact, zero, constant
and wrong estimates, which includes blocks that are empty, overflow, and end up
on the other rank; the three-rank scenario has a rank in the middle.

Three proxies are a frame, an intermediate of it and a third (another frame, or a
second intermediate); three calls and a read can derive, move, write and read,
the shortest history that makes an intermediate stale, and starting with two
frames leaves these calls to intermediates of two parents. The program sets the
blocks `None` and `TO_FAST`; `TO_SLOW`, which no conversion looks at, is set by
`force_state` only. `fast_slow_reuse` has one frame, two proxies and four calls,
and the fifth object gets the identity of the first. `SupportsOf` leaves out the
ways to take a call that have the same outcome as another one.

Fairness. `spill_live`: weak fairness of the steps of an operation that has
started; CPython keeps scheduling every runnable thread. A thread that waits for
a lock gets no fairness by this, and the program need not start operations or
leave contexts. Since the number of operations is bounded, starvation by an
endless stream of other operations is outside of what this run shows.
`default_engine`: weak fairness of every thread inside a call (the timeout of a
wait included) and of every worker, except for `CloseEngine` and `Refuse`:
`SPMDEngine.shutdown` may hang. `EveryCallEnds` therefore excepts the states in
which a refused engine is being shut down, which happens with the lock held: a call
that waits for the lock then waits as long as that takes. `actor_network` and `ordered_union`: some step
that can be taken is taken, which is what an event loop and a progress thread
do; nothing is assumed about which. Both end, so deadlock is not an error there;
a network that stands still early violates `Terminates` or `AllRanksEnd`.
`default_engine` has no deadlock at all. `fast_slow` ends after its last call.

Three runs end in a counterexample; each shows where the code does not do what
its documentation or comments say ("findings" in `PROJECT.json`).

| Run | Property | What happens |
|---|---|---|
| `cow_failed_copy` | `SoleWriter` | a buffer whose copy failed is no longer counted as a slice; the retried write goes to shared memory |
| `fast_slow_chain` | `AnswersMatchPandas` | `sub` is derived from `gp`, `gp` from a frame; the frame is replaced; `gp` would notice, but `sub` only compares what `gp` wraps, and answers from the old frame |
| `fast_slow_reuse` | `AnswersMatchPandas` | `gp` is derived from `df` on the GPU; `gp` is forced slow, so that the fast frame dies, and the identity recorded for it stays; a write moves `df` back to the GPU, and its new frame has the old identity; a read of `gp` takes `df` for unchanged |

`fast_slow` checks the last property without intermediates of intermediates and
without reused identities, and there it holds. With reused identities
`FinalsMatchPandas` fails too, one change later: `MaxChanges = 4` in
`fast_slow_reuse` gives a write through an indexer that was forced slow, and that
goes to the frame `df` no longer wraps, so that it is lost.

### What the passing properties do not say

- The loss of the host copy when an unspill fails (`spillable_buffer.py:262`) is a
  step of `DeviceStore` too, so `ImplementsStore` allows it, and it touches no
  device memory, so `DeviceMemoryOwned` does not see it.
- `UnlockedConsistent` speaks of buffers whose lock is free. What a reader that
  takes no lock sees in the middle of a move is covered for pointers only
  (`PinnedPointersValid`).
- `LeastRecentlyUsedFirst` is about one loop of one thread, in which no access time
  changes.
- `PointerUsedInPlace` is about the moment between reading a pointer and using it;
  that the pin survives an owner swap is `ContextsPinOwners`.
- `TornDownByItsWorker` excepts the engines of workers that a shutdown gave up;
  what becomes of them is the second observation on the default engine.
- `FinalsMatchPandas` does not cover a cuDF call that writes before it raises
  (`fast_slow_proxy.py:1531`), nor `CUDF_PANDAS_DEBUGGING`.

### Observations

Except where it says so, each of these is what TLC answers when the opposite is
stated as an invariant of the model; none is checked as a run.

- Spilling: `SpillableBufferOwner.ptr` (line 321) asks whether the owner has any
  spill lock, not whether the reader holds one. Read while another thread is in
  a context, the pointer is returned without exposing the buffer, and dangles
  once that context has ended and the buffer is spilled.
- Spilling: `spill(target="gpu")` (line 262) pops the host copy before the
  allocation that may fail; if it does, the data is gone (`Place(o) = "lost"`).
- Spilling: `spill_to_device_limit` (line 376) passes a negative number below
  the limit, and one buffer is spilled all the same.
- Copy-on-write: an external write access exposes the owner the buffer has when
  the context is entered; if the buffer is shared and has a spill lock, `ptr`
  then gives it a new owner that is not exposed, and the memory lent out can be
  spilled.
- Read from the code while modelling, not stated in the models: `from_host_memory`
  keeps the caller's memoryview, so that until the first unspill a "copy of `data`"
  is a view of it; an external `__enter__` whose unspilling fails (line 73 of
  `spillable_buffer.py`) leaves its mode on the stack; without spilling, `Buffer`
  keeps no exposure status.
- cudf.pandas: with `CUDF_PANDAS_DEBUGGING` a call that writes in place is
  repeated on the converted object, so that its effect is there twice
  (`FinalsMatchPandas` fails with `Debugging = TRUE`). `TO_SLOW` blocks are never
  looked at by `_fsproxy_slow`. A method's transfer block is that of the instance
  it was first used on. An intermediate that changes libraries does not record
  its parents' identities again: it may be derived once more for nothing, and the
  identity it keeps may come back (`fast_slow_reuse`).
- Default engine: an explicit engine checks for the default engine at the start
  of its constructor and registers at the end; a default engine that is built in
  between coexists with it.
- Default engine: `_teardown_engine` (line 163) shuts down what is in the slots, not
  the engine of its thread. If a shutdown gives up on a worker that has been
  signalled but has not taken the lock yet (it was not scheduled for ten seconds),
  the slots are cleared, the late teardown finds nothing there, and the worker ends
  with its engine never shut down: `wpc[w] = "done" /\ w \in active`. Line 62 says
  that the thread "tears down the live engine ... and exits", and line 332 that
  new engines are possible once "the leaked worker eventually returns"; but while
  the engine is registered none can be built, and when it is collected off its
  thread the process ends (`terminated`).
- Default engine: an engine that must refuse is shut down inside `_build_engine`
  with `_state.lock` held (line 260), against the note at line 184. If that shutdown
  hangs, every other call waits for the lock for good.

## Proofs

Every theorem holds for all values of the constants that satisfy the named
assumption of its module. The invariants used are inductive, and TLC has been
run on each of them before it was proved. Each proof has one lemma per action,
a lemma that puts them together, and the theorems at the end.

### SpillableBuffer

For every finite set of owners, any threads and slots, any limit and any
`MaxOps`:

| Theorem | States |
|---|---|
| `Invariance` | `Spec => []IInv` |
| `TypeCorrect` | `Spec => []TypeOK` |
| `DeviceMemoryCorrect` | `Spec => []DeviceMemoryOwned` |
| `PinnedPointersCorrect` | `Spec => []PinnedPointersValid` |
| `ExposedCorrect` | `Spec => []ExposedOnDevice` |
| `UnlockedCorrect` | `Spec => []UnlockedConsistent` |
| `ExposedStable` | `Spec => ExposedPointerStable`, an action property |
| `HandlerCorrect` | `Spec => []NeverSpillsWhatItUnspills` |
| `StoreImplemented` | `Spec => ImplementsStore`, the refinement of `DeviceStore` |
| `LoopInvariance` | for one thread, `Spec => [](IInv /\ LoopInv)` |
| `LimitCorrect` | for one thread, `Spec => []LimitKept` |
| `LeastRecentlyUsedCorrect` | for one thread, `Spec => []LeastRecentlyUsedFirst` |

The only assumption is `ConstantsAssumption`: `Owners` is finite, the special
values are not owners, threads or addresses, and the limit is a number or
`NoLimit`. The last three theorems assume in addition that there is at most one
thread (`SingleThread`), as the promises do: with a second thread a buffer whose
lock is held is skipped, and what the loop has passed may come back behind it.

The properties are not inductive. That a pinned pointer is valid needs that a
buffer in the middle of being spilled has no spill lock, which needs that its
lock is held from the test of `spillable` to the release and that `__enter__`
takes the same lock. `IInv` therefore says, besides types and
`DeviceMemoryOwned`: which operation a thread is in at which step
(`StepsOfOps`), what the owner of the operation is (`OwnersOfOps`), that loops
and contexts refer only to existing owners (`References`), who holds which lock
(`LocksHeld`), where the data of every owner is, with the exceptions that the
steps of a move make (`Residency`), what a thread in the middle of a move
relies on (`Moves`), and that pointers in contexts are covered by spill locks
(`Pinned`). `LocksHeld` is where reentrancy matters: the handler may hold the
lock of the buffer that its own thread is unspilling, and `Moves` says that this
buffer is "cpu", hence not eligible.

`StoreImplemented` maps an owner to the place of its data and to the threads
that hold its pointer in a context. A move takes many steps in the code and one
in the store: the data goes to the host when the device pointer is cleared
(`SpillClear`) and to the device when the allocation succeeds (`Alloc`); in
between, a thread that carries the data has its place. Besides `IInv` the proof
needs `InHand`: a thread that clears a pointer already has the host copy, and a
thread that registers an owner has its memory. All other steps are shown to be
`Quiet`.

`LoopInv`, for one thread, says of a loop in progress that the rest of its tuple
is sorted by access time (`TodoSorted`), that every managed buffer that could be
spilled is in it unless the loop has enough (`TodoComplete`), and that the bytes
on the device are at most the limit, the goal and what is already spilled taken
into account (`GoalSuffices`). So when the loop ends without having enough,
there is nothing left to spill, and otherwise the limit is kept.

### CopyOnWrite

For every finite set of buffers and owners, any sizes, cells, byte values and
nesting (`CopyOnWriteAssumption`), and while allocations succeed: with
`SingleCopyFails` the sole writer is refuted by the run `cow_failed_copy`.

| Theorem | States |
|---|---|
| `TypesPreserved` | `Spec => []TypeOK` |
| `OwnersKnowSlices` | `Spec => []SlicesKnown` |
| `OwnersPinned` | `Spec => []ContextsPinOwners` |
| `WriterIsAlone` | `Spec => []SoleWriter` |
| `UsedInPlace` | `Spec => []PointerUsedInPlace` |
| `DeviceMemoryApart` | `Spec => []DeviceMemoryUnshared` |
| `InternalUseStaysSpillable` | `Spec => InternalUseNeverExposes`, an action property |
| `ValuesImplemented` | `Spec => ImplementsValues`, the refinement of `ValueBuffers` |

`IInv` adds to these that memory in use holds bytes and no cell twice
(`MemoryInUse`), that the stacks of modes and scopes grow together
(`ContextStacks`), and what the steps of `Buffer.ptr` rely on (`PtrSteps`): at
the swap, that the fresh owner belongs to nobody and holds the content of the
buffer; from the swap to the use, that a writer is alone. The argument of the
refinement: every change of memory, by spilling, unspilling, copying or writing,
refills one owner and keeps the bytes of all others (`Refills`), because the
device memory of an owner is its own; at a swap the copy holds what the buffer
held; and a write changes the bytes of an owner with one slice. So the value of
a buffer changes only when it is written itself.

### DefaultEngine

For any number of threads and workers (`DefaultEngineAssumption`: the sets are
finite, disjoint, and `None` is in neither):

| Theorem | States |
|---|---|
| `TypesPreserved` | `Spec => []TypeOK` |
| `AtMostOneDefaultEngine` | `Spec => []OneDefaultEngine` |
| `WorkerInSlotAlive` | `Spec => []SlotWorkerAlive` |
| `ShutdownSignalsOwner` | `Spec => []InstanceHasItsWorker` |
| `TornDownByMaker` | `Spec => []TornDownByItsWorker` |

The hard case is a worker that was given up before it began its teardown. `IInv`
says what follows (`Leaked`): its engine stays registered, every later
construction counts it and is refused, so the instance slot stays empty, and when
the late worker clears the slots it takes no engine, neither its own nor another's.
Before the first shutdown gives up, the slots are those of the one live worker
(`SlotsKept`), and a worker is signalled only when its engine is built
(`WorkerSteps`). So a built engine in the slot always has its worker beside it,
and the assertion at line 306 holds.

### ActorNetwork

For every plan (`PlansAssumption`: acyclic, children before parents, the nodes
without children are those that read, a map or a reduce has one child, as
`default_node_single` and `concatenate_node` require), any capacity, any number
of producers, and failures at any place:

| Theorem | States |
|---|---|
| `Invariance` | `Spec => []IInv` |
| `TypesPreserved` | `Spec => []TypeOK` |
| `OneChunkInFlight` | `Spec => []OneInFlight` |
| `ResultInvariance` | `Spec => [](IInv /\ ResultInv)` |
| `ChunksDelivered` | `Spec => []ResultCorrect` |

`TypeOK` contains the bound on channels and that a channel that is shut is
empty. For it every step is shown to end the actor or to have one of five
effects on channels (`Effect`), each of which keeps it. `OneInFlight` is a sum
and not inductive; `OneToken` is: the slot of a producer is free, or the producer
is reading, or its chunk is on the way, or its chunk is buffered, and no two of
these. That the slot is given back to the producer whose chunk was forwarded
needs the numbering (`Numbered`): a producer's chunks are its own number modulo
the number of producers, which adding that number does not change (`ModulusAdd`).

`ResultCorrect` speaks of the result alone. `ResultInv` says what happens on the
way, until an actor raises. The chunks of all nodes (`Values`) are one recursive
function over the plan, which exists because children come before parents
(`ValuesExist`). Then:

- There is a history `h`: the number of messages received from every channel.
  What is queued are the messages of the channel's node that follow, and a
  channel is shut only when the last of them has been sent (`ChannelsCarry`).
- An actor that has taken `r` from its inputs has sent `t` to its outputs, and its
  step and local variables say how both go together (`Makes`). Each kind has its
  own relation: a zip is at a child of a round, a finished child being one that
  had fewer chunks than rounds (`ZipChild`); a union has moved the numbers behind
  those of the children before (`Offsets`); the buffers of an unbounded fanout
  hold what was received and not yet sent on each output (`InStep`); the chunks
  that the producers of a scan have read and the `Lineariser` has not forwarded
  are the next of each producer, all within one round of the next number to
  forward (`InOrder`), and when no producer is pending the least of them is next.
- Metadata is not shut and comes before the data (`MetadataFlows`): without it an
  actor that finds no metadata would raise or, as the sink, stop early.

A step concerns one actor (`OwnStep`): a channel has one reader and one writer
(`InsDiffer`, `OutsDiffer`), since `Slot` numbers the consumers of a shared node
one by one and the fanout has an output for each (`UsesOrdered`, `UseCounted`).
So the other actors have made what they had to make (`OthersMake`), and each
action comes down to one of a few moves: a quiet step, a send of the next chunk, a
receive, a channel shut, an end (`StepQuiet`, `StepSend`, `StepReceive`,
`StepShut`, `StepEnd`). The result is what the sink has made.

The proof corrected the model in one place. `Uses` had taken the children of a
node to be no more than the nodes of the plan, which `pl.concat([df, df, df])`
over one source is not; one of the plans of the run is now of that form.

### OrderedUnion

For any number of ranks, children and chunks, any estimates
(`ScenariosAssumption`: there is a rank and a child, and every child has a
number of chunks on every rank), any capacity and sample size:

| Theorem | States |
|---|---|
| `Invariance` | `Spec => []IInv` |
| `TypesPreserved` | `Spec => []TypeOK` |
| `ExchangesComplete` | `Spec => FinishedIsFinal`, an action property |
| `OwnerOfPartition` | `PartitionOwner` gives the rank whose `PartitionRange` holds the partition |
| `OwnersInOrder` | owners are ranks and do not decrease with the partition |
| `RangesTile` | the ranges of the ranks follow each other without gaps |
| `OrderInvariance` | `Spec => [](IInv /\ OrderInv)` |
| `RowsInOrder` | `Spec => []OrderPreserved` |
| `PromisesKept` | `Spec => []PromisedCounts` |

The three about partitions are about the operators alone; the routing and the
promised counts, which the code computes in two different ways, agree by them. `IInv`
says which children a rank has finished (`FinishedChildren`: those before the
one it reads, and that one while it waits), that what emit has taken and what
waits in the queue are together the children exchanged (`Pipeline`), and that
the sampler goes on with room left (`SampleRoom`).

`OrderInv` follows the chunks: an exchange holds what has been read, each chunk
for its destination and in order (`ExchangeHolds`); a queue entry holds all
chunks of one child that the rank owns (`QueueHolds`); and what was replayed,
sampled, sent and is about to be sent is one sequence, `Line`, in order and
complete up to the last child taken (`LineHolds`), which the steps of the
sampler and of the channel only move along. That the ranks read one after the other give the
rows in order then follows from the plan: blocks of partitions follow each other
in the order of children and ranks, a chunk that was not estimated goes to the
last partition of its block, and owners do not decrease with the partition. For
the counts, exact estimates give every chunk a partition of its own, and the
chunks of a rank and the partitions of its range are in increasing
correspondence.

### FastSlowProxy

For every program of calls, any number of calls, and all ways in which the
libraries take or refuse them:

| Theorem | States |
|---|---|
| `TypeCorrect` | `Spec => []TypeOK` |
| `WorldsApartCorrect` | `Spec => []WorldsApart` |
| `ForcedCorrect` | `Spec => ForcedStaysSlow`, an action property |
| `MatchInvariance` | if `NeverReused`, without chaining and debugging, `Spec => [](IInv /\ MatchInv)` |
| `FinalsCorrect` | if `NeverReused`, without chaining and debugging, `Spec => []FinalsMatchPandas` |
| `AnswersCorrect` | if `NeverReused`, without chaining and debugging, `Spec => []AnswersMatchPandas` |

The last three assume that no identity is given twice (`NeverReused`),
`~Chaining` and `~Debugging`, and they have to: `fast_slow_reuse` and
`fast_slow_chain` refute `AnswersMatchPandas` without the first and the second,
and with `CUDF_PANDAS_DEBUGGING` the effect of a write is there twice (see the
observations). CPython does not promise the first: the theorems say what the
fallback, the conversions and the replay achieve as long as `id()` tells objects
apart. The first three hold with reused identities too.

The first part is about one conversion. Converting an intermediate converts its
parents first, so `Conversion` is a recursive function of the number of nested
calls; `Sound` says what `n` of them achieve, and is proved by induction on `n`:
the objects there are stay as they are, proxies keep what they are and are only
moved, all arguments are in the wanted library unless one raised, a conversion to
pandas never raises (no object of cuDF holds what pandas cannot), and proxies
whose transfer block forbids it are left alone (`KeepsBlocked`). Parents are older
than what is derived from them, so twice the number of proxies and the number of
arguments is depth enough (`Enough`).

The second part compares with plain pandas (`MatchInv`). Two finals never share
data, so a write through one changes one. The identities an intermediate has
recorded never exceed those of the objects it looks at, and these never exceed
what its parents wrap; as identities do not come back, if the recorded ones are
those of the parents now, the intermediate looks at what its parents wrap, and
otherwise it is derived again. Either way a read or a write through it reaches the data
that pandas would reach.

### Induction

The induction theorems of the library take a predicate as a parameter, which the
installed provers do not instantiate. `SequenceLemmas` states induction for sets
of numbers instead (`Least`, `Induction`), from the fact that the order of the
natural numbers is well-founded; a proof defines the set of the numbers for
which its claim holds. The same way a recursive function is shown to exist
(`SumsExist`, `ConversionExists`, `TargetsExist`, `FrameSetsExist`,
`ValuesExist`), without which its defining equation could not be used.

### Only model-checked

- Liveness (`EveryOperationEnds`, `EveryCallEnds`, `Terminates`, `AllRanksEnd`):
  out of the proof system's reach.

Every safety invariant and action property of a passing run is proved.

## Not modelled

- The global manager and the RMM resource stack, the statistics, the branch of
  `as_buffer` for owned data, deserialisation, and the column access layer:
  planned, see below.
- cudf.pandas: the construction of proxy types, callable and array proxies,
  nested containers and closures among the arguments (`ConvertAll` takes a flat
  list), iterators, and the import hooks.
- cudf-polars: joins, group-bys, shuffles, sorts and sinks of the actor network,
  adaptive planning, the failure of a rank, reserved collective ids, persisted
  results, the dask, ray and spmd backends, and the translation of plans.
- libcudf's stream pool, pinned memory and host worker pool, Java's reference
  counted buffers and their cleaner: systems of their own. custreamz: a wrapper
  of a Kafka consumer.
- Kernels, file formats, data frame methods and bindings: numeric code on large
  data. This is by far the largest part of the repository, and a model checker
  has nothing to say about it; the share of the source that the models cover is
  small for that reason.
- Device streams: copies are taken to be complete when the call returns.

## Plan

1. `GlobalManager`: lazy initialisation by several threads, replacement of the
   manager while buffers and the handler refer to the old one, the context
   manager that pushes and pops the failure callback resource, statistics.
2. `as_buffer` of owned data, serialised frames that outlive their context, the
   column access layer.
3. Joins and shuffles in the actor network, reserved collective ids, persisted
   results.
