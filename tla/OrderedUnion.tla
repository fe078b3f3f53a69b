---------------------------- MODULE OrderedUnion ----------------------------
(***************************************************************************)
(* The order-preserving Union over several ranks of cudf-polars            *)
(* (streaming/actor_graph/union.py) in front of an actor that samples its  *)
(* input before a collective decision (ChunkSampler, sample_inputs and     *)
(* replay_buffered_channel of streaming/actor_graph/utils.py).             *)
(*                                                                         *)
(* On every rank one task of the union reads the children and exchanges    *)
(* their chunks with the other ranks, another emits the chunks the rank    *)
(* owns.  The i-th chunk of child c on rank r is <<c, r, i>>, counted from *)
(* 0.  AllGather and SparseAlltoall belong to rapidsmpf: both complete on  *)
(* a rank once every rank has inserted everything, and keep the order of   *)
(* each sender.                                                            *)
(***************************************************************************)
EXTENDS Integers, Sequences, SequencesExt, FiniteSets

CONSTANTS
    Scenarios,  \* the inputs: ranks, chunks, estimates, duplicated children
    Capacity,   \* messages a channel holds
    MaxChunks   \* chunks the sampler takes at most

ASSUME OrderedUnionAssumption ==
    Capacity \in Nat \ {0} /\ MaxChunks \in Nat \ {0}

\* There are ranks and children, and every rank has chunks, maybe none, of
\* every child.
ASSUME ScenariosAssumption ==
    \A s \in Scenarios :
        LET Numbers == [0..(s.nranks - 1) -> Nat]
        IN  /\ s.nranks \in Nat \ {0}
            /\ s.chunks \in Seq(Numbers) /\ s.counts \in Seq(Numbers)
            /\ Len(s.chunks) > 0 /\ Len(s.counts) = Len(s.chunks)
            /\ s.duplicated \subseteq 1..Len(s.chunks)

VARIABLES
    in,         \* the scenario: nranks, chunks and counts (child -> rank ->
                \* Nat) and the set duplicated of children
    gathered,   \* ranks that have inserted into the AllGather
    reader,     \* r -> next step of read_and_exchange
    child,      \* r -> child that is read
    index,      \* r -> chunks of it that were read
    exchange,   \* child -> source -> destination -> chunks inserted
    finished,   \* pairs <<c, r>> such that r has called insert_finished
    exchanged,  \* r -> queue of the chunks owned of every exchanged child
    emitted,    \* r -> children taken from that queue
    store,      \* r -> chunks that emit is sending
    ch,         \* r -> messages in ch_out
    closed,     \* ranks whose ch_out is drained
    sampler,    \* r -> next step of the downstream actor
    sample,     \* r -> chunks buffered by the sampler
    sampled,    \* ranks that have inserted their statistics
    output      \* r -> chunks replayed

unionVars == <<reader, child, index, exchange, finished, exchanged>>
emitVars == <<emitted, store, closed>>
downVars == <<sampler, sample, sampled, output>>
vars == <<in, gathered, unionVars, emitVars, ch, downVars>>

Ranks == 0..(in.nranks - 1)
Children == DOMAIN in.chunks

-----------------------------------------------------------------------------
(* _OrderedUnionPlan *)

\* Duplicated children count, and are read, on rank 0 only.
Dropped(s, c, r) == c \in s.duplicated /\ r # 0
Count(s, c, r) == IF Dropped(s, c, r) THEN 0 ELSE s.counts[c][r]

\* The sum of the first n entries of a, which is indexed from 0.
SumBefore(a, n) ==
    LET sum[k \in 0..n] == IF k = 0 THEN 0 ELSE sum[k - 1] + a[k - 1]
    IN  sum[n]

\* The estimated chunks of a child by rank, and of all children.
ChildCounts(s, c) == [r \in 0..(s.nranks - 1) |-> Count(s, c, r)]
ChildTotals(s) ==
    [c \in 0..(Len(s.chunks) - 1) |->
        SumBefore(ChildCounts(s, c + 1), s.nranks)]

\* The chunks estimated before child c on rank r, and in all.
Offset(s, c, r) ==
    SumBefore(ChildTotals(s), c - 1) + SumBefore(ChildCounts(s, c), r)
Total(s) == SumBefore(ChildTotals(s), Len(s.chunks))

PartitionOwner(p, nranks, npartitions) == (p * nranks) \div npartitions

\* Mutant: rounds down.
PartitionRangeDown(r, nranks, npartitions) ==
    <<(r * npartitions) \div nranks, ((r + 1) * npartitions) \div nranks>>

PartitionRange(r, nranks, npartitions) ==
    <<(r * npartitions + nranks - 1) \div nranks,
      ((r + 1) * npartitions + nranks - 1) \div nranks>>

\* Mutant: chunks beyond the estimate stay where they are.
OverflowStays(s, c, r) == r

OverflowDestination(s, c, r) ==
    LET total == Total(s)
        last == Offset(s, c, r)
                    + (IF Count(s, c, r) = 0 THEN 0 ELSE Count(s, c, r) - 1)
    IN  IF total = 0 THEN 0
        ELSE PartitionOwner(IF last < total THEN last ELSE total - 1,
                            s.nranks, total)

Destination(s, c, r, i) ==
    IF i < Count(s, c, r)
    THEN PartitionOwner(Offset(s, c, r) + i, s.nranks, Total(s))
    ELSE OverflowDestination(s, c, r)

LocalCount(s, r) ==
    LET range == PartitionRange(r, s.nranks, Total(s))
    IN  range[2] - range[1]

-----------------------------------------------------------------------------
Init ==
    /\ in \in Scenarios
    /\ gathered = {}
    /\ reader = [r \in Ranks |-> "insert"]
    /\ child = [r \in Ranks |-> 1]
    /\ index = [r \in Ranks |-> 0]
    /\ exchange = [c \in Children |->
                    [s \in Ranks |-> [d \in Ranks |-> <<>>]]]
    /\ finished = {}
    /\ exchanged = [r \in Ranks |-> <<>>]
    /\ emitted = [r \in Ranks |-> 0]
    /\ store = [r \in Ranks |-> <<>>]
    /\ ch = [r \in Ranks |-> <<>>]
    /\ closed = {}
    /\ sampler = [r \in Ranks |-> "sample"]
    /\ sample = [r \in Ranks |-> <<>>]
    /\ sampled = {}
    /\ output = [r \in Ranks |-> <<>>]

Goto(r, l) == reader' = [reader EXCEPT ![r] = l]

-----------------------------------------------------------------------------
(* union_node and _ordered_union *)

\* Every rank contributes its chunk counts to one AllGather ...
Contribute(r) ==
    /\ reader[r] = "insert"
    /\ gathered' = gathered \cup {r}
    /\ Goto(r, "gather")
    /\ UNCHANGED <<in, child, index, exchange, finished, exchanged, emitVars,
                   ch, downVars>>

\* ... and has the plan when all have.
Gathered(r) ==
    /\ reader[r] = "gather" /\ gathered = Ranks
    /\ Goto(r, "read")
    /\ UNCHANGED <<in, gathered, child, index, exchange, finished, exchanged,
                   emitVars, ch, downVars>>

\* _exchange_child: a chunk of a child is kept or inserted for its owner.
Read(r) ==
    LET c == child[r]
        d == Destination(in, c, r, index[r])
    IN  /\ reader[r] = "read" /\ index[r] < in.chunks[c][r]
        /\ exchange' = IF Dropped(in, c, r) THEN exchange
                       ELSE [exchange EXCEPT ![c][r][d] =
                                Append(@, <<c, r, index[r]>>)]
        /\ index' = [index EXCEPT ![r] = @ + 1]
        /\ UNCHANGED <<in, gathered, reader, child, finished, exchanged,
                       emitVars, ch, downVars>>

\* Mutant: one task reads, exchanges and emits.
InsertFinishedAfterEmit(r) ==
    /\ reader[r] = "read" /\ index[r] = in.chunks[child[r]][r]
    /\ store[r] = <<>> /\ exchanged[r] = <<>>
    /\ finished' = finished \cup {<<child[r], r>>}
    /\ Goto(r, "exchange")
    /\ UNCHANGED <<in, gathered, child, index, exchange, exchanged, emitVars,
                   ch, downVars>>

\* Mutant: a child ends after as many chunks as were estimated.
InsertFinishedAtEstimate(r) ==
    LET c == child[r]
    IN  /\ reader[r] = "read"
        /\ index[r] = in.chunks[c][r] \/ index[r] = Count(in, c, r)
        /\ finished' = finished \cup {<<c, r>>}
        /\ IF index[r] = in.chunks[c][r] THEN Goto(r, "exchange")
           ELSE UNCHANGED reader
        /\ UNCHANGED <<in, gathered, child, index, exchange, exchanged,
                       emitVars, ch, downVars>>

InsertFinished(r) ==
    /\ reader[r] = "read" /\ index[r] = in.chunks[child[r]][r]
    /\ finished' = finished \cup {<<child[r], r>>}
    /\ Goto(r, "exchange")
    /\ UNCHANGED <<in, gathered, child, index, exchange, exchanged, emitVars,
                   ch, downVars>>

\* The chunks of lower ranks, then the rank's own, then those of higher ranks.
Owned(c, r) ==
    FlattenSeq([s \in 1..in.nranks |-> exchange[c][s - 1][r]])

\* The exchange is complete; put_nowait hands its chunks to emit.
Exchanged(r) ==
    /\ reader[r] = "exchange" /\ \A s \in Ranks : <<child[r], s>> \in finished
    /\ exchanged' = [exchanged EXCEPT ![r] = Append(@, Owned(child[r], r))]
    /\ IF child[r] = Len(in.chunks)
       THEN Goto(r, "done") /\ UNCHANGED <<child, index>>
       ELSE /\ Goto(r, "read")
            /\ child' = [child EXCEPT ![r] = @ + 1]
            /\ index' = [index EXCEPT ![r] = 0]
    /\ UNCHANGED <<in, gathered, exchange, finished, emitVars, ch, downVars>>

\* emit: exchanged.get() and one send after the other.
TakeStore(r) ==
    /\ store[r] = <<>> /\ exchanged[r] # <<>>
    /\ store' = [store EXCEPT ![r] = Head(exchanged[r])]
    /\ exchanged' = [exchanged EXCEPT ![r] = Tail(@)]
    /\ emitted' = [emitted EXCEPT ![r] = @ + 1]
    /\ UNCHANGED <<in, gathered, reader, child, index, exchange, finished, ch,
                   closed, downVars>>

\* Mutant: the send does not wait for room in the channel.
EmitAtOnce(r) ==
    /\ store[r] # <<>>
    /\ ch' = [ch EXCEPT ![r] = Append(@, Head(store[r]))]
    /\ store' = [store EXCEPT ![r] = Tail(@)]
    /\ UNCHANGED <<in, gathered, unionVars, emitted, closed, downVars>>

Emit(r) ==
    /\ store[r] # <<>> /\ Len(ch[r]) < Capacity
    /\ ch' = [ch EXCEPT ![r] = Append(@, Head(store[r]))]
    /\ store' = [store EXCEPT ![r] = Tail(@)]
    /\ UNCHANGED <<in, gathered, unionVars, emitted, closed, downVars>>

\* Both tasks have ended and ch_out.drain has found the channel empty.
Drain(r) ==
    /\ reader[r] = "done" /\ emitted[r] = Len(in.chunks) /\ store[r] = <<>>
    /\ ch[r] = <<>> /\ r \notin closed
    /\ closed' = closed \cup {r}
    /\ UNCHANGED <<in, gathered, unionVars, emitted, store, ch, downVars>>

-----------------------------------------------------------------------------
(* The downstream actor *)

\* sample_channel takes up to MaxChunks chunks, fewer at the end of the input
\* or when they hold enough bytes.
Sample(r) ==
    /\ sampler[r] = "sample"
    /\ \/ /\ ch[r] # <<>>
          /\ sample' = [sample EXCEPT ![r] = Append(@, Head(ch[r]))]
          /\ ch' = [ch EXCEPT ![r] = Tail(@)]
          /\ sampler' = [sampler EXCEPT
                ![r] = IF Len(sample'[r]) = MaxChunks THEN "insert" ELSE @]
       \/ /\ ch[r] = <<>> /\ r \in closed
          /\ sampler' = [sampler EXCEPT ![r] = "insert"]
          /\ UNCHANGED <<sample, ch>>
       \/ /\ sample[r] # <<>>
          /\ sampler' = [sampler EXCEPT ![r] = "insert"]
          /\ UNCHANGED <<sample, ch>>
    /\ UNCHANGED <<in, gathered, unionVars, emitVars, sampled, output>>

\* aggregate_table_size_stats
Aggregate(r) ==
    /\ \/ /\ sampler[r] = "insert"
          /\ sampled' = sampled \cup {r}
          /\ sampler' = [sampler EXCEPT ![r] = "aggregate"]
       \/ /\ sampler[r] = "aggregate" /\ sampled = Ranks
          /\ sampler' = [sampler EXCEPT ![r] = "replay"]
          /\ UNCHANGED sampled
    /\ UNCHANGED <<in, gathered, unionVars, emitVars, ch, sample, output>>

\* replay_buffered_channel: the sample first, then the rest of the input.
Replay(r) ==
    /\ sampler[r] = "replay"
    /\ \/ /\ sample[r] # <<>>
          /\ output' = [output EXCEPT ![r] = Append(@, Head(sample[r]))]
          /\ sample' = [sample EXCEPT ![r] = Tail(@)]
          /\ UNCHANGED <<ch, sampler>>
       \/ /\ sample[r] = <<>> /\ ch[r] # <<>>
          /\ output' = [output EXCEPT ![r] = Append(@, Head(ch[r]))]
          /\ ch' = [ch EXCEPT ![r] = Tail(@)]
          /\ UNCHANGED <<sample, sampler>>
       \/ /\ sample[r] = <<>> /\ ch[r] = <<>> /\ r \in closed
          /\ sampler' = [sampler EXCEPT ![r] = "done"]
          /\ UNCHANGED <<sample, ch, output>>
    /\ UNCHANGED <<in, gathered, unionVars, emitVars, sampled>>

-----------------------------------------------------------------------------
Step(r) ==
    \/ Contribute(r) \/ Gathered(r) \/ Read(r) \/ InsertFinished(r)
    \/ Exchanged(r) \/ TakeStore(r) \/ Emit(r) \/ Drain(r)
    \/ Sample(r) \/ Aggregate(r) \/ Replay(r)

Next == \E r \in Ranks : Step(r)

Spec == Init /\ [][Next]_vars

\* Some rank goes on whenever one can.
FairSpec == Spec /\ WF_vars(Next)

-----------------------------------------------------------------------------
(* Properties *)

\* Ranks, steps and counters have their types; a channel is never overfull.
TypeOK ==
    /\ gathered \subseteq Ranks /\ closed \subseteq Ranks
    /\ sampled \subseteq Ranks /\ finished \subseteq Children \X Ranks
    /\ \A r \in Ranks :
        /\ reader[r] \in {"insert", "gather", "read", "exchange", "done"}
        /\ sampler[r] \in {"sample", "insert", "aggregate", "replay", "done"}
        /\ child[r] \in Children /\ index[r] \in 0..in.chunks[child[r]][r]
        /\ emitted[r] \in 0..Len(in.chunks)
        /\ Len(ch[r]) <= Capacity /\ Len(sample[r]) <= MaxChunks

\* <<c, r, i>> comes before <<d, s, j>> in the rows of the union.
Before(a, b) ==
    \/ a[1] < b[1]
    \/ a[1] = b[1] /\ a[2] < b[2]
    \/ a[1] = b[1] /\ a[2] = b[2] /\ a[3] < b[3]

AllOutput == FlattenSeq([r \in 1..in.nranks |-> output[r - 1]])

Everything ==
    UNION {{<<b[1], b[2], i>> : i \in 0..(in.chunks[b[1]][b[2]] - 1)} :
            b \in {d \in Children \X Ranks : ~Dropped(in, d[1], d[2])}}

\* "reading the ranks in order reproduces the order required by pl.concat",
\* also when the estimated chunk counts are wrong, and no chunk is lost or
\* repeated when the ranks have ended.
OrderPreserved ==
    /\ \A i, j \in DOMAIN AllOutput :
        i < j => Before(AllOutput[i], AllOutput[j])
    /\ (\A r \in Ranks : sampler[r] = "done") => Range(AllOutput) = Everything

\* With exact estimates a rank emits as many chunks as its metadata promises.
PromisedCounts ==
    (\A c \in Children, r \in Ranks :
        ~Dropped(in, c, r) => in.counts[c][r] = in.chunks[c][r]) =>
        \A r \in Ranks : sampler[r] = "done" =>
            Len(output[r]) = LocalCount(in, r)

\* A rank inserts nothing into an exchange for which it has called
\* insert_finished, so what the others take from it is complete.
FinishedIsFinal ==
    [][\A c \in Children, r \in Ranks :
        <<c, r>> \in finished => exchange'[c][r] = exchange[c][r]]_vars

\* No rank is left waiting in an exchange or a collective: a rank whose
\* sampler waits for the other ranks still takes part in their exchanges.
AllRanksEnd == <>(\A r \in Ranks : sampler[r] = "done")

=============================================================================
