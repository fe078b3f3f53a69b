---------------------------- MODULE ActorNetwork ----------------------------
(***************************************************************************)
(* The network of actors that evaluates a query plan on one rank in        *)
(* cudf-polars (python/cudf_polars/cudf_polars/streaming/actor_graph):     *)
(* what generate_network builds from a plan and what its actors do until   *)
(* the network stops.                                                      *)
(*                                                                         *)
(* A plan is a record of sequences over its nodes, children before         *)
(* parents and the root last: kind (source, scan, map, reduce, zip or      *)
(* union), args (the children) and chunks (of a source or scan).  A source *)
(* reads its chunks one by one, a scan with several producers through the  *)
(* Lineariser.  Node n sends on channel <<n, 0>>; when n has several       *)
(* consumers a fanout actor forwards that channel to <<n, 1>>, <<n, 2>>... *)
(* The data of a chunk is the sequence of the source chunks in it.         *)
(*                                                                         *)
(* Channels belong to rapidsmpf: a send waits while Capacity messages are  *)
(* queued, drain waits for an empty queue and shuts the channel, a receive *)
(* from a shut channel returns None, a send to it is dropped, and an actor *)
(* that ends shuts its channels.                                           *)
(***************************************************************************)
EXTENDS Naturals, Sequences, SequencesExt, FiniteSets

CONSTANTS
    Plans,       \* the plans that may be evaluated
    Capacity,    \* messages a channel holds
    Producers,   \* max_concurrent_io_tasks
    MaxFailures  \* bound on the actors that raise

ASSUME ActorNetworkAssumption ==
    /\ Capacity \in Nat \ {0} /\ Producers \in Nat \ {0}
    /\ MaxFailures \in Nat

\* A lowered plan is a graph without cycles whose leaves are the nodes that
\* read chunks.
ASSUME PlansAssumption ==
    \A p \in Plans :
        LET N == Len(p.kind)
        IN  /\ p.kind \in Seq({"source", "scan", "map", "reduce", "zip",
                               "union"})
            /\ p.args \in Seq(Seq(Nat)) /\ p.chunks \in Seq(Nat)
            /\ N > 0 /\ Len(p.args) = N /\ Len(p.chunks) = N
            /\ \A n \in 1..N :
                /\ Range(p.args[n]) \subseteq 1..(n - 1)
                /\ p.args[n] = <<>> <=> p.kind[n] \in {"source", "scan"}
                /\ p.kind[n] \in {"map", "reduce"} => Len(p.args[n]) = 1

VARIABLES
    plan,    \* the lowered plan
    fanout,  \* n -> "none", "bounded" or "unbounded"
    queue,   \* channel -> messages sent and not received
    shut,    \* channels whose data path is shut down
    md,      \* channel -> its metadata message
    pc,      \* actor -> next step
    loc,     \* actor -> local variables of its loop
    fan,     \* n -> local variables of its fanout_node_unbounded
    lin,     \* n -> state of the Lineariser of a scan
    result,  \* messages that reached pull_from_channel
    failures \* actors that raised

netVars == <<plan, fanout>>
chanVars == <<queue, shut, md>>
vars == <<netVars, chanVars, pc, loc, fan, lin, result, failures>>

-----------------------------------------------------------------------------
(* generate_network *)

Nodes == 1..Len(plan.kind)
Root == Len(plan.kind)

\* The places where a node is used as a child, and how often it is.
Uses(p, n) ==
    UNION {{<<m, j>> : j \in {i \in DOMAIN p.args[m] : p.args[m][i] = n}} :
                m \in 1..Len(p.kind)}
DepCount(p, n) == Cardinality(Uses(p, n))

\* partition_info[n].count
PartitionCount(p) ==
    LET count[n \in 1..Len(p.kind)] ==
            LET of == [j \in DOMAIN p.args[n] |-> count[p.args[n][j]]]
            IN  CASE p.kind[n] \in {"source", "scan"} ->
                        IF p.chunks[n] = 0 THEN 1 ELSE p.chunks[n]
                  [] p.kind[n] = "reduce" -> 1
                  [] p.kind[n] = "union"  -> FoldLeft(+, 0, of)
                  [] OTHER -> CHOOSE c \in Range(of) :
                                  \A d \in Range(of) : d <= c
    IN  count

\* Mutant: a union is taken to consume its children together.
SequentialBroadcast(p, n) ==
    /\ Len(p.args[n]) > 1
    /\ LET counts == {PartitionCount(p)[c] : c \in Range(p.args[n])}
       IN  1 \in counts /\ counts # {1}

\* A node whose children may be consumed one after the other.
Sequential(p, n) ==
    \/ p.kind[n] = "union"
    \/ /\ Len(p.args[n]) > 1
       /\ LET counts == {PartitionCount(p)[c] : c \in Range(p.args[n])}
          IN  1 \in counts /\ counts # {1}

\* determine_fanout_nodes: the nodes marked along the traversal, which visits
\* a node when it is popped and pushes the children not seen so far.
UnboundedNodes(p) ==
    LET root == Len(p.kind)
        step[k \in 0..root] ==
            IF k = 0
            THEN [stack |-> <<root>>, seen |-> {root}, unbounded |-> {}]
            ELSE LET v == step[k - 1]
                     node == Last(v.stack)
                     new == FoldLeft(LAMBDA s, c :
                                IF c \in v.seen \cup Range(s) THEN s
                                ELSE Append(s, c),
                                <<>>, Reverse(p.args[node]))
                 IN  [stack |-> Front(v.stack) \o new,
                      seen |-> v.seen \cup Range(new),
                      unbounded |->
                        IF node \in v.unbounded \/ Sequential(p, node)
                        THEN v.unbounded \cup Range(p.args[node])
                        ELSE v.unbounded]
    IN  step[root].unbounded

FanoutNodes(p) ==
    [n \in 1..Len(p.kind) |->
        IF DepCount(p, n) <= 1 THEN "none"
        ELSE IF n \in UnboundedNodes(p) THEN "unbounded" ELSE "bounded"]

Actors ==
    {<<"node", n>> : n \in Nodes} \cup {<<"sink", Root>>}
        \cup {<<"fanout", n>> : n \in {m \in Nodes : fanout[m] # "none"}}

\* ChannelManager hands out the channels of a node in the order in which its
\* consumers are generated.
Slot(parent, j) ==
    LET n == plan.args[parent][j]
        earlier == {u \in Uses(plan, n) :
                        u[1] < parent \/ (u[1] = parent /\ u[2] <= j)}
    IN  <<n, IF fanout[n] = "none" THEN 0 ELSE Cardinality(earlier)>>

Kind(a) == IF a[1] = "node" THEN plan.kind[a[2]]
           ELSE IF a[1] = "fanout" THEN fanout[a[2]] ELSE "sink"

In(a) ==
    CASE a[1] = "node" -> [j \in DOMAIN plan.args[a[2]] |-> Slot(a[2], j)]
      [] OTHER -> <<<<a[2], 0>>>>

Out(a) ==
    CASE a[1] = "node" -> <<<<a[2], 0>>>>
      [] a[1] = "fanout" -> [k \in 1..DepCount(plan, a[2]) |-> <<a[2], k>>]
      [] OTHER -> <<>>

Chans(a) == Range(In(a)) \cup Range(Out(a))

NumProducers(p, n) ==
    IF p.chunks[n] < Producers THEN p.chunks[n] ELSE Producers

InitLocals(inputs) ==
    [at |-> 1, base |-> 0, count |-> 0, finished |-> {},
     hold |-> [j \in 1..inputs |-> <<>>]]

InitFanout(outputs) ==
    [recv |-> "wait", prefetched |-> <<>>, canReceive |-> TRUE,
     needsDrain |-> {}, task |-> [k \in 1..outputs |-> "none"],
     buffer |-> [k \in 1..outputs |-> <<>>]]

InitLineariser(producers) ==
    [producer |-> [i \in 1..producers |-> "acquire"],
     next |-> [i \in 1..producers |-> i - 1],
     inbox |-> [i \in 1..producers |-> <<>>],
     slot |-> [i \in 1..producers |-> TRUE],
     pending |-> 1..producers, buffer |-> {}, nextSeq |-> 0]

Init ==
    /\ plan \in Plans
    /\ fanout = FanoutNodes(plan)
    /\ LET channels == UNION {Chans(a) : a \in Actors}
       IN  /\ queue = [c \in channels |-> <<>>]
           /\ md = [c \in channels |-> "none"]
    /\ shut = {}
    /\ pc = [a \in Actors |->
                IF Kind(a) \in {"source", "scan"} THEN "send metadata"
                ELSE "recv metadata"]
    /\ loc = [a \in Actors |-> InitLocals(Len(In(a)))]
    /\ fan = [n \in Nodes |-> InitFanout(DepCount(plan, n))]
    /\ lin = [n \in Nodes |->
                InitLineariser(IF plan.kind[n] = "scan"
                               THEN NumProducers(plan, n) ELSE 0)]
    /\ result = <<>>
    /\ failures = {}

-----------------------------------------------------------------------------
(* Channels *)

Goto(a, l) == pc' = [pc EXCEPT ![a] = l]
HasRoom(c) == c \in shut \/ Len(queue[c]) < Capacity
Ended(c) == c \in shut /\ queue[c] = <<>>

Send(c, m) ==
    /\ HasRoom(c)
    /\ queue' = IF c \in shut THEN queue ELSE [queue EXCEPT ![c] = Append(@, m)]

\* shutdown_channels: messages that were not received are dropped.
ShutDown(cs) ==
    /\ shut' = shut \cup cs
    /\ queue' = [c \in DOMAIN queue |-> IF c \in cs THEN <<>> ELSE queue[c]]
    /\ md' = [c \in DOMAIN md |->
                IF c \in cs /\ md[c] # "taken" THEN "shut" ELSE md[c]]

\* The actor ends and define_actor shuts its channels.
End(a) == Goto(a, "done") /\ ShutDown(Chans(a))

\* The actor raises inside shutdown_on_error; tasks it has started are
\* cancelled.
Raise(a) ==
    /\ End(a)
    /\ failures' = failures \cup {a}
    /\ UNCHANGED <<netVars, loc, fan, lin, result>>

\* Working out the metadata, evaluation, a read or a memory reservation
\* fails.
Fail(a) ==
    /\ Cardinality(failures) < MaxFailures
    /\ \/ pc[a] = "send metadata" /\ a[1] = "node"
       \/ pc[a] = "send"
       \/ pc[a] = "loop" /\ fan[a[2]].canReceive /\ fan[a[2]].recv = "msg"
       \/ pc[a] = "forward" /\ \E i \in DOMAIN lin[a[2]].producer :
                                    lin[a[2]].producer[i] = "read"
    /\ Raise(a)

-----------------------------------------------------------------------------
(* Metadata *)

\* recv_metadata asserts that there is a message; metadata_drain_node returns.
RecvMetadata(a) ==
    /\ pc[a] = "recv metadata"
    /\ \E j \in DOMAIN In(a) :
        LET c == In(a)[j]
        IN  \/ /\ md[c] = "sent"
               /\ md' = [md EXCEPT ![c] = "taken"]
               /\ IF \A k \in DOMAIN In(a) \ {j} : md[In(a)[k]] = "taken"
                  THEN Goto(a, IF Kind(a) = "sink" THEN "recv"
                               ELSE "send metadata")
                  ELSE UNCHANGED pc
               /\ UNCHANGED <<netVars, queue, shut, loc, fan, lin, result,
                              failures>>
            \/ /\ md[c] = "shut" /\ Kind(a) # "sink"
               /\ Raise(a)
            \/ /\ md[c] = "shut" /\ Kind(a) = "sink"
               /\ End(a)
               /\ UNCHANGED <<netVars, loc, fan, lin, result, failures>>

SendMetadata(a) ==
    /\ pc[a] = "send metadata"
    /\ md' = [c \in DOMAIN md |->
                IF c \in Range(Out(a)) /\ md[c] = "none" THEN "sent"
                ELSE md[c]]
    /\ Goto(a, "drain metadata")
    /\ UNCHANGED <<netVars, queue, shut, loc, fan, lin, result, failures>>

\* What an actor does first with the data.
Start(a) ==
    CASE Kind(a) = "source" ->
            IF plan.chunks[a[2]] = 0 THEN "drain" ELSE "send"
      [] Kind(a) = "scan" -> IF plan.chunks[a[2]] = 0 THEN "drain" ELSE "forward"
      [] Kind(a) = "unbounded" -> "loop"
      [] OTHER -> "recv"

DrainMetadata(a) ==
    /\ pc[a] = "drain metadata"
    /\ \A k \in DOMAIN Out(a) : md[Out(a)[k]] # "sent"
    /\ Goto(a, Start(a))
    /\ UNCHANGED <<netVars, chanVars, loc, fan, lin, result, failures>>

-----------------------------------------------------------------------------
(* Receiving.  loc[a].at is the input, or the output, that is next. *)

Received(a, j, m) ==
    /\ queue' = [queue EXCEPT ![In(a)[j]] = Tail(@)]
    /\ UNCHANGED <<netVars, shut, md, fan, lin, failures>>

Empty == [seq |-> 0, data |-> <<>>]

\* chunkwise_evaluate, fanout_node_bounded, metadata_drain_node: one message
\* at a time.  Without any input chunkwise_evaluate evaluates an empty chunk.
RecvOne(a) ==
    /\ pc[a] = "recv" /\ Kind(a) \in {"map", "bounded", "sink"}
    /\ LET c == In(a)[1]
       IN  \/ /\ queue[c] # <<>>
              /\ Received(a, 1, Head(queue[c]))
              /\ IF Kind(a) = "sink"
                 THEN result' = Append(result, Head(queue[c]))
                      /\ UNCHANGED <<pc, loc>>
                 ELSE /\ loc' = [loc EXCEPT ![a].hold[1] = <<Head(queue[c])>>,
                                            ![a].count = 1, ![a].at = 1]
                      /\ Goto(a, "send")
                      /\ UNCHANGED result
           \/ /\ Ended(c) /\ Kind(a) = "sink"
              /\ End(a)
              /\ UNCHANGED <<netVars, loc, fan, lin, result, failures>>
           \/ /\ Ended(c) /\ Kind(a) # "sink"
              /\ IF Kind(a) = "map" /\ loc[a].count = 0
                 THEN loc' = [loc EXCEPT ![a].hold[1] = <<Empty>>,
                                         ![a].count = 1]
                      /\ Goto(a, "send")
                 ELSE Goto(a, "drain") /\ UNCHANGED loc
              /\ UNCHANGED <<netVars, chanVars, fan, lin, result, failures>>

\* concatenate_node with one output chunk: all input is collected.
RecvAll(a) ==
    /\ pc[a] = "recv" /\ Kind(a) = "reduce"
    /\ LET c == In(a)[1]
       IN  \/ /\ queue[c] # <<>>
              /\ Received(a, 1, Head(queue[c]))
              /\ loc' = [loc EXCEPT ![a].hold[1] = Append(@, Head(queue[c]))]
              /\ UNCHANGED <<pc, result>>
           \/ /\ Ended(c)
              /\ Goto(a, IF loc[a].hold[1] = <<>> THEN "drain" ELSE "send")
              /\ UNCHANGED <<netVars, chanVars, loc, fan, lin, result,
                             failures>>

\* default_node_multi: a round receives from every child that has not
\* finished; a finished child keeps its last chunk, or an empty one.
RecvRound(a) ==
    /\ pc[a] = "recv" /\ Kind(a) = "zip"
    /\ LET j == loc[a].at
           c == In(a)[j]
           Advance(l) ==
             IF j < Len(In(a))
             THEN loc' = [loc EXCEPT ![a] = [l EXCEPT !.at = j + 1]]
                  /\ UNCHANGED pc
             ELSE /\ loc' = [loc EXCEPT ![a] =
                        [l EXCEPT !.at = 1,
                                  !.hold = [i \in DOMAIN @ |->
                                    IF @[i] = <<>> THEN <<Empty>> ELSE @[i]]]]
                  /\ Goto(a, IF l.finished = DOMAIN In(a) THEN "drain"
                             ELSE "send")
       IN  \/ /\ j \in loc[a].finished
              /\ Advance(loc[a])
              /\ UNCHANGED <<netVars, chanVars, fan, lin, result, failures>>
           \/ /\ j \notin loc[a].finished /\ queue[c] # <<>>
              /\ Received(a, j, Head(queue[c]))
              /\ Advance([loc[a] EXCEPT !.hold[j] = <<Head(queue[c])>>])
              /\ UNCHANGED result
           \/ /\ j \notin loc[a].finished /\ Ended(c)
              /\ Advance([loc[a] EXCEPT !.finished = @ \cup {j}])
              /\ UNCHANGED <<netVars, chanVars, fan, lin, result, failures>>

\* _passthrough_union: one child after the other, its sequence numbers moved
\* behind those of the children before it.
RecvSequential(a) ==
    /\ pc[a] = "recv" /\ Kind(a) = "union"
    /\ LET j == loc[a].at
           c == In(a)[j]
       IN  \/ /\ queue[c] # <<>>
              /\ Received(a, j, Head(queue[c]))
              /\ loc' = [loc EXCEPT ![a].hold[j] = <<Head(queue[c])>>]
              /\ Goto(a, "send")
              /\ UNCHANGED result
           \/ /\ Ended(c)
              /\ IF j < Len(In(a))
                 THEN loc' = [loc EXCEPT ![a].at = j + 1,
                                         ![a].base = @ + loc[a].count,
                                         ![a].count = 0]
                      /\ UNCHANGED pc
                 ELSE Goto(a, "drain") /\ UNCHANGED loc
              /\ UNCHANGED <<netVars, chanVars, fan, lin, result, failures>>

-----------------------------------------------------------------------------
(* Sending *)

\* The columns or rows of several chunks in one.
Combined(ms) == FlattenSeq([j \in DOMAIN ms |-> ms[j].data])
FirstOf(hold) == [j \in DOMAIN hold |-> hold[j][1]]

\* The message an actor sends next, from its local variables.
Output(a, l) ==
    CASE Kind(a) = "source" -> [seq |-> l.count,
                                data |-> <<<<a[2], l.count>>>>]
      [] Kind(a) = "reduce" -> [seq |-> 0, data |-> Combined(l.hold[1])]
      [] Kind(a) = "zip" -> [seq |-> l.count,
                             data |-> Combined(FirstOf(l.hold))]
      [] Kind(a) = "union" -> [seq |-> l.hold[l.at][1].seq + l.base,
                               data |-> l.hold[l.at][1].data]
      [] OTHER -> l.hold[1][1]

\* Where an actor continues after a message has been sent on output k.
AfterSend(a, k) ==
    LET l == loc[a]
    IN  CASE Kind(a) = "source" ->
                loc' = [loc EXCEPT ![a].count = @ + 1]
                /\ Goto(a, IF l.count + 1 = plan.chunks[a[2]] THEN "drain"
                           ELSE "send")
          [] Kind(a) = "reduce" -> Goto(a, "drain") /\ UNCHANGED loc
          [] Kind(a) \in {"zip", "union"} ->
                loc' = [loc EXCEPT ![a].count = @ + 1] /\ Goto(a, "recv")
          [] Kind(a) = "map" -> Goto(a, "recv") /\ UNCHANGED loc
          [] Kind(a) = "bounded" ->
                IF k < Len(Out(a))
                THEN loc' = [loc EXCEPT ![a].at = k + 1] /\ UNCHANGED pc
                ELSE Goto(a, "recv") /\ UNCHANGED loc

SendNext(a) ==
    /\ pc[a] = "send"
    /\ LET k == IF Kind(a) = "bounded" THEN loc[a].at ELSE 1
       IN  Send(Out(a)[k], Output(a, loc[a])) /\ AfterSend(a, k)
    /\ UNCHANGED <<netVars, shut, md, fan, lin, result, failures>>

\* Mutant: outputs are shut while they hold messages.
DrainAtOnce(a) ==
    /\ pc[a] = "drain"
    /\ \E c \in Range(Out(a)) :
        \/ /\ Range(Out(a)) \ {c} \subseteq shut
           /\ End(a)
        \/ /\ ~(Range(Out(a)) \ {c} \subseteq shut) /\ c \notin shut
           /\ shut' = shut \cup {c}
           /\ UNCHANGED <<queue, md, pc>>
    /\ UNCHANGED <<netVars, loc, fan, lin, result, failures>>

\* Every output is shut once it is empty, then the actor ends.
Drain(a) ==
    /\ pc[a] = "drain"
    /\ \E c \in Range(Out(a)) :
        /\ queue[c] = <<>>
        /\ \/ /\ Range(Out(a)) \ {c} \subseteq shut
              /\ End(a)
           \/ /\ ~(Range(Out(a)) \ {c} \subseteq shut) /\ c \notin shut
              /\ shut' = shut \cup {c}
              /\ UNCHANGED <<queue, md, pc>>
    /\ UNCHANGED <<netVars, loc, fan, lin, result, failures>>

-----------------------------------------------------------------------------
(* fanout_node_unbounded *)

\* The receive task takes a message as soon as there is one, whether or not
\* the main loop waits for the task.
ReceiveTask(a) ==
    /\ pc[a] = "loop" /\ fan[a[2]].recv = "wait"
    /\ LET c == <<a[2], 0>>
       IN  \/ /\ queue[c] # <<>>
              /\ fan' = [fan EXCEPT ![a[2]].recv = "msg",
                                    ![a[2]].prefetched = <<Head(queue[c])>>]
              /\ queue' = [queue EXCEPT ![c] = Tail(@)]
           \/ /\ Ended(c)
              /\ fan' = [fan EXCEPT ![a[2]].recv = "eof"]
              /\ UNCHANGED queue
    /\ UNCHANGED <<netVars, shut, md, pc, loc, lin, result, failures>>

\* send_one_from_buffer and drain_output
OutputTask(a) ==
    /\ pc[a] = "loop"
    /\ \E k \in DOMAIN Out(a) :
        \/ /\ fan[a[2]].task[k] = "send"
           /\ Send(Out(a)[k], Head(fan[a[2]].buffer[k]))
           /\ fan' = [fan EXCEPT ![a[2]].task[k] = "done",
                                 ![a[2]].buffer[k] = Tail(@)]
           /\ UNCHANGED shut
        \/ /\ fan[a[2]].task[k] = "drain" /\ queue[Out(a)[k]] = <<>>
           /\ shut' = shut \cup {Out(a)[k]}
           /\ fan' = [fan EXCEPT ![a[2]].task[k] = "done"]
           /\ UNCHANGED queue
    /\ UNCHANGED <<netVars, md, pc, loc, lin, result, failures>>

\* One round of the main loop, which handles all tasks that are done, in any
\* order: a receive stops receiving, a completed send or drain resumes it.
HandleDone(f, receiving, canReceive) ==
    LET got == receiving /\ f.recv = "msg"
        eof == receiving /\ f.recv = "eof"
    IN  [f EXCEPT
            !.recv = IF got THEN "wait" ELSE IF eof THEN "none" ELSE @,
            !.prefetched = IF got THEN <<>> ELSE @,
            !.needsDrain = IF eof THEN DOMAIN f.task ELSE @,
            !.canReceive = canReceive,
            !.buffer = [k \in DOMAIN @ |->
                            IF got THEN @[k] \o f.prefetched ELSE @[k]],
            !.task = [k \in DOMAIN @ |->
                            IF @[k] = "done" THEN "none" ELSE @[k]]]

\* The tasks started at the top of the next round.
StartTasks(f) ==
    LET idle == {k \in DOMAIN f.task : f.task[k] = "none"}
        sends == {k \in idle : f.buffer[k] # <<>>}
        drains == (idle \ sends) \cap f.needsDrain
    IN  [f EXCEPT
            !.task = [k \in DOMAIN @ |-> IF k \in sends THEN "send"
                                         ELSE IF k \in drains THEN "drain"
                                         ELSE @[k]],
            !.needsDrain = @ \ drains]

MainLoop(a) ==
    /\ pc[a] = "loop"
    /\ LET f == fan[a[2]]
           receiving == f.canReceive /\ f.recv \in {"msg", "eof"}
           completed == \E k \in DOMAIN f.task : f.task[k] = "done"
       IN  /\ receiving \/ completed
           /\ \E canReceive \in BOOLEAN :
                /\ canReceive =>
                    completed \/ (f.canReceive
                                  /\ ~(receiving /\ f.recv = "msg"))
                /\ ~canReceive => (receiving /\ f.recv = "msg")
                                    \/ (~completed /\ ~f.canReceive)
                /\ fan' = [fan EXCEPT ![a[2]] =
                            StartTasks(HandleDone(f, receiving, canReceive))]
    /\ LET g == fan'[a[2]]
       IN  IF /\ g.recv = "none" /\ g.needsDrain = {}
              /\ \A k \in DOMAIN g.task :
                    g.task[k] = "none" /\ g.buffer[k] = <<>>
           THEN End(a)
           ELSE UNCHANGED <<chanVars, pc>>
    /\ UNCHANGED <<netVars, loc, lin, result, failures>>

-----------------------------------------------------------------------------
(* dataframescan_node with several producers, and its Lineariser *)

\* A producer waits for its slot, reads its next chunk and sends it; a chunk
\* is in inbox until the receive task of the Lineariser has been handled.
Produce(a) ==
    LET s == lin[a[2]]
        n == Len(s.producer)
    IN  /\ pc[a] \in {"forward", "wait"}
        /\ \E i \in 1..n :
            \/ /\ s.producer[i] = "acquire" /\ s.slot[i]
               /\ lin' = [lin EXCEPT ![a[2]].producer[i] = "read",
                                     ![a[2]].slot[i] = FALSE]
            \/ /\ s.producer[i] = "read" /\ Len(s.inbox[i]) < Capacity
               /\ lin' = [lin EXCEPT
                    ![a[2]].inbox[i] =
                        Append(@, [seq |-> s.next[i],
                                   data |-> <<<<a[2], s.next[i]>>>>]),
                    ![a[2]].next[i] = @ + n,
                    ![a[2]].producer[i] =
                        IF s.next[i] + n < plan.chunks[a[2]] THEN "acquire"
                        ELSE "drain"]
            \/ /\ s.producer[i] = "drain" /\ s.inbox[i] = <<>>
               /\ lin' = [lin EXCEPT ![a[2]].producer[i] = "done"]
        /\ UNCHANGED <<netVars, chanVars, pc, loc, fan, result, failures>>

\* Mutant: a producer is released as soon as its message is buffered.
CollectReleases(a) ==
    LET s == lin[a[2]]
        done == {i \in s.pending : s.inbox[i] # <<>>}
    IN  /\ pc[a] = "wait" /\ done # {}
        /\ lin' = [lin EXCEPT ![a[2]] =
                [s EXCEPT
                    !.buffer = @ \cup {Head(s.inbox[i]) : i \in done},
                    !.slot = [i \in DOMAIN @ |-> i \in done \/ @[i]],
                    !.inbox = [i \in DOMAIN @ |->
                        IF i \in done THEN Tail(@[i]) ELSE @[i]]]]
        /\ Goto(a, "forward")
        /\ UNCHANGED <<netVars, chanVars, loc, fan, result, failures>>

\* The receive tasks that are done have their messages buffered.
Collect(a) ==
    LET s == lin[a[2]]
        done == {i \in s.pending :
                    s.inbox[i] # <<>> \/ s.producer[i] = "done"}
    IN  /\ pc[a] = "wait" /\ done # {}
        /\ lin' = [lin EXCEPT ![a[2]] =
                [s EXCEPT
                    !.pending = @ \ done,
                    !.buffer = @ \cup UNION {{Head(s.inbox[i])} :
                        i \in {j \in done : s.inbox[j] # <<>>}},
                    !.inbox = [i \in DOMAIN @ |->
                        IF i \in done /\ @[i] # <<>> THEN Tail(@[i])
                        ELSE @[i]]]]
        /\ Goto(a, "forward")
        /\ UNCHANGED <<netVars, chanVars, loc, fan, result, failures>>

\* The producer whose message has sequence number k.
ProducerOf(s, k) == (k % Len(s.producer)) + 1

\* Mutant: messages are forwarded as they come.
ForwardUnordered(a) ==
    LET s == lin[a[2]]
    IN  /\ pc[a] = "forward"
        /\ \/ \E m \in s.buffer :
                /\ Send(<<a[2], 0>>, m)
                /\ LET i == ProducerOf(s, m.seq)
                   IN  lin' = [lin EXCEPT
                            ![a[2]].buffer = @ \ {m},
                            ![a[2]].slot[i] = TRUE,
                            ![a[2]].pending = @ \cup {i},
                            ![a[2]].nextSeq = @ + 1]
                /\ UNCHANGED pc
           \/ /\ s.buffer = {} /\ s.pending # {}
              /\ Goto(a, "wait")
              /\ UNCHANGED <<queue, lin>>
           \/ /\ s.buffer = {} /\ s.pending = {}
              /\ Goto(a, "drain")
              /\ UNCHANGED <<queue, lin>>
        /\ UNCHANGED <<netVars, shut, md, loc, fan, result, failures>>

\* Consecutive messages are forwarded, each releasing its producer; what is
\* left when all producers have finished is forwarded in order.
Forward(a) ==
    LET s == lin[a[2]]
        ready == {m \in s.buffer :
                    \/ m.seq = s.nextSeq
                    \/ s.pending = {}
                       /\ \A o \in s.buffer : m.seq <= o.seq}
    IN  /\ pc[a] = "forward"
        /\ \/ \E m \in ready :
                /\ Send(<<a[2], 0>>, m)
                /\ LET i == ProducerOf(s, m.seq)
                   IN  lin' = [lin EXCEPT
                            ![a[2]].buffer = @ \ {m},
                            ![a[2]].slot[i] = TRUE,
                            ![a[2]].pending = @ \cup {i},
                            ![a[2]].nextSeq = @ + 1]
                /\ UNCHANGED pc
           \/ /\ ready = {} /\ s.pending # {}
              /\ Goto(a, "wait")
              /\ UNCHANGED <<queue, lin>>
           \/ /\ s.buffer = {} /\ s.pending = {}
              /\ Goto(a, "drain")
              /\ UNCHANGED <<queue, lin>>
        /\ UNCHANGED <<netVars, shut, md, loc, fan, result, failures>>

-----------------------------------------------------------------------------
Step(a) ==
    \/ RecvMetadata(a) \/ SendMetadata(a) \/ DrainMetadata(a)
    \/ RecvOne(a) \/ RecvAll(a) \/ RecvRound(a) \/ RecvSequential(a)
    \/ SendNext(a) \/ Drain(a)
    \/ MainLoop(a) \/ Collect(a) \/ Forward(a)

\* The steps of tasks that an actor has started.
TaskStep(a) == ReceiveTask(a) \/ OutputTask(a) \/ Produce(a)

Next == \E a \in Actors : Step(a) \/ TaskStep(a) \/ Fail(a)

Spec == Init /\ [][Next]_vars

\* The event loop runs whatever can go on.
FairSpec == Spec /\ WF_vars(\E a \in Actors : Step(a) \/ TaskStep(a))

-----------------------------------------------------------------------------
(* Properties *)

\* Actors are at steps of their kind, channels hold at most Capacity
\* messages and a channel that is shut holds none.
TypeOK ==
    /\ fanout \in [Nodes -> {"none", "bounded", "unbounded"}]
    /\ shut \subseteq DOMAIN queue
    /\ \A c \in DOMAIN queue :
        /\ Len(queue[c]) <= Capacity
        /\ c \in shut => queue[c] = <<>>
        /\ md[c] \in {"none", "sent", "taken", "shut"}
    /\ \A a \in Actors :
        pc[a] \in {"recv metadata", "send metadata", "drain metadata", "drain",
                   "done"} \cup
            CASE Kind(a) = "source" -> {"send"}
              [] Kind(a) = "scan" -> {"forward", "wait"}
              [] Kind(a) = "unbounded" -> {"loop"}
              [] Kind(a) = "sink" -> {"recv"}
              [] OTHER -> {"recv", "send"}

\* The chunks of a node, from those of its children, without channels.
NodeValue(p, n, of) ==
    LET Longest == CHOOSE l \in {Len(of[j]) : j \in DOMAIN of} :
                        \A j \in DOMAIN of : Len(of[j]) <= l
        Column(j, k) == IF of[j] = <<>> THEN <<>>
                        ELSE IF k <= Len(of[j]) THEN of[j][k]
                        ELSE Last(of[j])
    IN  CASE p.kind[n] \in {"source", "scan"} ->
                [i \in 1..p.chunks[n] |-> <<<<n, i - 1>>>>]
          [] p.kind[n] = "map" -> IF of[1] = <<>> THEN <<<<>>>> ELSE of[1]
          [] p.kind[n] = "reduce" ->
                IF of[1] = <<>> THEN <<>> ELSE <<FlattenSeq(of[1])>>
          [] p.kind[n] = "zip" ->
                [k \in 1..Longest |->
                    FlattenSeq([j \in DOMAIN of |-> Column(j, k)])]
          [] p.kind[n] = "union" -> FlattenSeq(of)

Values(p) ==
    LET val[n \in 1..Len(p.kind)] ==
            NodeValue(p, n, [j \in DOMAIN p.args[n] |-> val[p.args[n][j]]])
    IN  val

\* The chunks of the plan.
Expected(p) == Values(p)[Len(p.kind)]

\* Unless an actor raises, the network delivers the chunks of the plan in
\* order and numbered without gaps, and all of them by the time it stops.
ResultCorrect ==
    failures = {} =>
        /\ Len(result) <= Len(Expected(plan))
        /\ \A k \in DOMAIN result :
            result[k] = [seq |-> k - 1, data |-> Expected(plan)[k]]
        /\ pc[<<"sink", Root>>] = "done" =>
            Len(result) = Len(Expected(plan))

\* "bounds each producer to one in-flight message": the chunks a producer has
\* read, or is reading, and the Lineariser has not forwarded.
OneInFlight ==
    \A n \in Nodes : \A i \in DOMAIN lin[n].producer :
        LET s == lin[n]
        IN  Len(s.inbox[i])
              + Cardinality({m \in s.buffer : ProducerOf(s, m.seq) = i})
              + (IF s.producer[i] = "read" THEN 1 ELSE 0) <= 1

\* Every actor ends, whichever consumers share a node and in whatever order
\* they read, and also when an actor has raised: no send waits for a consumer
\* that waits for another output of the same fanout.
Terminates == <>(\A a \in Actors : pc[a] = "done")

=============================================================================
