------------------------- MODULE ActorNetworkProofs -------------------------
(***************************************************************************)
(* Proofs about ActorNetwork, for every plan, any capacity of the channels *)
(* and any number of producers: actors stay at their steps, a producer has *)
(* one chunk in flight, and the result has the chunks of the plan.         *)
(***************************************************************************)
EXTENDS ActorNetworkLemmas

-----------------------------------------------------------------------------
(* The steps of the actors *)

\* How an actor is shown to have made what it has to make.
LEMMA MakesAfter ==
    ASSUME UNCHANGED netVars, NEW a, NEW r, NEW t,
           AllMake(plan, a[2], From(a), pc'[a], loc'[a], r, t)
    PROVE  /\ Kind(a) = "source" =>
                (SourceMakes(plan, a[2], pc'[a], loc'[a], t) => Makes(a, r, t)')
           /\ Kind(a) = "scan" =>
                (/\ InOrder(plan, a[2], lin'[a[2]]) /\ lin'[a[2]].nextSeq = t[1]
                 => Makes(a, r, t)')
           /\ Kind(a) = "map" =>
                (MapMakes(plan, a[2], pc'[a], loc'[a], r, t) => Makes(a, r, t)')
           /\ Kind(a) = "reduce" =>
                (ReduceMakes(plan, a[2], pc'[a], loc'[a], r, t)
                 => Makes(a, r, t)')
           /\ Kind(a) = "zip" =>
                (ZipMakes(plan, a[2], pc'[a], loc'[a], r, t) => Makes(a, r, t)')
           /\ Kind(a) = "union" =>
                (UnionMakes(plan, a[2], pc'[a], loc'[a], r, t)
                 => Makes(a, r, t)')
           /\ Kind(a) = "bounded" =>
                (BoundedMakes(plan, a[2], pc'[a], loc'[a], r, t)
                 => Makes(a, r, t)')
           /\ Kind(a) = "unbounded" =>
                (UnboundedMakes(plan, a[2], pc'[a], fan'[a[2]], r, t, Closed(a)')
                 => Makes(a, r, t)')
           /\ Kind(a) = "sink" =>
                (SinkMakes(plan, pc'[a], r, result') => Makes(a, r, t)')
<1>1. Kind(a)' = Kind(a) /\ From(a)' = From(a) /\ plan' = plan
  BY EndsStay DEF netVars
<1>. QED
  BY <1>1 DEF Makes

\* Actor a takes a step of its own in a network with history h, in which it has
\* taken r and sent t.
Moves(a, h, r, t) ==
    /\ a \in Actors /\ OwnStep(a)
    /\ Generated /\ ChannelState /\ ActorState /\ Linearisers /\ Locals
    /\ MetadataFlows /\ History(h)
    /\ r = Taken(a, h) /\ t = Sent(a, h)

\* What is known of the actor.
LEMMA MoverFacts ==
    ASSUME NEW a, NEW h, NEW r, NEW t, Moves(a, h, r, t)
    PROVE  /\ plan \in Plans /\ a[2] \in 1..Len(plan.kind)
           /\ Kind(a) \in NodeKinds \cup {"bounded", "unbounded", "sink"}
           /\ pc[a] \in StepsOf(Kind(a))
           /\ Kind(a) \in NodeKinds =>
                /\ plan.kind[a[2]] = Kind(a)
                /\ Len(In(a)) = Len(plan.args[a[2]])
                /\ \A j \in DOMAIN In(a) : From(a)[j] = plan.args[a[2]][j]
                /\ Len(Out(a)) = 1
           /\ Kind(a) \notin NodeKinds => Len(In(a)) = 1 /\ From(a)[1] = a[2]
           /\ Len(In(a)) \in Nat /\ DOMAIN In(a) = 1..Len(In(a))
           /\ Len(Out(a)) \in Nat /\ DOMAIN Out(a) = 1..Len(Out(a))
           /\ Len(From(a)) = Len(In(a))
           /\ r \in [1..Len(In(a)) -> Nat] /\ t \in [1..Len(Out(a)) -> Nat]
           /\ \A j \in 1..Len(In(a)) : /\ r[j] <= Size(plan, From(a)[j])
                                       /\ Size(plan, From(a)[j]) \in Nat
           /\ \A k \in 1..Len(Out(a)) : t[k] <= Size(plan, a[2])
           /\ Size(plan, a[2]) \in Nat
           /\ Makes(a, r, t)
           /\ AllMake(plan, a[2], From(a), pc[a], loc[a], r, t)
<1>1. /\ a \in Actors /\ Generated /\ ChannelState /\ ActorState
      /\ ChannelsCarry(h) /\ History(h) /\ r = Taken(a, h) /\ t = Sent(a, h)
  BY DEF Moves, History
<1>2. plan \in Plans /\ a[2] \in 1..Len(plan.kind)
  BY <1>1, Sorts DEF Generated, Nodes
<1>3. /\ Len(In(a)) \in Nat /\ DOMAIN In(a) = 1..Len(In(a))
      /\ Len(Out(a)) \in Nat /\ DOMAIN Out(a) = 1..Len(Out(a))
      /\ Kind(a) \in NodeKinds =>
            /\ plan.kind[a[2]] = Kind(a)
            /\ Len(In(a)) = Len(plan.args[a[2]])
            /\ \A j \in DOMAIN In(a) : In(a)[j][1] = plan.args[a[2]][j]
            /\ Len(Out(a)) = 1
      /\ Kind(a) \notin NodeKinds => Len(In(a)) = 1 /\ In(a)[1] = <<a[2], 0>>
  BY <1>1, Ends
<1>4. From(a) = [j \in 1..Len(In(a)) |-> In(a)[j][1]]
  BY <1>3 DEF From
<1>5. /\ Len(From(a)) = Len(In(a))
      /\ \A j \in 1..Len(In(a)) : From(a)[j] = In(a)[j][1]
  BY <1>3, <1>4
<1>6. Kind(a) \notin NodeKinds => From(a)[1] = a[2]
  BY <1>3, <1>5
<1>7. /\ r \in [1..Len(In(a)) -> Nat] /\ t \in [1..Len(Out(a)) -> Nat]
      /\ \A j \in 1..Len(In(a)) : /\ r[j] <= Size(plan, From(a)[j])
                                  /\ Size(plan, From(a)[j]) \in Nat
      /\ \A k \in 1..Len(Out(a)) : t[k] <= Size(plan, a[2])
      /\ Size(plan, a[2]) \in Nat
  BY <1>1, <1>3, Counts
<1>8. Makes(a, r, t)
  BY <1>1 DEF History
<1>9. AllMake(plan, a[2], From(a), pc[a], loc[a], r, t)
  BY <1>8 DEF Makes
<1>10. /\ Kind(a) \in NodeKinds \cup {"bounded", "unbounded", "sink"}
       /\ pc[a] \in StepsOf(Kind(a))
  <2>1. Kind(a) \in NodeKinds \/ Kind(a) = "sink"
        \/ (Kind(a) = fanout[a[2]] /\ fanout[a[2]] # "none")
    BY <1>1, Sorts
  <2>2. fanout[a[2]] \in {"none", "bounded", "unbounded"}
    BY <1>1, <1>2, FanoutFacts DEF Nodes
  <2>. QED
    BY <1>1, <2>1, <2>2 DEF ActorState
<1>. QED
  BY <1>2, <1>3, <1>5, <1>6, <1>7, <1>8, <1>9, <1>10

\* A step that does nothing to the channels.
LEMMA StepQuiet ==
    ASSUME NEW a, NEW h, NEW r, NEW t, Moves(a, h, r, t), UNCHANGED chanVars,
           pc[a] \notin Early, pc'[a] \notin Early, Makes(a, r, t)'
    PROVE  MetadataFlows' /\ History(h)'
<1>1. /\ a \in Actors /\ OwnStep(a) /\ Generated /\ ChannelState
      /\ MetadataFlows /\ History(h) /\ r = Taken(a, h) /\ t = Sent(a, h)
  BY DEF Moves
<1>2. queue' = queue /\ shut' = shut /\ md' = md
  BY DEF chanVars
<1>3. MetadataFlows'
  BY <1>1, <1>2, MetadataStays
<1>4. History(h)'
  BY <1>1, <1>2, MoveQuiet
<1>. QED
  BY <1>3, <1>4

\* A step that sends.
LEMMA StepSend ==
    ASSUME NEW a, NEW h, NEW r, NEW t, Moves(a, h, r, t),
           pc[a] \notin Early, pc'[a] \notin Early,
           NEW k \in DOMAIN Out(a), t[k] < Size(plan, a[2]), NEW m,
           m = Message(plan, a[2], t[k] + 1), Send(Out(a)[k], m),
           shut' = shut, md' = md, Makes(a, r, [t EXCEPT ![k] = @ + 1])'
    PROVE  MetadataFlows' /\ History(h)'
<1>1. /\ a \in Actors /\ OwnStep(a) /\ Generated /\ ChannelState
      /\ MetadataFlows /\ History(h) /\ r = Taken(a, h) /\ t = Sent(a, h)
  BY DEF Moves
<1>2. MetadataFlows'
  BY <1>1, MetadataStays
<1>3. Send(Out(a)[k], Message(plan, a[2], t[k] + 1))
  OBVIOUS
<1>4. History(h)'
  BY <1>1, <1>3, MoveSend
<1>. QED
  BY <1>2, <1>4

\* A step that receives.
LEMMA StepReceive ==
    ASSUME NEW a, NEW h, NEW r, NEW t, Moves(a, h, r, t),
           pc[a] \notin Early, pc'[a] \notin Early,
           NEW j \in DOMAIN In(a), queue[In(a)[j]] # <<>>,
           queue' = [queue EXCEPT ![In(a)[j]] = Tail(@)],
           shut' = shut, md' = md, Makes(a, [r EXCEPT ![j] = @ + 1], t)'
    PROVE  MetadataFlows' /\ \E g : History(g)'
<1>1. /\ a \in Actors /\ OwnStep(a) /\ Generated /\ ChannelState
      /\ MetadataFlows /\ History(h) /\ r = Taken(a, h) /\ t = Sent(a, h)
  BY DEF Moves
<1>2. MetadataFlows'
  BY <1>1, MetadataStays
<1>3. \E g : History(g)'
  BY <1>1, MoveReceive
<1>. QED
  BY <1>2, <1>3

\* What is there to be received.
LEMMA Receives ==
    ASSUME NEW a, NEW h, NEW r, NEW t, Moves(a, h, r, t), NEW j \in DOMAIN In(a)
    PROVE  /\ queue[In(a)[j]] # <<>> =>
                /\ Head(queue[In(a)[j]]) = Message(plan, From(a)[j], r[j] + 1)
                /\ r[j] < Size(plan, From(a)[j])
           /\ Ended(In(a)[j]) => r[j] = Size(plan, From(a)[j])
<1>1. /\ a \in Actors /\ Generated /\ ChannelState /\ ChannelsCarry(h)
      /\ r = Taken(a, h)
  BY DEF Moves, History
<1>2. queue[In(a)[j]] # <<>> =>
        /\ Head(queue[In(a)[j]]) = Message(plan, From(a)[j], r[j] + 1)
        /\ r[j] < Size(plan, From(a)[j])
  BY <1>1, HeadMessage
<1>3. Ended(In(a)[j]) => r[j] = Size(plan, From(a)[j])
  BY <1>1, EndedInput
<1>. QED
  BY <1>2, <1>3

\* An actor that has taken and sent everything ends.
LEMMA StepEnd ==
    ASSUME NEW a, NEW h, NEW r, NEW t, Moves(a, h, r, t), pc[a] \notin Early,
           End(a), \A j \in DOMAIN In(a) : r[j] = Size(plan, From(a)[j]),
           \A k \in DOMAIN Out(a) : /\ t[k] = Size(plan, a[2])
                                    /\ queue[Out(a)[k]] = <<>>,
           Makes(a, r, t)'
    PROVE  MetadataFlows' /\ History(h)'
<1>1. /\ a \in Actors /\ OwnStep(a) /\ Generated /\ ChannelState /\ ActorState
      /\ MetadataFlows /\ History(h) /\ ChannelsCarry(h)
      /\ r = Taken(a, h) /\ t = Sent(a, h)
  BY DEF Moves, History
<1>2. ShutDown(Chans(a)) /\ pc'[a] = "done"
  BY <1>1 DEF End, Goto, ActorState
<1>3. md' = md
  BY <1>1, <1>2, EndMetadata
<1>4. "done" \notin Early
  BY DEF Early
<1>5. MetadataFlows'
  BY <1>1, <1>2, <1>3, <1>4, MetadataStays
<1>6. ASSUME NEW j \in DOMAIN In(a), NEW c, c = In(a)[j]
      PROVE  queue[c] = <<>> /\ h[c] + Len(queue[c]) = Size(plan, c[1])
  <2>1. c \in Channels /\ From(a)[j] = c[1]
    BY <1>1, <1>6, Ends DEF From
  <2>2. h[c] = Size(plan, c[1])
    BY <1>1, <1>6, <2>1 DEF Taken
  <2>3. /\ h[c] \in Nat /\ h[c] + Len(queue[c]) <= Size(plan, c[1])
        /\ IsSequence(queue[c]) /\ Len(queue[c]) \in Nat
    BY <1>1, <2>1, ShortSequences DEF ChannelsCarry, ChannelState
  <2>4. Len(queue[c]) = 0
    BY <2>2, <2>3
  <2>5. h[c] + 0 = h[c]
    BY <2>3
  <2>. QED
    BY <2>2, <2>3, <2>4, <2>5, ShortSequences
<1>7. ASSUME NEW k \in DOMAIN Out(a), NEW c, c = Out(a)[k]
      PROVE  queue[c] = <<>> /\ h[c] + Len(queue[c]) = Size(plan, c[1])
  <2>1. c[1] = a[2] /\ t[k] = h[c] + Len(queue[c])
    BY <1>1, <1>7, Ends DEF Sent
  <2>. QED
    BY <1>7, <2>1
<1>8. \A c \in Chans(a) : /\ queue[c] = <<>>
                          /\ h[c] + Len(queue[c]) = Size(plan, c[1])
  BY <1>6, <1>7 DEF Chans, Range
<1>9. queue' = queue /\ shut' = shut \cup Chans(a)
  <2>1. DOMAIN queue = Channels /\ queue = [c \in Channels |-> queue[c]]
    BY <1>1 DEF ChannelState
  <2>. QED
    BY <1>2, <1>8, <2>1 DEF ShutDown
<1>10. \A c \in Channels : c \in shut' =>
            c \in shut \/ h[c] + Len(queue[c]) = Size(plan, c[1])
  BY <1>8, <1>9
<1>11. History(h)'
  BY <1>1, <1>9, <1>10, MoveQuiet
<1>. QED
  BY <1>5, <1>11

\* What all actors have in common, for an actor that is in its loop, at the
\* end of it and when it has ended.
LEMMA AllMakeFacts ==
    ASSUME NEW p, NEW n, NEW from, NEW x, NEW l, NEW r, NEW t, x \notin Early,
           HasLocals(l, DOMAIN r)
    PROVE  /\ x # "drain" => AllMake(p, n, from, x, l, r, t)
           /\ /\ \A j \in DOMAIN r : r[j] = Size(p, from[j])
              /\ \A k \in DOMAIN t : t[k] = Size(p, n)
              => AllMake(p, n, from, x, l, r, t)
BY DEF AllMake

\* Nothing is made before the first chunk.
LEMMA EarlyMakes ==
    ASSUME NEW a, NEW h, NEW r, NEW t, Moves(a, h, r, t), pc[a] \in Early,
           UNCHANGED <<loc, fan, lin, result>>,
           pc'[a] \in Early \/ (Kind(a) = "sink" /\ pc'[a] = "recv")
    PROVE  Makes(a, r, t)'
<1>1. UNCHANGED netVars
  BY DEF Moves, OwnStep
<1>2. Makes(a, r, t) /\ AllMake(plan, a[2], From(a), pc[a], loc[a], r, t)
      /\ Kind(a) \in NodeKinds \cup {"bounded", "unbounded", "sink"}
  BY MoverFacts
<1>3. AllMake(plan, a[2], From(a), pc'[a], loc'[a], r, t)
  BY <1>2 DEF AllMake, Early
<1>4. CASE Kind(a) = "sink"
  <2>1. SinkMakes(plan, pc[a], r, result) /\ pc'[a] # "done"
    BY <1>2, <1>4 DEF Makes, Early
  <2>2. SinkMakes(plan, pc'[a], r, result')
    BY <2>1 DEF SinkMakes
  <2>. QED
    BY <1>1, <1>3, <1>4, <2>2, MakesAfter
<1>5. CASE Kind(a) = "unbounded"
  <2>1. pc'[a] \in Early /\ pc'[a] # "loop"
    BY <1>5 DEF Early
  <2>2. fan[a[2]] = InitFanout(Len(t))
    BY <1>2, <1>5 DEF Makes, UnboundedMakes
  <2>3. UnboundedMakes(plan, a[2], pc'[a], fan'[a[2]], r, t, Closed(a)')
    BY <2>1, <2>2 DEF UnboundedMakes
  <2>. QED
    BY <1>1, <1>3, <1>5, <2>3, MakesAfter
<1>6. CASE Kind(a) = "scan"
  <2>1. InOrder(plan, a[2], lin[a[2]]) /\ lin[a[2]].nextSeq = t[1]
    BY <1>2, <1>6 DEF Makes
  <2>. QED
    BY <1>1, <1>3, <1>6, <2>1, MakesAfter
<1>7. CASE Kind(a) \in {"source", "map", "reduce", "zip", "union", "bounded"}
  <2>1. pc'[a] \notin {"recv", "send"}
    BY <1>7 DEF Early
  <2>2. /\ SourceMakes(plan, a[2], pc'[a], loc'[a], t)
        /\ MapMakes(plan, a[2], pc'[a], loc'[a], r, t)
        /\ ReduceMakes(plan, a[2], pc'[a], loc'[a], r, t)
        /\ ZipMakes(plan, a[2], pc'[a], loc'[a], r, t)
        /\ UnionMakes(plan, a[2], pc'[a], loc'[a], r, t)
        /\ BoundedMakes(plan, a[2], pc'[a], loc'[a], r, t)
    BY <2>1 DEF SourceMakes, MapMakes, ReduceMakes, ZipMakes, UnionMakes,
                BoundedMakes
  <2>. QED
    BY <1>1, <1>3, <1>7, <2>2, MakesAfter
<1>. QED
  BY <1>2, <1>4, <1>5, <1>6, <1>7 DEF NodeKinds

\* A step that moves metadata.
LEMMA StepMetadata ==
    ASSUME NEW a, NEW h, NEW r, NEW t, Moves(a, h, r, t),
           queue' = queue, shut' = shut, MetadataFlows', Makes(a, r, t)'
    PROVE  MetadataFlows' /\ History(h)'
<1>1. /\ a \in Actors /\ OwnStep(a) /\ Generated /\ ChannelState
      /\ History(h) /\ r = Taken(a, h) /\ t = Sent(a, h)
  BY DEF Moves
<1>2. History(h)'
  BY <1>1, MoveQuiet
<1>. QED
  BY <1>2

\* Metadata arrives on an input.
LEMMA RecvMetadataMoves ==
    ASSUME NEW a, NEW h, NEW r, NEW t, Moves(a, h, r, t), RecvMetadata(a)
    PROVE  MetadataFlows' /\ History(h)'
<1>1. /\ a \in Actors /\ OwnStep(a) /\ Generated /\ ChannelState /\ ActorState
      /\ MetadataFlows
  BY DEF Moves
<1>2. pc[a] = "recv metadata" /\ DOMAIN pc = Actors
  BY <1>1 DEF RecvMetadata, ActorState
<1>3. \A j \in DOMAIN In(a) : md[In(a)[j]] # "shut"
  BY <1>1, Ends DEF MetadataFlows
<1>4. PICK j \in DOMAIN In(a) :
        /\ md[In(a)[j]] = "sent"
        /\ md' = [md EXCEPT ![In(a)[j]] = "taken"]
        /\ IF \A k \in DOMAIN In(a) \ {j} : md[In(a)[k]] = "taken"
           THEN Goto(a, IF Kind(a) = "sink" THEN "recv" ELSE "send metadata")
           ELSE UNCHANGED pc
        /\ UNCHANGED <<netVars, queue, shut, loc, fan, lin, result, failures>>
  BY <1>3 DEF RecvMetadata
<1>5. \/ pc'[a] = "recv metadata"
      \/ /\ \A k \in DOMAIN In(a) \ {j} : md[In(a)[k]] = "taken"
         /\ \/ pc'[a] = "send metadata"
            \/ pc'[a] = "recv" /\ Kind(a) = "sink"
  <2>1. CASE \A k \in DOMAIN In(a) \ {j} : md[In(a)[k]] = "taken"
    BY <1>1, <1>2, <1>4, <2>1 DEF Goto
  <2>2. CASE ~\A k \in DOMAIN In(a) \ {j} : md[In(a)[k]] = "taken"
    BY <1>2, <1>4, <2>2
  <2>. QED
    BY <2>1, <2>2
<1>6. Kind(a) = "sink" => DOMAIN Out(a) = {}
  <2>1. ASSUME Kind(a) = "sink" PROVE Out(a) = <<>>
    BY <1>1, <2>1, KindNames DEF Out
  <2>. QED
    BY <2>1
<1>7. MetadataFlows'
  BY <1>1, <1>2, <1>4, <1>5, <1>6, TakesMetadata
<1>8. Makes(a, r, t)'
  BY <1>2, <1>4, <1>5, EarlyMakes DEF Early
<1>. QED
  BY <1>4, <1>7, <1>8, StepMetadata

\* Metadata is sent on all outputs.
LEMMA SendMetadataMoves ==
    ASSUME NEW a, NEW h, NEW r, NEW t, Moves(a, h, r, t), SendMetadata(a)
    PROVE  MetadataFlows' /\ History(h)'
<1>1. /\ a \in Actors /\ OwnStep(a) /\ Generated /\ ChannelState /\ ActorState
      /\ MetadataFlows
  BY DEF Moves
<1>2. pc[a] = "send metadata" /\ pc'[a] = "drain metadata"
      /\ UNCHANGED <<queue, shut, loc, fan, lin, result>>
  BY <1>1 DEF SendMetadata, ActorState, Goto
<1>3. MetadataFlows'
  BY <1>1, <1>2, SendsMetadata
<1>4. Makes(a, r, t)'
  BY <1>2, EarlyMakes DEF Early
<1>. QED
  BY <1>2, <1>3, <1>4, StepMetadata

\* What an actor of every kind starts with.
LEMMA StartMakes ==
    ASSUME NEW a, NEW h, NEW r, NEW t, Moves(a, h, r, t), pc[a] \in Early,
           UNCHANGED <<loc, fan, lin, result>>, pc'[a] = Start(a),
           Kind(a) # "sink"
    PROVE  Makes(a, r, t)'
<1>. DEFINE n == a[2]
            l == loc[a]
            m == Len(In(a))
<1>0. UNCHANGED netVars /\ loc' = loc /\ fan' = fan /\ lin' = lin
  BY DEF Moves, OwnStep
<1>1. /\ plan \in Plans /\ n \in 1..Len(plan.kind)
      /\ Kind(a) \in NodeKinds \cup {"bounded", "unbounded"}
      /\ m \in Nat /\ Len(Out(a)) \in Nat
      /\ r \in [1..m -> Nat] /\ t \in [1..Len(Out(a)) -> Nat]
      /\ Makes(a, r, t) /\ AllMake(plan, n, From(a), pc[a], l, r, t)
      /\ Len(From(a)) = m
  BY MoverFacts
<1>2. DOMAIN r = 1..m /\ DOMAIN t = 1..Len(Out(a))
  BY <1>1
<1>3. /\ HasLocals(l, 1..m) /\ \A j \in 1..m : r[j] = 0
      /\ \A k \in 1..Len(Out(a)) : t[k] = 0 /\ l = InitLocals(m)
  BY <1>1, <1>2 DEF AllMake
<1>4. /\ l = InitLocals(m) /\ l.at = 1 /\ l.base = 0 /\ l.count = 0
      /\ l.finished = {} /\ \A j \in 1..m : l.hold[j] = <<>>
  <2>1. l = InitLocals(m)
    BY <1>1 DEF AllMake
  <2>. QED
    BY <2>1 DEF InitLocals
<1>5. Start(a) \notin Early
  BY <1>1 DEF Start, Early, NodeKinds
<1>6. Kind(a) \in NodeKinds =>
        plan.kind[n] = Kind(a) /\ m = Len(plan.args[n]) /\ Len(Out(a)) = 1
        /\ \A j \in 1..m : From(a)[j] = plan.args[n][j]
  BY <1>1, <1>2, MoverFacts
<1>. HIDE DEF n, l, m
<1>6a. Kind(a) \in NodeKinds => t[1] = 0
  <2>1. 1 \in 1..1 /\ \A k \in 1..Len(Out(a)) : t[k] = 0
    BY <1>3
  <2>2. Kind(a) \in NodeKinds => 1 \in 1..Len(Out(a))
    BY <1>6, <2>1
  <2>. QED
    BY <2>1, <2>2
<1>6b. Kind(a) \in NodeKinds =>
        /\ Kind(a) \in {"source", "scan"} <=> m = 0
        /\ Kind(a) \in {"map", "reduce"} => m = 1
  <2>1. /\ plan.kind[n] \in {"source", "scan"} <=> Len(plan.args[n]) = 0
        /\ plan.kind[n] \in {"map", "reduce"} => Len(plan.args[n]) = 1
    BY <1>1, PlanFacts
  <2>. QED
    BY <1>6, <2>1
<1>7. CASE Kind(a) \in {"source", "scan"}
  <2>1. plan.kind[n] = Kind(a) /\ m = 0 /\ Size(plan, n) = plan.chunks[n]
        /\ t[1] = 0
    BY <1>1, <1>6, <1>6a, <1>6b, <1>7, SourceMessages DEF NodeKinds
  <2>2. pc'[a] = "drain" <=> plan.chunks[n] = 0
    BY <1>7 DEF Start, n
  <2>3. AllMake(plan, n, From(a), pc'[a], l, r, t)
    <3>1. CASE pc'[a] = "drain"
      <4>1. \A k \in DOMAIN t : t[k] = Size(plan, n)
        BY <1>2, <1>3, <2>1, <2>2, <3>1
      <4>2. DOMAIN r = {}
        BY <1>2, <2>1
      <4>. QED
        BY <1>2, <1>3, <1>5, <4>1, <4>2, AllMakeFacts
    <3>2. CASE pc'[a] # "drain"
      BY <1>2, <1>3, <1>5, <3>2, AllMakeFacts
    <3>. QED
      BY <3>1, <3>2
  <2>4. CASE Kind(a) = "source"
    <3>1. SourceMakes(plan, n, pc'[a], l, t)
      <4>1. CASE pc'[a] = "send"
        BY <1>1, <1>4, <2>1, <2>2, <2>4, <4>1, SourceStarts
      <4>2. CASE pc'[a] # "send"
        BY <4>2 DEF SourceMakes
      <4>. QED
        BY <4>1, <4>2
    <3>. QED
      BY <1>0, <2>3, <2>4, <3>1, MakesAfter DEF n, l
  <2>5. CASE Kind(a) = "scan"
    <3>1. InOrder(plan, a[2], lin[a[2]]) /\ lin[a[2]].nextSeq = t[1]
      BY <1>1, <2>5 DEF Makes
    <3>. QED
      BY <1>0, <2>3, <2>5, <3>1, MakesAfter DEF n, l
  <2>. QED
    BY <1>7, <2>4, <2>5
<1>8. ASSUME Kind(a) \notin {"source", "scan"}
      PROVE  /\ AllMake(plan, n, From(a), pc'[a], l, r, t)
             /\ Kind(a) = "unbounded" => pc'[a] = "loop"
             /\ Kind(a) # "unbounded" => pc'[a] = "recv"
  <2>1. /\ Kind(a) = "unbounded" => pc'[a] = "loop"
        /\ Kind(a) # "unbounded" => pc'[a] = "recv"
    BY <1>8 DEF Start
  <2>. QED
    BY <1>2, <1>3, <1>5, <2>1, AllMakeFacts
<1>9. CASE Kind(a) = "map"
  <2>1. m = 1 /\ t[1] = 0 /\ r[1] = 0
    BY <1>3, <1>6a, <1>6b, <1>9 DEF NodeKinds
  <2>2. MapMakes(plan, n, pc'[a], l, r, t)
    BY <1>4, <1>8, <1>9, <2>1 DEF MapMakes
  <2>. QED
    BY <1>0, <1>8, <1>9, <2>2, MakesAfter DEF n, l
<1>10. CASE Kind(a) = "reduce"
  <2>1. m = 1 /\ t[1] = 0 /\ r[1] = 0
    BY <1>3, <1>6a, <1>6b, <1>10 DEF NodeKinds
  <2>2. l.hold[1] = <<>>
    BY <1>4, <2>1
  <2>3. \A q : q = <<>> => IsSequence(q) /\ Len(q) = 0 /\ DOMAIN q = {}
    BY ShortSequences
  <2>4. ReduceMakes(plan, n, pc'[a], l, r, t)
    BY <1>8, <1>10, <2>1, <2>2, <2>3 DEF ReduceMakes
  <2>. QED
    BY <1>0, <1>8, <1>10, <2>4, MakesAfter DEF n, l
<1>11. CASE Kind(a) \in {"zip", "union"}
  <2>1. plan.kind[n] = Kind(a) /\ m \in Nat \ {0} /\ t[1] = 0
    BY <1>1, <1>6, <1>6a, <1>6b, <1>11 DEF NodeKinds
  <2>2. pc'[a] = "recv" /\ AllMake(plan, n, From(a), pc'[a], l, r, t)
    BY <1>8, <1>11
  <2>3. CASE Kind(a) = "zip"
    <3>1. \A j \in 1..m : r[j] = 0 /\ Size(plan, plan.args[n][j]) \in Nat
      BY <1>1, <1>3, <1>6, <2>3, SizeFacts DEF NodeKinds
    <3>2. ZipMakes(plan, n, "recv", l, r, t)
      BY <1>1, <1>2, <1>4, <2>1, <3>1, ZipStarts
    <3>. QED
      BY <1>0, <2>2, <2>3, <3>2, MakesAfter DEF n, l
  <2>4. CASE Kind(a) = "union"
    <3>1. UnionMakes(plan, n, "recv", l, r, t)
      BY <1>1, <1>2, <1>3, <1>4, <2>1, <2>4, UnionStarts
    <3>. QED
      BY <1>0, <2>2, <2>4, <3>1, MakesAfter DEF n, l
  <2>. QED
    BY <1>11, <2>3, <2>4
<1>12. CASE Kind(a) = "bounded"
  <2>1. m = 1
    BY <1>12, MoverFacts DEF NodeKinds, m
  <2>2. pc'[a] = "recv" /\ r[1] = 0
    BY <1>3, <1>8, <1>12, <2>1
  <2>3. BoundedMakes(plan, n, pc'[a], l, r, t)
    BY <1>2, <1>3, <2>2 DEF BoundedMakes
  <2>. QED
    BY <1>0, <1>8, <1>12, <2>3, MakesAfter DEF n, l
<1>13. CASE Kind(a) = "unbounded"
  <2>1. m = 1
    BY <1>13, MoverFacts DEF NodeKinds, m
  <2>2. pc'[a] = "loop" /\ r[1] = 0
    BY <1>3, <1>8, <1>13, <2>1
  <2>3. fan[n] = InitFanout(Len(t)) /\ Len(t) = Len(Out(a))
    BY <1>1, <1>13 DEF Makes, UnboundedMakes, n
  <2>4. PICK o \in Nat : o = Len(Out(a))
    BY <1>1
  <2>5. InStep(plan, n, InitFanout(o), r, t, Closed(a)')
    BY <1>2, <1>3, <2>2, <2>4, FanoutStarts
  <2>6. UnboundedMakes(plan, n, pc'[a], fan[n], r, t, Closed(a)')
    BY <2>2, <2>3, <2>4, <2>5 DEF UnboundedMakes, Early
  <2>. QED
    BY <1>0, <1>8, <1>13, <2>6, MakesAfter DEF n, l
<1>. QED
  BY <1>1, <1>7, <1>9, <1>10, <1>11, <1>12, <1>13 DEF NodeKinds

\* The metadata of all outputs has been received.
LEMMA DrainMetadataMoves ==
    ASSUME NEW a, NEW h, NEW r, NEW t, Moves(a, h, r, t), DrainMetadata(a)
    PROVE  MetadataFlows' /\ History(h)'
<1>1. /\ a \in Actors /\ OwnStep(a) /\ Generated /\ ChannelState /\ ActorState
      /\ MetadataFlows
  BY DEF Moves
<1>2. pc[a] = "drain metadata" /\ pc'[a] = Start(a)
      /\ UNCHANGED <<queue, shut, loc, fan, lin, result>>
  BY <1>1 DEF DrainMetadata, ActorState, Goto, chanVars
<1>3. Start(a) \notin Early
  BY MoverFacts DEF Start, Early, NodeKinds
<1>4. MetadataFlows'
  BY <1>1, <1>2, <1>3, DrainsMetadata
<1>5. Makes(a, r, t)'
  <2>1. CASE Kind(a) = "sink"
    BY <1>2, <2>1, EarlyMakes DEF Early, Start
  <2>2. CASE Kind(a) # "sink"
    BY <1>2, <2>2, StartMakes DEF Early
  <2>. QED
    BY <2>1, <2>2
<1>. QED
  BY <1>2, <1>4, <1>5, StepMetadata

\* An actor holds something for every index in D.
HoldsFor(g, D) == g = [i \in D |-> g[i]]

\* Local variables are a record.
LEMMA LocalsRecord ==
    ASSUME NEW D, NEW x, NEW y, NEW z, NEW f, NEW g, HoldsFor(g, D),
           NEW k, k = [at |-> x, base |-> y, count |-> z, finished |-> f,
                       hold |-> g]
    PROVE  /\ HasLocals(k, D)
           /\ k.at = x /\ k.base = y /\ k.count = z /\ k.finished = f
           /\ k.hold = g
<1>1. k.at = x /\ k.base = y /\ k.count = z /\ k.finished = f /\ k.hold = g
  OBVIOUS
<1>. QED
  BY <1>1 DEF HasLocals, HoldsFor

\* Local variables as a record of five values.
LEMMA LocalsParts ==
    ASSUME NEW D, NEW l, HasLocals(l, D)
    PROVE  \E x, y, z, f, g :
            /\ l = [at |-> x, base |-> y, count |-> z, finished |-> f,
                    hold |-> g]
            /\ HoldsFor(g, D)
            /\ l.at = x /\ l.base = y /\ l.count = z /\ l.finished = f
            /\ l.hold = g
BY DEF HasLocals, HoldsFor

\* Assignments to local variables.
WithHeld(l, j, e) == [l EXCEPT !.hold[j] = e]
WithHold(l, g) == [l EXCEPT !.hold = g]
WithAt(l, e) == [l EXCEPT !.at = e]
WithBase(l, e) == [l EXCEPT !.base = e]
WithCount(l, e) == [l EXCEPT !.count = e]
WithFinished(l, e) == [l EXCEPT !.finished = e]

\* What an assignment to one of what is held leaves.
LEMMA HeldAfter ==
    ASSUME NEW D, NEW l, HasLocals(l, D), NEW j \in D, NEW e
    PROVE  /\ HasLocals(WithHeld(l, j, e), D)
           /\ WithHeld(l, j, e).at = l.at /\ WithHeld(l, j, e).base = l.base
           /\ WithHeld(l, j, e).count = l.count
           /\ WithHeld(l, j, e).finished = l.finished
           /\ WithHeld(l, j, e).hold[j] = e
           /\ \A i \in D : i # j => WithHeld(l, j, e).hold[i] = l.hold[i]
<1>1. PICK x, y, z, f, g :
        /\ l = [at |-> x, base |-> y, count |-> z, finished |-> f, hold |-> g]
        /\ HoldsFor(g, D)
        /\ l.at = x /\ l.base = y /\ l.count = z /\ l.finished = f
        /\ l.hold = g
  BY LocalsParts
<1>2. PICK o : o = [g EXCEPT ![j] = e]
  OBVIOUS
<1>3. PICK k : k = WithHeld(l, j, e)
  OBVIOUS
<1>4. k = [at |-> x, base |-> y, count |-> z, finished |-> f, hold |-> o]
  BY <1>1, <1>2, <1>3 DEF WithHeld
<1>5. /\ HoldsFor(o, D) /\ o[j] = e
      /\ \A i \in D : i # j => o[i] = g[i]
  <2>1. o = [i \in D |-> IF i = j THEN e ELSE g[i]]
    BY <1>1, <1>2 DEF HoldsFor
  <2>2. o[j] = e /\ \A i \in D : o[i] = IF i = j THEN e ELSE g[i]
    BY <2>1
  <2>3. HoldsFor(o, D)
    BY <2>1, <2>2, Zenon DEF HoldsFor
  <2>. QED
    BY <2>2, <2>3
<1>6. /\ HasLocals(k, D) /\ k.at = x /\ k.base = y /\ k.count = z
      /\ k.finished = f /\ k.hold = o
  BY <1>4, <1>5, LocalsRecord
<1>. QED
  BY <1>1, <1>3, <1>5, <1>6

\* What an assignment to at leaves.
LEMMA AtAfter ==
    ASSUME NEW D, NEW l, HasLocals(l, D), NEW e
    PROVE  /\ HasLocals(WithAt(l, e), D)
           /\ WithAt(l, e).at = e /\ WithAt(l, e).hold = l.hold
           /\ WithAt(l, e).base = l.base
           /\ WithAt(l, e).count = l.count
           /\ WithAt(l, e).finished = l.finished
<1>1. PICK x, y, z, f, g :
        /\ l = [at |-> x, base |-> y, count |-> z, finished |-> f, hold |-> g]
        /\ HoldsFor(g, D)
        /\ l.at = x /\ l.base = y /\ l.count = z /\ l.finished = f
        /\ l.hold = g
  BY LocalsParts
<1>2. PICK k : k = WithAt(l, e)
  OBVIOUS
<1>3. k = [at |-> e, base |-> y, count |-> z, finished |-> f, hold |-> g]
  BY <1>1, <1>2 DEF WithAt
<1>4. /\ HasLocals(k, D) /\ k.at = e /\ k.base = y /\ k.count = z
      /\ k.finished = f /\ k.hold = g
  BY <1>1, <1>3, LocalsRecord
<1>. QED
  BY <1>1, <1>2, <1>4

\* What an assignment to base leaves.
LEMMA BaseAfter ==
    ASSUME NEW D, NEW l, HasLocals(l, D), NEW e
    PROVE  /\ HasLocals(WithBase(l, e), D)
           /\ WithBase(l, e).base = e /\ WithBase(l, e).hold = l.hold
           /\ WithBase(l, e).at = l.at
           /\ WithBase(l, e).count = l.count
           /\ WithBase(l, e).finished = l.finished
<1>1. PICK x, y, z, f, g :
        /\ l = [at |-> x, base |-> y, count |-> z, finished |-> f, hold |-> g]
        /\ HoldsFor(g, D)
        /\ l.at = x /\ l.base = y /\ l.count = z /\ l.finished = f
        /\ l.hold = g
  BY LocalsParts
<1>2. PICK k : k = WithBase(l, e)
  OBVIOUS
<1>3. k = [at |-> x, base |-> e, count |-> z, finished |-> f, hold |-> g]
  BY <1>1, <1>2 DEF WithBase
<1>4. /\ HasLocals(k, D) /\ k.at = x /\ k.base = e /\ k.count = z
      /\ k.finished = f /\ k.hold = g
  BY <1>1, <1>3, LocalsRecord
<1>. QED
  BY <1>1, <1>2, <1>4

\* What an assignment to count leaves.
LEMMA CountAfter ==
    ASSUME NEW D, NEW l, HasLocals(l, D), NEW e
    PROVE  /\ HasLocals(WithCount(l, e), D)
           /\ WithCount(l, e).count = e /\ WithCount(l, e).hold = l.hold
           /\ WithCount(l, e).at = l.at
           /\ WithCount(l, e).base = l.base
           /\ WithCount(l, e).finished = l.finished
<1>1. PICK x, y, z, f, g :
        /\ l = [at |-> x, base |-> y, count |-> z, finished |-> f, hold |-> g]
        /\ HoldsFor(g, D)
        /\ l.at = x /\ l.base = y /\ l.count = z /\ l.finished = f
        /\ l.hold = g
  BY LocalsParts
<1>2. PICK k : k = WithCount(l, e)
  OBVIOUS
<1>3. k = [at |-> x, base |-> y, count |-> e, finished |-> f, hold |-> g]
  BY <1>1, <1>2 DEF WithCount
<1>4. /\ HasLocals(k, D) /\ k.at = x /\ k.base = y /\ k.count = e
      /\ k.finished = f /\ k.hold = g
  BY <1>1, <1>3, LocalsRecord
<1>. QED
  BY <1>1, <1>2, <1>4

\* What an assignment to finished leaves.
LEMMA FinishedAfter ==
    ASSUME NEW D, NEW l, HasLocals(l, D), NEW e
    PROVE  /\ HasLocals(WithFinished(l, e), D)
           /\ WithFinished(l, e).finished = e /\ WithFinished(l, e).hold = l.hold
           /\ WithFinished(l, e).at = l.at
           /\ WithFinished(l, e).base = l.base
           /\ WithFinished(l, e).count = l.count
<1>1. PICK x, y, z, f, g :
        /\ l = [at |-> x, base |-> y, count |-> z, finished |-> f, hold |-> g]
        /\ HoldsFor(g, D)
        /\ l.at = x /\ l.base = y /\ l.count = z /\ l.finished = f
        /\ l.hold = g
  BY LocalsParts
<1>2. PICK k : k = WithFinished(l, e)
  OBVIOUS
<1>3. k = [at |-> x, base |-> y, count |-> z, finished |-> e, hold |-> g]
  BY <1>1, <1>2 DEF WithFinished
<1>4. /\ HasLocals(k, D) /\ k.at = x /\ k.base = y /\ k.count = z
      /\ k.finished = e /\ k.hold = g
  BY <1>1, <1>3, LocalsRecord
<1>. QED
  BY <1>1, <1>2, <1>4

\* What an assignment to all that is held leaves.
LEMMA HoldAfter ==
    ASSUME NEW D, NEW l, HasLocals(l, D), NEW o, HoldsFor(o, D)
    PROVE  /\ HasLocals(WithHold(l, o), D) /\ WithHold(l, o).hold = o
           /\ WithHold(l, o).at = l.at /\ WithHold(l, o).base = l.base
           /\ WithHold(l, o).count = l.count
           /\ WithHold(l, o).finished = l.finished
<1>1. PICK x, y, z, f, g :
        /\ l = [at |-> x, base |-> y, count |-> z, finished |-> f, hold |-> g]
        /\ HoldsFor(g, D)
        /\ l.at = x /\ l.base = y /\ l.count = z /\ l.finished = f
        /\ l.hold = g
  BY LocalsParts
<1>2. PICK k : k = WithHold(l, o)
  OBVIOUS
<1>3. k = [at |-> x, base |-> y, count |-> z, finished |-> f, hold |-> o]
  BY <1>1, <1>2 DEF WithHold
<1>4. /\ HasLocals(k, D) /\ k.at = x /\ k.base = y /\ k.count = z
      /\ k.finished = f /\ k.hold = o
  BY <1>3, LocalsRecord
<1>. QED
  BY <1>1, <1>2, <1>4

\* The variables of the actor that moves.
LEMMA MoverVars ==
    ASSUME NEW a, NEW h, NEW r, NEW t, Moves(a, h, r, t)
    PROVE  /\ UNCHANGED netVars /\ a \in DOMAIN loc
           /\ DOMAIN r = 1..Len(In(a)) /\ DOMAIN t = 1..Len(Out(a))
           /\ HasLocals(loc[a], 1..Len(In(a)))
           /\ \A x : Goto(a, x) => pc'[a] = x
           /\ pc' = pc => pc'[a] = pc[a]
           /\ \A l : loc' = [loc EXCEPT ![a] = l] => loc'[a] = l
<1>1. /\ a \in Actors /\ OwnStep(a) /\ ActorState /\ Locals
  BY DEF Moves
<1>2. /\ r \in [1..Len(In(a)) -> Nat] /\ t \in [1..Len(Out(a)) -> Nat]
      /\ AllMake(plan, a[2], From(a), pc[a], loc[a], r, t)
  BY MoverFacts
<1>3. DOMAIN r = 1..Len(In(a)) /\ DOMAIN t = 1..Len(Out(a))
  BY <1>2
<1>4. HasLocals(loc[a], 1..Len(In(a)))
  BY <1>2, <1>3 DEF AllMake
<1>5. DOMAIN loc = Actors /\ DOMAIN pc = Actors
  BY <1>1 DEF Locals, ActorState
<1>. QED
  BY <1>1, <1>3, <1>4, <1>5 DEF OwnStep, Goto

\* What is common to a step inside of the loop.
LEMMA LoopMakes ==
    ASSUME NEW a, NEW h, NEW r, NEW t, Moves(a, h, r, t),
           NEW s, DOMAIN s = 1..Len(In(a)), NEW u,
           pc'[a] \notin Early, pc'[a] # "drain",
           HasLocals(loc'[a], 1..Len(In(a)))
    PROVE  AllMake(plan, a[2], From(a), pc'[a], loc'[a], s, u)
BY AllMakeFacts

\* What is common to the step that ends the loop.
LEMMA DrainMakes ==
    ASSUME NEW a, NEW h, NEW r, NEW t, Moves(a, h, r, t),
           NEW s, DOMAIN s = 1..Len(In(a)), NEW u, DOMAIN u = 1..Len(Out(a)),
           pc'[a] = "drain", HasLocals(loc'[a], 1..Len(In(a))),
           \A j \in 1..Len(In(a)) : s[j] = Size(plan, From(a)[j]),
           \A k \in 1..Len(Out(a)) : u[k] = Size(plan, a[2])
    PROVE  AllMake(plan, a[2], From(a), pc'[a], loc'[a], s, u)
<1>1. pc'[a] \notin Early
  BY DEF Early
<1>. QED
  BY <1>1, AllMakeFacts

\* An actor with one input.
LEMMA OneInput ==
    ASSUME NEW a, NEW h, NEW r, NEW t, Moves(a, h, r, t),
           Kind(a) \in {"map", "reduce", "bounded", "unbounded", "sink"}
    PROVE  /\ Len(In(a)) = 1 /\ 1 \in DOMAIN In(a) /\ r \in [1..1 -> Nat]
           /\ DOMAIN r = 1..1 /\ DOMAIN [r EXCEPT ![1] = @ + 1] = 1..1
           /\ Kind(a) \in {"map", "reduce"} => From(a)[1] = plan.args[a[2]][1]
           /\ Kind(a) \notin {"map", "reduce"} => From(a)[1] = a[2]
<1>1. Len(In(a)) = 1
  <2>1. CASE Kind(a) \in NodeKinds
    <3>1. /\ plan \in Plans /\ a[2] \in 1..Len(plan.kind)
          /\ plan.kind[a[2]] \in {"map", "reduce"}
          /\ Len(In(a)) = Len(plan.args[a[2]])
      BY <2>1, MoverFacts DEF NodeKinds
    <3>. QED
      BY <3>1, PlanFacts
  <2>2. CASE Kind(a) \notin NodeKinds
    BY <2>2, MoverFacts
  <2>. QED
    BY <2>1, <2>2
<1>2. DOMAIN In(a) = 1..1 /\ 1 \in 1..1 /\ r \in [1..1 -> Nat]
  BY <1>1, MoverFacts
<1>3. /\ Kind(a) \in {"map", "reduce"} => From(a)[1] = plan.args[a[2]][1]
      /\ Kind(a) \notin {"map", "reduce"} => From(a)[1] = a[2]
  BY <1>2, MoverFacts DEF NodeKinds
<1>. QED
  BY <1>1, <1>2, <1>3

\* An actor that evaluates chunk by chunk, or a bounded fanout, receives.
LEMMA RecvOneTakes ==
    ASSUME NEW a, NEW h, NEW r, NEW t, Moves(a, h, r, t), pc[a] = "recv",
           Kind(a) \in {"map", "bounded"}, queue[In(a)[1]] # <<>>,
           Received(a, 1, Head(queue[In(a)[1]])),
           loc' = [loc EXCEPT ![a].hold[1] = <<Head(queue[In(a)[1]])>>,
                              ![a].count = 1, ![a].at = 1],
           Goto(a, "send")
    PROVE  MetadataFlows' /\ \E g : History(g)'
<1>0. PICK m : m = Head(queue[In(a)[1]])
  OBVIOUS
<1>1. /\ Len(In(a)) = 1 /\ 1 \in DOMAIN In(a) /\ r \in [1..1 -> Nat]
      /\ DOMAIN [r EXCEPT ![1] = @ + 1] = 1..1
      /\ Kind(a) = "map" => From(a)[1] = plan.args[a[2]][1]
      /\ Kind(a) = "bounded" => From(a)[1] = a[2]
  BY OneInput
<1>2. m = Message(plan, From(a)[1], r[1] + 1) /\ r[1] < Size(plan, From(a)[1])
  BY <1>0, <1>1, Receives
<1>3. /\ plan \in Plans /\ a[2] \in 1..Len(plan.kind)
      /\ Len(Out(a)) \in Nat /\ t \in [1..Len(Out(a)) -> Nat] /\ Makes(a, r, t)
      /\ Size(plan, From(a)[1]) \in Nat
  BY <1>1, MoverFacts
<1>4. UNCHANGED netVars /\ a \in DOMAIN loc /\ HasLocals(loc[a], 1..1)
      /\ pc'[a] = "send"
  BY <1>1, MoverVars
<1>5. PICK k : k = loc'[a]
  OBVIOUS
<1>6. /\ k.at = 1 /\ k.count = 1 /\ k.hold[1] = <<m>> /\ HasLocals(k, 1..1)
  <2>1. k = [loc[a] EXCEPT !.hold[1] = <<m>>, !.count = 1, !.at = 1]
    BY <1>0, <1>4, <1>5
  <2>2. k = WithAt(WithCount(WithHeld(loc[a], 1, <<m>>), 1), 1)
    BY <2>1 DEF WithAt, WithCount, WithHeld
  <2>3. 1 \in 1..1
    OBVIOUS
  <2>4. PICK i : i = WithHeld(loc[a], 1, <<m>>)
    OBVIOUS
  <2>5. HasLocals(i, 1..1) /\ i.hold[1] = <<m>>
    BY <1>4, <2>3, <2>4, HeldAfter
  <2>6. PICK j : j = WithCount(i, 1)
    OBVIOUS
  <2>7. HasLocals(j, 1..1) /\ j.hold = i.hold /\ j.count = 1
    BY <2>5, <2>6, CountAfter
  <2>8. k = WithAt(j, 1)
    BY <2>2, <2>4, <2>6
  <2>9. HasLocals(k, 1..1) /\ k.hold = j.hold /\ k.count = j.count /\ k.at = 1
    BY <2>7, <2>8, AtAfter
  <2>. QED
    BY <2>5, <2>7, <2>9
<1>7. PICK s : s = [r EXCEPT ![1] = @ + 1]
  OBVIOUS
<1>8. AllMake(plan, a[2], From(a), pc'[a], loc'[a], s, t)
  BY <1>1, <1>4, <1>5, <1>6, <1>7, LoopMakes DEF Early
<1>9. Makes(a, s, t)'
  <2>1. CASE Kind(a) = "map"
    <3>1. /\ MapMakes(plan, a[2], "recv", loc[a], r, t) /\ plan.kind[a[2]] = "map"
          /\ Len(Out(a)) = 1
      BY <1>3, <2>1, MoverFacts DEF Makes, NodeKinds
    <3>2. t \in [1..1 -> Nat]
      BY <1>3, <3>1
    <3>3. MapMakes(plan, a[2], "send", k, s, t)
      BY <1>1, <1>2, <1>3, <1>6, <1>7, <2>1, <3>1, <3>2, MapReceives
    <3>. QED
      BY <1>4, <1>5, <1>8, <2>1, <3>3, MakesAfter
  <2>2. CASE Kind(a) = "bounded"
    <3>1. BoundedMakes(plan, a[2], "recv", loc[a], r, t)
      BY <1>3, <2>2 DEF Makes
    <3>2. Len(Out(a)) # 0
      <4>1. a = <<"fanout", a[2]>> /\ fanout[a[2]] # "none" /\ a[2] \in Nodes
            /\ Out(a) = [i \in 1..DepCount(plan, a[2]) |-> <<a[2], i>>]
        BY <2>2, Sorts DEF Moves, NodeKinds
      <4>2. ~(DepCount(plan, a[2]) <= 1)
        BY <4>1, FanoutFacts DEF Moves
      <4>3. DepCount(plan, a[2]) \in Nat
        BY <1>3, UsesFinite, FS_CardinalityType DEF DepCount
      <4>. QED
        BY <4>1, <4>2, <4>3
    <3>3. PICK o \in Nat \ {0} : o = Len(Out(a))
      BY <1>3, <3>2
    <3>4. BoundedMakes(plan, a[2], "send", k, s, t)
      BY <1>1, <1>2, <1>3, <1>6, <1>7, <2>2, <3>1, <3>3, BoundedReceives
    <3>. QED
      BY <1>4, <1>5, <1>8, <2>2, <3>4, MakesAfter
  <2>. QED
    BY <2>1, <2>2
<1>10. /\ queue' = [queue EXCEPT ![In(a)[1]] = Tail(@)]
       /\ shut' = shut /\ md' = md
  BY DEF Received
<1>11. pc[a] \notin Early /\ pc'[a] \notin Early
  BY <1>4 DEF Early
<1>. QED
  BY <1>1, <1>7, <1>9, <1>10, <1>11, StepReceive

\* Its input has ended.
LEMMA RecvOneStops ==
    ASSUME NEW a, NEW h, NEW r, NEW t, Moves(a, h, r, t), pc[a] = "recv",
           Kind(a) \in {"map", "bounded"}, Ended(In(a)[1]), UNCHANGED chanVars,
           IF Kind(a) = "map" /\ loc[a].count = 0
           THEN loc' = [loc EXCEPT ![a].hold[1] = <<Empty>>, ![a].count = 1]
                /\ Goto(a, "send")
           ELSE Goto(a, "drain") /\ UNCHANGED loc
    PROVE  MetadataFlows' /\ History(h)'
<1>1. /\ Len(In(a)) = 1 /\ 1 \in DOMAIN In(a) /\ r \in [1..1 -> Nat]
      /\ DOMAIN r = 1..1
      /\ Kind(a) = "map" => From(a)[1] = plan.args[a[2]][1]
      /\ Kind(a) = "bounded" => From(a)[1] = a[2]
  BY OneInput
<1>2. r[1] = Size(plan, From(a)[1])
  BY <1>1, Receives
<1>3. /\ plan \in Plans /\ a[2] \in 1..Len(plan.kind)
      /\ Len(Out(a)) \in Nat /\ t \in [1..Len(Out(a)) -> Nat] /\ Makes(a, r, t)
      /\ Size(plan, From(a)[1]) \in Nat
  BY <1>1, MoverFacts
<1>4. /\ UNCHANGED netVars /\ a \in DOMAIN loc /\ HasLocals(loc[a], 1..1)
      /\ DOMAIN t = 1..Len(Out(a)) /\ \A x : Goto(a, x) => pc'[a] = x
  BY <1>1, MoverVars
<1>5. pc'[a] \in {"send", "drain"} /\ pc[a] \notin Early /\ pc'[a] \notin Early
  BY <1>4 DEF Early
<1>6. Kind(a) = "map" =>
        /\ MapMakes(plan, a[2], "recv", loc[a], r, t) /\ plan.kind[a[2]] = "map"
        /\ Len(Out(a)) = 1 /\ t \in [1..1 -> Nat]
  BY <1>3, MoverFacts DEF Makes, NodeKinds
<1>7. CASE Kind(a) = "map" /\ loc[a].count = 0
  <2>1. PICK k : k = loc'[a]
    OBVIOUS
  <2>2. /\ k.count = 1 /\ k.hold[1] = <<Empty>> /\ HasLocals(k, 1..1)
        /\ pc'[a] = "send"
    <3>0. PICK e : e = Empty
      OBVIOUS
    <3>1. k = [loc[a] EXCEPT !.hold[1] = <<e>>, !.count = 1] /\ pc'[a] = "send"
      BY <1>4, <1>7, <2>1, <3>0
    <3>2. k = WithCount(WithHeld(loc[a], 1, <<e>>), 1) /\ 1 \in 1..1
      BY <3>1 DEF WithCount, WithHeld
    <3>3. PICK i : i = WithHeld(loc[a], 1, <<e>>)
      OBVIOUS
    <3>4. HasLocals(i, 1..1) /\ i.hold[1] = <<e>>
      BY <1>4, <3>2, <3>3, HeldAfter
    <3>5. HasLocals(k, 1..1) /\ k.hold = i.hold /\ k.count = 1
      BY <3>2, <3>3, <3>4, CountAfter
    <3>. QED
      BY <3>0, <3>1, <3>4, <3>5
  <2>3. MapMakes(plan, a[2], "send", k, r, t)
    BY <1>1, <1>2, <1>3, <1>6, <1>7, <2>2, MapEnds
  <2>4. AllMake(plan, a[2], From(a), pc'[a], loc'[a], r, t)
    BY <1>1, <2>1, <2>2, LoopMakes DEF Early
  <2>5. Makes(a, r, t)'
    BY <1>4, <1>7, <2>1, <2>2, <2>3, <2>4, MakesAfter
  <2>. QED
    BY <1>5, <2>5, StepQuiet
<1>8. CASE ~(Kind(a) = "map" /\ loc[a].count = 0)
  <2>1. pc'[a] = "drain" /\ loc' = loc
    BY <1>4, <1>8
  <2>2. \A k \in 1..Len(Out(a)) : t[k] = Size(plan, a[2])
    <3>1. CASE Kind(a) = "map"
      <4>1. t[1] = Size(plan, a[2])
        BY <1>1, <1>2, <1>3, <1>6, <1>8, <3>1, MapEnds
      <4>2. \A k \in 1..1 : k = 1
        OBVIOUS
      <4>. QED
        BY <1>6, <3>1, <4>1, <4>2
    <3>2. CASE Kind(a) = "bounded"
      BY <1>1, <1>2, <1>3, <1>4, <3>2 DEF Makes, BoundedMakes
    <3>. QED
      BY <3>1, <3>2
  <2>3. \A j \in 1..Len(In(a)) : r[j] = Size(plan, From(a)[j])
    BY <1>1, <1>2
  <2>4. AllMake(plan, a[2], From(a), pc'[a], loc'[a], r, t)
    BY <1>1, <1>4, <2>1, <2>2, <2>3, DrainMakes
  <2>5. /\ MapMakes(plan, a[2], pc'[a], loc'[a], r, t)
        /\ BoundedMakes(plan, a[2], pc'[a], loc'[a], r, t)
    BY <2>1 DEF MapMakes, BoundedMakes
  <2>6. Makes(a, r, t)'
    BY <1>4, <2>4, <2>5, MakesAfter
  <2>. QED
    BY <1>5, <2>6, StepQuiet
<1>. QED
  BY <1>7, <1>8

\* The sink receives, or ends.
LEMMA SinkMoves ==
    ASSUME NEW a, NEW h, NEW r, NEW t, Moves(a, h, r, t), RecvOne(a),
           Kind(a) = "sink"
    PROVE  MetadataFlows' /\ \E g : History(g)'
<1>1. /\ Len(In(a)) = 1 /\ 1 \in DOMAIN In(a) /\ r \in [1..1 -> Nat]
      /\ DOMAIN r = 1..1 /\ DOMAIN [r EXCEPT ![1] = @ + 1] = 1..1
      /\ From(a)[1] = a[2]
  BY OneInput
<1>2. /\ UNCHANGED netVars /\ HasLocals(loc[a], 1..1) /\ pc[a] = "recv"
      /\ \A x : Goto(a, x) => pc'[a] = x
      /\ a[2] = Len(plan.kind) /\ Out(a) = <<>>
  <2>1. a = <<"sink", Root>>
    BY KindNames DEF Moves
  <2>. QED
    BY <1>1, <2>1, MoverVars DEF RecvOne, Root, Out
<1>3. SinkMakes(plan, "recv", r, result)
  BY <1>2, MoverFacts DEF Makes
<1>4. CASE /\ queue[In(a)[1]] # <<>> /\ Received(a, 1, Head(queue[In(a)[1]]))
           /\ result' = Append(result, Head(queue[In(a)[1]]))
           /\ UNCHANGED <<pc, loc>>
  <2>1. Head(queue[In(a)[1]]) = Message(plan, Len(plan.kind), r[1] + 1)
    BY <1>1, <1>2, <1>4, Receives
  <2>2. PICK s : s = [r EXCEPT ![1] = @ + 1]
    OBVIOUS
  <2>3. result' = Append(result, Message(plan, Len(plan.kind), r[1] + 1))
    BY <1>4, <2>1
  <2>4. SinkMakes(plan, "recv", s, result')
    BY <1>1, <1>3, <2>2, <2>3, SinkReceives
  <2>5. pc'[a] = "recv" /\ loc'[a] = loc[a] /\ "recv" \notin Early
    BY <1>2, <1>4 DEF Early
  <2>6. AllMake(plan, a[2], From(a), pc'[a], loc'[a], s, t)
    BY <1>1, <1>2, <2>2, <2>5, LoopMakes
  <2>7. Makes(a, s, t)'
    BY <1>2, <2>4, <2>5, <2>6, MakesAfter
  <2>8. /\ queue' = [queue EXCEPT ![In(a)[1]] = Tail(@)]
        /\ shut' = shut /\ md' = md
    BY <1>4 DEF Received
  <2>. QED
    BY <1>1, <1>2, <1>4, <2>2, <2>5, <2>7, <2>8, StepReceive
<1>5. CASE Ended(In(a)[1]) /\ End(a) /\ UNCHANGED <<loc, result>>
  <2>1. r[1] = Size(plan, From(a)[1])
    BY <1>1, <1>5, Receives
  <2>2. pc'[a] = "done" /\ loc'[a] = loc[a] /\ result' = result
        /\ "done" \notin Early /\ "recv" \notin Early
    BY <1>2, <1>5 DEF Early, End
  <2>3. SinkMakes(plan, "done", r, result)
    BY <1>1, <1>2, <1>3, <2>1, SinkEnds
  <2>4. AllMake(plan, a[2], From(a), pc'[a], loc'[a], r, t)
    BY <1>1, <1>2, <2>2, LoopMakes
  <2>5. Makes(a, r, t)'
    BY <1>2, <2>2, <2>3, <2>4, MakesAfter
  <2>6. \A j \in DOMAIN In(a) : r[j] = Size(plan, From(a)[j])
    <3>1. DOMAIN In(a) = 1..1 /\ \A j \in 1..1 : j = 1
      BY <1>1, MoverFacts
    <3>. QED
      BY <2>1, <3>1
  <2>7. DOMAIN Out(a) = {}
    BY <1>2
  <2>8. pc[a] \notin Early
    BY <1>2, <2>2
  <2>9. MetadataFlows' /\ History(h)'
    BY <1>5, <2>5, <2>6, <2>7, <2>8, StepEnd
  <2>. QED
    BY <2>9
<1>. QED
  BY <1>4, <1>5 DEF RecvOne

\* Receiving one message at a time.
LEMMA RecvOneMoves ==
    ASSUME NEW a, NEW h, NEW r, NEW t, Moves(a, h, r, t), RecvOne(a)
    PROVE  MetadataFlows' /\ \E g : History(g)'
<1>1. CASE Kind(a) = "sink"
  BY <1>1, SinkMoves
<1>2. CASE Kind(a) # "sink"
  <2>1. pc[a] = "recv" /\ Kind(a) \in {"map", "bounded"}
    BY <1>2 DEF RecvOne
  <2>2. \/ /\ queue[In(a)[1]] # <<>> /\ Received(a, 1, Head(queue[In(a)[1]]))
           /\ loc' = [loc EXCEPT ![a].hold[1] = <<Head(queue[In(a)[1]])>>,
                                 ![a].count = 1, ![a].at = 1]
           /\ Goto(a, "send")
        \/ /\ Ended(In(a)[1]) /\ UNCHANGED chanVars
           /\ IF Kind(a) = "map" /\ loc[a].count = 0
              THEN loc' = [loc EXCEPT ![a].hold[1] = <<Empty>>, ![a].count = 1]
                   /\ Goto(a, "send")
              ELSE Goto(a, "drain") /\ UNCHANGED loc
    BY <1>2 DEF RecvOne
  <2>. QED
    BY <2>1, <2>2, RecvOneTakes, RecvOneStops
<1>. QED
  BY <1>1, <1>2

\* A reduce collects its input.
LEMMA RecvAllMoves ==
    ASSUME NEW a, NEW h, NEW r, NEW t, Moves(a, h, r, t), RecvAll(a)
    PROVE  MetadataFlows' /\ \E g : History(g)'
<1>0. pc[a] = "recv" /\ Kind(a) = "reduce"
  BY DEF RecvAll
<1>1. /\ Len(In(a)) = 1 /\ 1 \in DOMAIN In(a) /\ r \in [1..1 -> Nat]
      /\ DOMAIN r = 1..1 /\ DOMAIN [r EXCEPT ![1] = @ + 1] = 1..1
      /\ From(a)[1] = plan.args[a[2]][1]
  BY <1>0, OneInput
<1>2. /\ plan \in Plans /\ a[2] \in 1..Len(plan.kind)
      /\ plan.kind[a[2]] = "reduce"
      /\ Len(Out(a)) = 1 /\ t \in [1..1 -> Nat]
      /\ ReduceMakes(plan, a[2], "recv", loc[a], r, t)
  BY <1>0, MoverFacts DEF Makes, NodeKinds
<1>3. /\ UNCHANGED netVars /\ a \in DOMAIN loc /\ HasLocals(loc[a], 1..1)
      /\ \A x : Goto(a, x) => pc'[a] = x
      /\ pc' = pc => pc'[a] = pc[a]
      /\ \A l : loc' = [loc EXCEPT ![a] = l] => loc'[a] = l
  BY <1>1, MoverVars
<1>3a. PICK l : l = loc[a]
  OBVIOUS
<1>3b. HasLocals(l, 1..1) /\ 1 \in 1..1
  BY <1>3, <1>3a
<1>4. "recv" \notin Early /\ "send" \notin Early /\ "drain" \notin Early
  BY DEF Early
<1>5. CASE /\ queue[In(a)[1]] # <<>> /\ Received(a, 1, Head(queue[In(a)[1]]))
           /\ loc' = [loc EXCEPT ![a].hold[1] =
                                    Append(@, Head(queue[In(a)[1]]))]
           /\ UNCHANGED <<pc, result>>
  <2>1. PICK m : m = Head(queue[In(a)[1]])
    OBVIOUS
  <2>2. m = Message(plan, plan.args[a[2]][1], r[1] + 1)
    BY <1>1, <1>5, <2>1, Receives
  <2>3. PICK k : k = loc'[a]
    OBVIOUS
  <2>4a. PICK q : q = Append(l.hold[1], m)
    OBVIOUS
  <2>4. k = WithHeld(l, 1, q)
    BY <1>3, <1>3a, <1>5, <2>1, <2>3, <2>4a DEF WithHeld
  <2>5. HasLocals(k, 1..1) /\ k.hold[1] = q
    BY <1>3b, <2>4, HeldAfter
  <2>6. PICK s : s = [r EXCEPT ![1] = @ + 1]
    OBVIOUS
  <2>7. ReduceMakes(plan, a[2], "recv", k, s, t)
    BY <1>1, <1>2, <1>3a, <2>2, <2>4a, <2>5, <2>6, ReduceReceives
  <2>8. pc'[a] = "recv"
    BY <1>0, <1>3, <1>5
  <2>9. AllMake(plan, a[2], From(a), pc'[a], loc'[a], s, t)
    BY <1>1, <1>4, <2>3, <2>5, <2>6, <2>8, LoopMakes
  <2>10. Makes(a, s, t)'
    BY <1>0, <1>3, <2>3, <2>7, <2>8, <2>9, MakesAfter
  <2>11. /\ queue' = [queue EXCEPT ![In(a)[1]] = Tail(@)]
         /\ shut' = shut /\ md' = md
    BY <1>5 DEF Received
  <2>. QED
    BY <1>0, <1>1, <1>4, <1>5, <2>6, <2>8, <2>10, <2>11, StepReceive
<1>6. CASE /\ Ended(In(a)[1]) /\ UNCHANGED <<chanVars, loc>>
           /\ Goto(a, IF loc[a].hold[1] = <<>> THEN "drain" ELSE "send")
  <2>1. r[1] = Size(plan, From(a)[1])
    BY <1>1, <1>6, Receives
  <2>2. /\ loc[a].hold[1] = <<>> => t[1] = Size(plan, a[2])
        /\ loc[a].hold[1] # <<>> =>
                ReduceMakes(plan, a[2], "send", loc[a], r, t)
    BY <1>1, <1>2, <2>1, ReduceEnds
  <2>3. loc'[a] = loc[a]
    BY <1>6
  <2>4. CASE loc[a].hold[1] = <<>>
    <3>1. pc'[a] = "drain"
      BY <1>3, <1>6, <2>4
    <3>2. \A j \in 1..1 : j = 1
      OBVIOUS
    <3>3. AllMake(plan, a[2], From(a), pc'[a], loc'[a], r, t)
      <4>1. DOMAIN t = 1..Len(Out(a))
        BY MoverVars
      <4>. QED
        BY <1>1, <1>2, <1>3, <2>1, <2>2, <2>3, <2>4, <3>1, <3>2, <4>1, DrainMakes
    <3>4. ReduceMakes(plan, a[2], pc'[a], loc'[a], r, t)
      BY <3>1 DEF ReduceMakes
    <3>5. Makes(a, r, t)'
      BY <1>0, <1>3, <3>3, <3>4, MakesAfter
    <3>6. MetadataFlows' /\ History(h)'
      BY <1>0, <1>4, <1>6, <3>1, <3>5, StepQuiet
    <3>. QED
      BY <3>6
  <2>5. CASE loc[a].hold[1] # <<>>
    <3>1. pc'[a] = "send"
      BY <1>3, <1>6, <2>5
    <3>2. AllMake(plan, a[2], From(a), pc'[a], loc'[a], r, t)
      BY <1>1, <1>3, <1>4, <2>3, <3>1, LoopMakes
    <3>3. Makes(a, r, t)'
      BY <1>0, <1>3, <2>2, <2>3, <2>5, <3>1, <3>2, MakesAfter
    <3>4. MetadataFlows' /\ History(h)'
      BY <1>0, <1>4, <1>6, <3>1, <3>3, StepQuiet
    <3>. QED
      BY <3>4
  <2>. QED
    BY <2>4, <2>5
<1>. QED
  BY <1>5, <1>6 DEF RecvAll

\* A union receives from the child at which it is, or goes on to the next.
LEMMA RecvSequentialMoves ==
    ASSUME NEW a, NEW h, NEW r, NEW t, Moves(a, h, r, t), RecvSequential(a)
    PROVE  MetadataFlows' /\ \E g : History(g)'
<1>0. pc[a] = "recv" /\ Kind(a) = "union"
  BY DEF RecvSequential
<1>1. PICK m : m = Len(In(a))
  OBVIOUS
<1>2. /\ plan \in Plans /\ a[2] \in 1..Len(plan.kind)
      /\ plan.kind[a[2]] = "union" /\ m = Len(plan.args[a[2]]) /\ m \in Nat
      /\ DOMAIN In(a) = 1..m /\ r \in [1..m -> Nat]
      /\ \A j \in 1..m : From(a)[j] = plan.args[a[2]][j]
      /\ Len(Out(a)) = 1 /\ t \in [1..1 -> Nat]
      /\ UnionMakes(plan, a[2], "recv", loc[a], r, t)
  BY <1>0, <1>1, MoverFacts DEF Makes, NodeKinds
<1>3. /\ UNCHANGED netVars /\ a \in DOMAIN loc /\ HasLocals(loc[a], 1..m)
      /\ DOMAIN r = 1..m /\ DOMAIN t = 1..Len(Out(a))
      /\ \A x : Goto(a, x) => pc'[a] = x
      /\ pc' = pc => pc'[a] = pc[a]
      /\ \A l : loc' = [loc EXCEPT ![a] = l] => loc'[a] = l
  BY <1>1, MoverVars
<1>4. "recv" \notin Early /\ "send" \notin Early /\ "drain" \notin Early
  BY DEF Early
<1>4a. PICK l : l = loc[a]
  OBVIOUS
<1>4b. HasLocals(l, 1..m) /\ UnionMakes(plan, a[2], "recv", l, r, t)
  BY <1>2, <1>3, <1>4a
<1>5. PICK j : j = l.at
  OBVIOUS
<1>6. j \in 1..m /\ m \in Nat /\ m # 0
  BY <1>2, <1>3, <1>4b, <1>5 DEF UnionMakes
<1>7. CASE /\ queue[In(a)[j]] # <<>> /\ Received(a, j, Head(queue[In(a)[j]]))
           /\ loc' = [loc EXCEPT ![a].hold[j] = <<Head(queue[In(a)[j]])>>]
           /\ Goto(a, "send")
  <2>1. PICK e : e = Head(queue[In(a)[j]])
    OBVIOUS
  <2>2. e = Message(plan, plan.args[a[2]][j], r[j] + 1)
    BY <1>2, <1>6, <1>7, <2>1, Receives
  <2>3. PICK k : k = loc'[a]
    OBVIOUS
  <2>4. k = WithHeld(l, j, <<e>>)
    BY <1>3, <1>4a, <1>7, <2>1, <2>3 DEF WithHeld
  <2>4a. PICK o : o = <<e>>
    OBVIOUS
  <2>4b. k = WithHeld(l, j, o)
    BY <2>4, <2>4a
  <2>4c. /\ HasLocals(k, 1..m) /\ k.hold[j] = o
         /\ k.at = l.at /\ k.base = l.base /\ k.count = l.count
    <3>1. PICK D : D = 1..m
      OBVIOUS
    <3>2. HasLocals(l, D) /\ j \in D
      BY <1>4b, <1>6, <3>1
    <3>3. /\ HasLocals(k, D) /\ k.hold[j] = o
          /\ k.at = l.at /\ k.base = l.base /\ k.count = l.count
      BY <2>4b, <3>2, HeldAfter
    <3>. QED
      BY <3>1, <3>3
  <2>5. /\ HasLocals(k, 1..m) /\ k.hold[l.at] = <<e>>
        /\ k.at = l.at /\ k.base = l.base /\ k.count = l.count
    BY <1>5, <2>4a, <2>4c
  <2>6. PICK s : s = [r EXCEPT ![j] = @ + 1]
    OBVIOUS
  <2>7. UnionMakes(plan, a[2], "send", k, s, t)
    <3>1. k.hold[l.at] = <<Message(plan, plan.args[a[2]][l.at], r[l.at] + 1)>>
      BY <1>5, <2>2, <2>5
    <3>2. UnionMakes(plan, a[2], "send", k, [r EXCEPT ![l.at] = @ + 1], t)
      BY <1>2, <1>4b, <2>5, <3>1, UnionReceives
    <3>. QED
      BY <1>5, <2>6, <3>2
  <2>8. pc'[a] = "send" /\ DOMAIN s = 1..m
    BY <1>3, <1>7, <2>6
  <2>9. AllMake(plan, a[2], From(a), pc'[a], loc'[a], s, t)
    BY <1>1, <1>4, <2>3, <2>5, <2>8, LoopMakes
  <2>10. Makes(a, s, t)'
    BY <1>0, <1>3, <2>3, <2>7, <2>8, <2>9, MakesAfter
  <2>11. /\ queue' = [queue EXCEPT ![In(a)[j]] = Tail(@)]
         /\ shut' = shut /\ md' = md
    BY <1>7 DEF Received
  <2>. QED
    BY <1>0, <1>2, <1>4, <1>6, <1>7, <2>6, <2>8, <2>10, <2>11, StepReceive
<1>8. CASE /\ Ended(In(a)[j]) /\ UNCHANGED chanVars
           /\ IF j < Len(In(a))
              THEN loc' = [loc EXCEPT ![a].at = j + 1,
                                      ![a].base = @ + loc[a].count,
                                      ![a].count = 0]
                   /\ UNCHANGED pc
              ELSE Goto(a, "drain") /\ UNCHANGED loc
  <2>1. r[j] = Size(plan, plan.args[a[2]][j])
    BY <1>2, <1>6, <1>8, Receives
  <2>2. UnionEnded(plan, a[2], m, r, l, t)
    BY <1>2, <1>4b, <1>5, <1>6, <2>1 DEF UnionEnded
  <2>3. CASE j < m
    <3>1. PICK k : k = loc'[a]
      OBVIOUS
    <3>2. pc'[a] = "recv"
      BY <1>0, <1>1, <1>3, <1>8, <2>3
    <3>3. PICK i : i = WithAt(l, j + 1)
      OBVIOUS
    <3>4. HasLocals(i, 1..m) /\ i.at = j + 1 /\ i.base = l.base
      BY <1>4b, <3>3, AtAfter
    <3>5. PICK o : o = WithBase(i, l.base + l.count)
      OBVIOUS
    <3>6. /\ HasLocals(o, 1..m) /\ o.at = j + 1
          /\ o.base = l.base + l.count
      BY <3>4, <3>5, BaseAfter
    <3>7. k = WithCount(o, 0)
      BY <1>1, <1>3, <1>4a, <1>8, <2>3, <3>1, <3>3, <3>5
         DEF WithAt, WithBase, WithCount
    <3>8. /\ HasLocals(k, 1..m) /\ k.at = o.at /\ k.base = o.base /\ k.count = 0
      BY <3>6, <3>7, CountAfter
    <3>9. UnionMakes(plan, a[2], "recv", k, r, t)
      <4>1. k.at = l.at + 1 /\ k.base = l.base + l.count /\ k.count = 0
        BY <1>5, <3>6, <3>8
      <4>. QED
        BY <1>5, <2>2, <2>3, <4>1, UnionNext
    <3>10. AllMake(plan, a[2], From(a), pc'[a], loc'[a], r, t)
      BY <1>1, <1>3, <1>4, <3>1, <3>2, <3>8, LoopMakes
    <3>11. Makes(a, r, t)'
      BY <1>0, <1>3, <3>1, <3>2, <3>9, <3>10, MakesAfter
    <3>12. MetadataFlows' /\ History(h)'
      BY <1>0, <1>4, <1>8, <3>2, <3>11, StepQuiet
    <3>. QED
      BY <3>12
  <2>4. CASE ~(j < m)
    <3>1. pc'[a] = "drain" /\ loc'[a] = loc[a]
      BY <1>1, <1>3, <1>8, <2>4
    <3>2. \A i \in 1..1 : i = 1
      OBVIOUS
    <3>2a. t[1] = Size(plan, a[2])
           /\ \A i \in 1..m : r[i] = Size(plan, plan.args[a[2]][i])
      BY <1>5, <2>2, <2>4, UnionAll
    <3>3. \A i \in 1..m : r[i] = Size(plan, From(a)[i])
      BY <1>2, <3>2a
    <3>4. AllMake(plan, a[2], From(a), pc'[a], loc'[a], r, t)
      BY <1>1, <1>2, <1>3, <3>1, <3>2, <3>2a, <3>3, DrainMakes
    <3>5. UnionMakes(plan, a[2], pc'[a], loc'[a], r, t)
      BY <3>1 DEF UnionMakes
    <3>6. Makes(a, r, t)'
      BY <1>0, <1>3, <3>4, <3>5, MakesAfter
    <3>7. MetadataFlows' /\ History(h)'
      BY <1>0, <1>4, <1>8, <3>1, <3>6, StepQuiet
    <3>. QED
      BY <3>7
  <2>. QED
    BY <2>3, <2>4
<1>. QED
  BY <1>4a, <1>5, <1>7, <1>8 DEF RecvSequential

\* Children that have sent nothing at all contribute an empty chunk.
Filled(o) == [i \in DOMAIN o |-> IF o[i] = <<>> THEN <<Empty>> ELSE o[i]]

\* How the round of a zip goes on with l as its local variables.
ZipAdvance(a, j, l) ==
    IF j < Len(In(a))
    THEN loc' = [loc EXCEPT ![a] = WithAt(l, j + 1)] /\ UNCHANGED pc
    ELSE /\ loc' = [loc EXCEPT ![a] = WithHold(WithAt(l, 1), Filled(l.hold))]
         /\ Goto(a, IF l.finished = DOMAIN In(a) THEN "drain" ELSE "send")

\* What the children hold is filled for every child.
LEMMA FilledFacts ==
    ASSUME NEW D, NEW o, HoldsFor(o, D)
    PROVE  /\ HoldsFor(Filled(o), D)
           /\ \A i \in D : Filled(o)[i] = IF o[i] = <<>> THEN <<Empty>> ELSE o[i]
<1>1. DOMAIN o = D
  BY DEF HoldsFor
<1>2. PICK e : e = <<Empty>>
  OBVIOUS
<1>3. Filled(o) = [i \in D |-> IF o[i] = <<>> THEN e ELSE o[i]]
  BY <1>1, <1>2 DEF Filled
<1>4. \A i \in D : Filled(o)[i] = IF o[i] = <<>> THEN e ELSE o[i]
  BY <1>3
<1>5. Filled(o) = [i \in D |-> Filled(o)[i]]
  BY <1>3, <1>4
<1>. QED
  BY <1>2, <1>4, <1>5, Zenon DEF HoldsFor

\* A child of a zip has been handled: e chunks have been taken of it.
LEMMA ZipAdvances ==
    ASSUME NEW a, NEW h, NEW r, NEW t, Moves(a, h, r, t),
           pc[a] = "recv", Kind(a) = "zip", NEW m, m = Len(In(a)),
           NEW l, l = loc[a], NEW j, j = l.at, NEW e, NEW g, HasLocals(g, 1..m),
           g.finished \subseteq 1..m, ZipHandled(plan, a[2], l, e, g),
           ZipAdvance(a, j, g), NEW s, s = [r EXCEPT ![j] = e]
    PROVE  pc'[a] \notin Early /\ Makes(a, s, t)'
<1>1. PICK n : n = a[2]
  OBVIOUS
<1>2. /\ plan \in Plans /\ n \in 1..Len(plan.kind)
      /\ plan.kind[n] = "zip" /\ m = Len(plan.args[n]) /\ m \in Nat
      /\ DOMAIN In(a) = 1..m /\ r \in [1..m -> Nat]
      /\ \A i \in 1..m : From(a)[i] = plan.args[n][i]
      /\ Len(Out(a)) = 1 /\ t \in [1..1 -> Nat] /\ 1 \in 1..Len(Out(a))
      /\ \A k \in 1..Len(Out(a)) : t[k] <= Size(plan, n)
      /\ ZipMakes(plan, n, "recv", l, r, t)
  <2>1. /\ plan \in Plans /\ n \in 1..Len(plan.kind)
        /\ plan.kind[n] = "zip" /\ m = Len(plan.args[n]) /\ m \in Nat
        /\ DOMAIN In(a) = 1..m /\ r \in [1..m -> Nat]
        /\ \A i \in 1..m : From(a)[i] = plan.args[n][i]
        /\ Len(Out(a)) = 1 /\ t \in [1..Len(Out(a)) -> Nat]
        /\ \A k \in 1..Len(Out(a)) : t[k] <= Size(plan, n)
        /\ Makes(a, r, t)
    BY <1>1, MoverFacts DEF NodeKinds
  <2>2. 1 \in 1..1
    OBVIOUS
  <2>3. t \in [1..1 -> Nat] /\ 1 \in 1..Len(Out(a))
    BY <2>1, <2>2
  <2>4. ZipMakes(plan, n, "recv", l, r, t)
    BY <1>1, <2>1 DEF Makes
  <2>. QED
    BY <2>1, <2>3, <2>4
<1>3. /\ UNCHANGED netVars /\ a \in DOMAIN loc
      /\ DOMAIN r = 1..m /\ DOMAIN t = 1..Len(Out(a))
      /\ \A x : Goto(a, x) => pc'[a] = x
      /\ pc' = pc => pc'[a] = pc[a]
      /\ \A k : loc' = [loc EXCEPT ![a] = k] => loc'[a] = k
  BY MoverVars
<1>4. "recv" \notin Early /\ "send" \notin Early /\ "drain" \notin Early
  BY DEF Early
<1>5. /\ t[1] \in Nat /\ t[1] <= Size(plan, n) /\ DOMAIN s = 1..m
      /\ j \in 1..m /\ m # 0
  <2>1. DOMAIN s = 1..m
    BY <1>3
  <2>2. j \in 1..m
    BY <1>2, <1>3 DEF ZipMakes
  <2>3. t[1] \in Nat /\ t[1] <= Size(plan, n)
    BY <1>2
  <2>4. m # 0
    BY <1>2, <2>2
  <2>. QED
    BY <2>1, <2>2, <2>3, <2>4
<1>6. CASE j < m
  <2>1. loc'[a] = WithAt(g, j + 1) /\ pc'[a] = "recv"
    BY <1>3, <1>6 DEF ZipAdvance
  <2>2. PICK k : k = WithAt(g, j + 1)
    OBVIOUS
  <2>3. /\ HasLocals(k, 1..m) /\ k.at = j + 1 /\ k.count = g.count
        /\ k.finished = g.finished /\ k.hold = g.hold
    BY <2>2, AtAfter
  <2>4. ZipMakes(plan, n, "recv", k, s, t)
    <3>1. l.at < m /\ k.at = l.at + 1 /\ ZipHandled(plan, n, l, e, g)
      BY <1>1, <1>6, <2>3
    <3>2. ZipMakes(plan, n, "recv", k, [r EXCEPT ![l.at] = e], t)
      BY <1>2, <2>3, <3>1, ZipGoesOn
    <3>. QED
      BY <3>2
  <2>5. AllMake(plan, a[2], From(a), pc'[a], loc'[a], s, t)
    BY <1>4, <1>5, <2>1, <2>2, <2>3, LoopMakes
  <2>6. Makes(a, s, t)'
    BY <1>1, <1>3, <2>1, <2>2, <2>4, <2>5, MakesAfter
  <2>. QED
    BY <1>4, <2>1, <2>6
<1>7. CASE ~(j < m)
  <2>1. PICK o : o = Filled(g.hold)
    OBVIOUS
  <2>2. PICK k : k = WithHold(WithAt(g, 1), o)
    OBVIOUS
  <2>3. /\ loc'[a] = k
        /\ pc'[a] = IF g.finished = 1..m THEN "drain" ELSE "send"
    BY <1>2, <1>3, <1>7, <2>1, <2>2 DEF ZipAdvance
  <2>4. HoldsFor(g.hold, 1..m)
    BY DEF HasLocals, HoldsFor
  <2>5. /\ HoldsFor(o, 1..m)
        /\ \A i \in 1..m :
                o[i] = IF g.hold[i] = <<>> THEN <<Empty>> ELSE g.hold[i]
    BY <2>1, <2>4, FilledFacts
  <2>6. PICK i : i = WithAt(g, 1)
    OBVIOUS
  <2>7. /\ HasLocals(i, 1..m) /\ i.at = 1 /\ i.count = g.count
        /\ i.finished = g.finished
    BY <2>6, AtAfter
  <2>8. /\ HasLocals(k, 1..m) /\ k.at = i.at /\ k.count = i.count
        /\ k.finished = i.finished /\ k.hold = o
    BY <2>2, <2>5, <2>6, <2>7, HoldAfter
  <2>9. j = m
    BY <1>2, <1>5, <1>7
  <2>10. /\ g.finished # 1..m => ZipMakes(plan, n, "send", k, s, t)
         /\ g.finished = 1..m =>
                t[1] = Size(plan, n) /\ TakenAll(plan, n, m, s)
    <3>1. l.at = m /\ ZipHandled(plan, n, l, e, g) /\ m \in Nat \ {0}
          /\ s = [r EXCEPT ![m] = e]
      BY <1>1, <1>2, <1>5, <2>9
    <3>2. /\ k.at = 1 /\ k.count = g.count /\ k.finished = g.finished
          /\ \A x \in 1..m :
                k.hold[x] = IF g.hold[x] = <<>> THEN <<Empty>> ELSE g.hold[x]
      BY <2>5, <2>7, <2>8
    <3>3. ZipRound(plan, n, m, r, l, t, e, g, k, s)
      BY <1>2, <1>5, <3>1, <3>2 DEF ZipRound
    <3>4. g.finished # 1..m => ZipMakes(plan, n, "send", k, s, t)
      BY <3>3, ZipCompletes
    <3>5. g.finished = 1..m =>
                t[1] = Size(plan, n) /\ TakenAll(plan, n, m, s)
      BY <3>3, ZipCompletes
    <3>. QED
      BY <3>4, <3>5
  <2>11. CASE g.finished # 1..m
    <3>1. AllMake(plan, a[2], From(a), pc'[a], loc'[a], s, t)
      BY <1>4, <1>5, <2>3, <2>8, <2>11, LoopMakes
    <3>2. Makes(a, s, t)'
      BY <1>1, <1>3, <2>3, <2>10, <2>11, <3>1, MakesAfter
    <3>. QED
      BY <1>4, <2>3, <2>11, <3>2
  <2>12. CASE g.finished = 1..m
    <3>1. pc'[a] = "drain" /\ \A x \in 1..1 : x = 1
      BY <2>3, <2>12
    <3>2. AllMake(plan, a[2], From(a), pc'[a], loc'[a], s, t)
      <4>1. \A x \in 1..Len(In(a)) : s[x] = Size(plan, From(a)[x])
        BY <1>2, <2>10, <2>12 DEF TakenAll
      <4>2. \A x \in 1..Len(Out(a)) : t[x] = Size(plan, a[2])
        BY <1>1, <1>2, <2>10, <2>12, <3>1
      <4>. QED
        BY <1>3, <1>5, <2>3, <2>8, <3>1, <4>1, <4>2, DrainMakes
    <3>3. ZipMakes(plan, a[2], pc'[a], loc'[a], s, t)
      BY <3>1 DEF ZipMakes
    <3>4. Makes(a, s, t)'
      BY <1>3, <3>2, <3>3, MakesAfter
    <3>. QED
      BY <1>4, <3>1, <3>4
  <2>. QED
    BY <2>11, <2>12
<1>. QED
  BY <1>6, <1>7

\* What is known of the child at which a zip is.
LEMMA ZipTurn ==
    ASSUME NEW a, NEW h, NEW r, NEW t, Moves(a, h, r, t),
           pc[a] = "recv", Kind(a) = "zip"
    PROVE  /\ HasLocals(loc[a], 1..Len(In(a))) /\ loc[a].at \in 1..Len(In(a))
           /\ loc[a].finished \subseteq 1..Len(In(a)) /\ loc[a].count \in Nat
           /\ r \in [1..Len(In(a)) -> Nat] /\ DOMAIN In(a) = 1..Len(In(a))
           /\ Len(plan.args[a[2]]) = Len(In(a))
           /\ From(a)[loc[a].at] = plan.args[a[2]][loc[a].at]
           /\ Size(plan, From(a)[loc[a].at]) \in Nat
           /\ ZipChild(plan, plan.args[a[2]][loc[a].at], loc[a].count,
                       r[loc[a].at], loc[a].hold[loc[a].at],
                       loc[a].at \in loc[a].finished)
<1>1. PICK n : n = a[2]
  OBVIOUS
<1>2. PICK m : m = Len(In(a))
  OBVIOUS
<1>3. PICK l : l = loc[a]
  OBVIOUS
<1>4. PICK j : j = l.at
  OBVIOUS
<1>5. /\ m = Len(plan.args[n]) /\ m \in Nat
      /\ DOMAIN In(a) = 1..m /\ r \in [1..m -> Nat]
      /\ \A i \in 1..m : /\ From(a)[i] = plan.args[n][i]
                         /\ Size(plan, From(a)[i]) \in Nat
      /\ Len(Out(a)) = 1 /\ t \in [1..Len(Out(a)) -> Nat] /\ Makes(a, r, t)
  BY <1>1, <1>2, MoverFacts DEF NodeKinds
<1>6. HasLocals(l, 1..m)
  BY <1>2, <1>3, MoverVars
<1>7. ZipMakes(plan, n, "recv", l, r, t)
  BY <1>1, <1>3, <1>5 DEF Makes
<1>8. DOMAIN r = 1..m
  BY <1>5
<1>9. /\ j \in 1..m /\ l.count = t[1] /\ l.finished \subseteq 1..m
      /\ \A i \in 1..m :
            ZipChild(plan, plan.args[n][i],
                     IF i < l.at THEN l.count + 1 ELSE l.count,
                     r[i], l.hold[i], i \in l.finished)
  BY <1>4, <1>7, <1>8 DEF ZipMakes
<1>10. ZipChild(plan, plan.args[n][j], l.count, r[j], l.hold[j], j \in l.finished)
  <2>1. ~(j < l.at)
    BY <1>4, <1>5, <1>9
  <2>. QED
    BY <1>9, <2>1
<1>11. l.count \in Nat
  <2>1. 1 \in 1..1
    OBVIOUS
  <2>. QED
    BY <1>5, <1>9, <2>1
<1>. QED
  BY <1>1, <1>2, <1>3, <1>4, <1>5, <1>6, <1>9, <1>10, <1>11

\* The steps of a round, by their operators.
LEMMA RoundSteps ==
    ASSUME NEW a, NEW D, HasLocals(loc[a], D), RecvRound(a),
           NEW l, l = loc[a], NEW j, j = l.at
    PROVE  \/ /\ j \in l.finished /\ ZipAdvance(a, j, l)
              /\ UNCHANGED chanVars
           \/ /\ j \notin l.finished /\ queue[In(a)[j]] # <<>>
              /\ Received(a, j, Head(queue[In(a)[j]]))
              /\ ZipAdvance(a, j, WithHeld(l, j, <<Head(queue[In(a)[j]])>>))
           \/ /\ j \notin l.finished /\ Ended(In(a)[j])
              /\ ZipAdvance(a, j, WithFinished(l, l.finished \cup {j}))
              /\ UNCHANGED chanVars
<1> DEFINE Goes(k, i) ==
             IF i < Len(In(a))
             THEN loc' = [loc EXCEPT ![a] = [k EXCEPT !.at = i + 1]]
                  /\ UNCHANGED pc
             ELSE /\ loc' = [loc EXCEPT ![a] =
                        [k EXCEPT !.at = 1,
                                  !.hold = [x \in DOMAIN @ |->
                                    IF @[x] = <<>> THEN <<Empty>> ELSE @[x]]]]
                  /\ Goto(a, IF k.finished = DOMAIN In(a) THEN "drain"
                             ELSE "send")
<1>1. \/ /\ loc[a].at \in loc[a].finished /\ Goes(loc[a], loc[a].at)
         /\ UNCHANGED chanVars
      \/ /\ loc[a].at \notin loc[a].finished
         /\ queue[In(a)[loc[a].at]] # <<>>
         /\ Received(a, loc[a].at, Head(queue[In(a)[loc[a].at]]))
         /\ Goes([loc[a] EXCEPT
                    !.hold[loc[a].at] = <<Head(queue[In(a)[loc[a].at]])>>],
                 loc[a].at)
      \/ /\ loc[a].at \notin loc[a].finished /\ Ended(In(a)[loc[a].at])
         /\ Goes([loc[a] EXCEPT !.finished = @ \cup {loc[a].at}], loc[a].at)
         /\ UNCHANGED chanVars
  BY Zenon DEF RecvRound
<1>2. ASSUME NEW k, Goes(k, j)
      PROVE  ZipAdvance(a, j, k)
  <2>1. WithHold(WithAt(k, 1), Filled(k.hold)) =
                [k EXCEPT !.at = 1,
                          !.hold = [i \in DOMAIN @ |->
                            IF @[i] = <<>> THEN <<Empty>> ELSE @[i]]]
    BY DEF WithHold, WithAt, Filled
  <2>2. WithAt(k, j + 1) = [k EXCEPT !.at = j + 1]
    BY DEF WithAt
  <2>. QED
    BY <1>2, <2>1, <2>2 DEF ZipAdvance
<1> HIDE DEF Goes
<1>3. \A e : WithHeld(l, j, e) = [l EXCEPT !.hold[j] = e]
  BY DEF WithHeld
<1>4. WithFinished(l, l.finished \cup {j}) = [l EXCEPT !.finished = @ \cup {j}]
  BY DEF WithFinished
<1>5. \/ /\ j \in l.finished /\ Goes(l, j) /\ UNCHANGED chanVars
      \/ /\ j \notin l.finished /\ queue[In(a)[j]] # <<>>
         /\ Received(a, j, Head(queue[In(a)[j]]))
         /\ Goes(WithHeld(l, j, <<Head(queue[In(a)[j]])>>), j)
      \/ /\ j \notin l.finished /\ Ended(In(a)[j])
         /\ Goes(WithFinished(l, l.finished \cup {j}), j)
         /\ UNCHANGED chanVars
  BY <1>1, <1>3, <1>4
<1>. QED
  BY <1>2, <1>5

\* A zip handles the next child of the round.
LEMMA RecvRoundMoves ==
    ASSUME NEW a, NEW h, NEW r, NEW t, Moves(a, h, r, t), RecvRound(a)
    PROVE  MetadataFlows' /\ \E g : History(g)'
<1>0. pc[a] = "recv" /\ Kind(a) = "zip" /\ "recv" \notin Early
  BY DEF RecvRound, Early
<1>1. PICK l : l = loc[a]
  OBVIOUS
<1>2. PICK j : j = l.at
  OBVIOUS
<1>3. PICK m : m = Len(In(a))
  OBVIOUS
<1>4. PICK c : c = plan.args[a[2]][j]
  OBVIOUS
<1>5. /\ HasLocals(l, 1..m) /\ j \in 1..m /\ l.finished \subseteq 1..m
      /\ l.count \in Nat /\ r \in [1..m -> Nat] /\ DOMAIN In(a) = 1..m
      /\ Len(plan.args[a[2]]) = m /\ From(a)[j] = c /\ Size(plan, c) \in Nat
      /\ ZipChild(plan, c, l.count, r[j], l.hold[j], j \in l.finished)
  <2>1. /\ From(a)[loc[a].at] = plan.args[a[2]][loc[a].at]
        /\ Size(plan, From(a)[loc[a].at]) \in Nat
        /\ ZipChild(plan, plan.args[a[2]][loc[a].at], loc[a].count,
                    r[loc[a].at], loc[a].hold[loc[a].at],
                    loc[a].at \in loc[a].finished)
    BY <1>0, ZipTurn
  <2>2. /\ HasLocals(l, 1..m) /\ j \in 1..m /\ l.finished \subseteq 1..m
        /\ l.count \in Nat /\ r \in [1..m -> Nat] /\ DOMAIN In(a) = 1..m
        /\ Len(plan.args[a[2]]) = m
    BY <1>0, <1>1, <1>2, <1>3, ZipTurn
  <2>. QED
    BY <1>1, <1>2, <1>4, <2>1, <2>2
<1>6. HasLocals(loc[a], 1..m)
  BY <1>1, <1>5
<1>7. CASE /\ j \in l.finished /\ ZipAdvance(a, j, l) /\ UNCHANGED chanVars
  <2>1. ZipChild(plan, c, l.count + 1, r[j], l.hold[j], TRUE)
    BY <1>5, <1>7, ZipChildSteps
  <2>2. ZipHandled(plan, a[2], l, r[j], l)
    BY <1>2, <1>4, <1>7, <2>1 DEF ZipHandled
  <2>3. PICK e : e = r[j]
    OBVIOUS
  <2>4. PICK s : s = [r EXCEPT ![j] = e]
    OBVIOUS
  <2>5. s = r
    BY <1>5, <2>3, <2>4
  <2>6. pc'[a] \notin Early /\ Makes(a, s, t)'
    BY <1>0, <1>1, <1>2, <1>3, <1>5, <1>7, <2>2, <2>3, <2>4, ZipAdvances
  <2>7. Makes(a, r, t)'
    BY <2>5, <2>6
  <2>8. MetadataFlows' /\ History(h)'
    BY <1>0, <1>7, <2>6, <2>7, StepQuiet
  <2>. QED
    BY <2>8
<1>8. CASE /\ j \notin l.finished /\ queue[In(a)[j]] # <<>>
           /\ Received(a, j, Head(queue[In(a)[j]]))
           /\ ZipAdvance(a, j, WithHeld(l, j, <<Head(queue[In(a)[j]])>>))
  <2>1. PICK e : e = r[j] + 1
    OBVIOUS
  <2>2. PICK m1 : m1 = <<Message(plan, c, e)>>
    OBVIOUS
  <2>3. <<Head(queue[In(a)[j]])>> = m1 /\ r[j] < Size(plan, c)
    <3>1. Head(queue[In(a)[j]]) = Message(plan, From(a)[j], r[j] + 1)
          /\ r[j] < Size(plan, From(a)[j])
      BY <1>5, <1>8, Receives
    <3>. QED
      BY <1>5, <2>1, <2>2, <3>1
  <2>4. PICK g : g = WithHeld(l, j, m1)
    OBVIOUS
  <2>5. PICK D : D = 1..m
    OBVIOUS
  <2>6. /\ HasLocals(g, D) /\ g.at = l.at /\ g.count = l.count
        /\ g.finished = l.finished /\ g.hold[j] = m1
        /\ \A i \in D : i # j => g.hold[i] = l.hold[i]
    <3>1. HasLocals(l, D) /\ j \in D
      BY <1>5, <2>5
    <3>. QED
      BY <2>4, <3>1, HeldAfter
  <2>7. ZipChild(plan, c, l.count + 1, e, m1, FALSE)
    <3>1. PICK x : x = r[j]
      OBVIOUS
    <3>2. PICK y : y = l.hold[j]
      OBVIOUS
    <3>3. PICK k \in Nat : k = l.count
      BY <1>5
    <3>4. ZipChild(plan, c, k, x, y, FALSE)
      BY <1>5, <1>8, <3>1, <3>2, <3>3 DEF ZipChild
    <3>5. ZipChild(plan, c, k + 1, x + 1, <<Message(plan, c, x + 1)>>, FALSE)
      BY <1>5, <2>3, <3>1, <3>4, ZipChildSteps
    <3>. QED
      BY <2>1, <2>2, <3>1, <3>3, <3>5
  <2>8. ZipHandled(plan, a[2], l, e, g)
    <3>1. ZipChild(plan, plan.args[a[2]][l.at], l.count + 1, e, g.hold[l.at],
                   l.at \in g.finished)
      <4>1. (j \in g.finished) = FALSE
        BY <1>8, <2>6
      <4>2. ZipChild(plan, c, l.count + 1, e, m1, j \in g.finished)
        BY <2>7, <4>1
      <4>3. g.hold[l.at] = m1 /\ c = plan.args[a[2]][l.at]
        BY <1>2, <1>4, <2>6
      <4>. QED
        BY <1>2, <4>2, <4>3
    <3>2. \A i \in 1..Len(plan.args[a[2]]) : i # l.at => g.hold[i] = l.hold[i]
      BY <1>2, <1>5, <2>5, <2>6
    <3>. QED
      BY <2>6, <3>1, <3>2 DEF ZipHandled
  <2>9. HasLocals(g, 1..m) /\ g.finished \subseteq 1..m /\ ZipAdvance(a, j, g)
    BY <1>5, <1>8, <2>3, <2>4, <2>5, <2>6
  <2>10. PICK s : s = [r EXCEPT ![j] = e]
    OBVIOUS
  <2>11. pc'[a] \notin Early /\ Makes(a, s, t)'
    BY <1>0, <1>1, <1>2, <1>3, <2>8, <2>9, <2>10, ZipAdvances
  <2>12. s = [r EXCEPT ![j] = @ + 1]
    BY <2>1, <2>10
  <2>13. /\ queue' = [queue EXCEPT ![In(a)[j]] = Tail(@)]
         /\ shut' = shut /\ md' = md
    BY <1>8 DEF Received
  <2>14. j \in DOMAIN In(a)
    BY <1>5
  <2>. QED
    BY <1>0, <1>8, <2>11, <2>12, <2>13, <2>14, StepReceive
<1>9. CASE /\ j \notin l.finished /\ Ended(In(a)[j])
           /\ ZipAdvance(a, j, WithFinished(l, l.finished \cup {j}))
           /\ UNCHANGED chanVars
  <2>1. r[j] = Size(plan, c)
    BY <1>5, <1>9, Receives
  <2>2. PICK g : g = WithFinished(l, l.finished \cup {j})
    OBVIOUS
  <2>3. /\ HasLocals(g, 1..m) /\ g.at = l.at /\ g.count = l.count
        /\ g.finished = l.finished \cup {j} /\ g.hold = l.hold
    BY <1>5, <2>2, FinishedAfter
  <2>4. ZipChild(plan, c, l.count + 1, r[j], l.hold[j], TRUE)
    BY <1>5, <1>9, <2>1, ZipChildSteps
  <2>5. ZipHandled(plan, a[2], l, r[j], g)
    BY <1>2, <1>4, <1>9, <2>3, <2>4 DEF ZipHandled
  <2>6. PICK e : e = r[j]
    OBVIOUS
  <2>7. PICK s : s = [r EXCEPT ![j] = e]
    OBVIOUS
  <2>8. s = r
    BY <1>5, <2>6, <2>7
  <2>9. pc'[a] \notin Early /\ Makes(a, s, t)'
    <3>1. g.finished \subseteq 1..m /\ ZipAdvance(a, j, g)
      BY <1>5, <1>9, <2>2, <2>3
    <3>. QED
      BY <1>0, <1>1, <1>2, <1>3, <2>3, <2>5, <2>6, <2>7, <3>1, ZipAdvances
  <2>10. Makes(a, r, t)'
    BY <2>8, <2>9
  <2>11. MetadataFlows' /\ History(h)'
    BY <1>0, <1>9, <2>9, <2>10, StepQuiet
  <2>. QED
    BY <2>11
<1>. QED
  BY <1>1, <1>2, <1>6, <1>7, <1>8, <1>9, RoundSteps

\* What a send of every kind of actor does.
LEMMA SendSteps ==
    ASSUME NEW a, SendNext(a)
    PROVE  /\ pc[a] = "send" /\ shut' = shut /\ md' = md /\ UNCHANGED netVars
           /\ Kind(a) = "source" =>
                /\ Send(Out(a)[1], [seq |-> loc[a].count,
                                    data |-> <<<<a[2], loc[a].count>>>>])
                /\ loc' = [loc EXCEPT ![a].count = @ + 1]
                /\ Goto(a, IF loc[a].count + 1 = plan.chunks[a[2]] THEN "drain"
                           ELSE "send")
           /\ Kind(a) = "map" =>
                /\ Send(Out(a)[1], loc[a].hold[1][1])
                /\ Goto(a, "recv") /\ UNCHANGED loc
           /\ Kind(a) = "reduce" =>
                /\ Send(Out(a)[1], [seq |-> 0, data |-> Combined(loc[a].hold[1])])
                /\ Goto(a, "drain") /\ UNCHANGED loc
           /\ Kind(a) = "zip" =>
                /\ Send(Out(a)[1], [seq |-> loc[a].count,
                                    data |-> Combined(FirstOf(loc[a].hold))])
                /\ loc' = [loc EXCEPT ![a].count = @ + 1] /\ Goto(a, "recv")
           /\ Kind(a) = "union" =>
                /\ Send(Out(a)[1],
                        [seq |-> loc[a].hold[loc[a].at][1].seq + loc[a].base,
                         data |-> loc[a].hold[loc[a].at][1].data])
                /\ loc' = [loc EXCEPT ![a].count = @ + 1] /\ Goto(a, "recv")
           /\ Kind(a) = "bounded" =>
                /\ Send(Out(a)[loc[a].at], loc[a].hold[1][1])
                /\ IF loc[a].at < Len(Out(a))
                   THEN loc' = [loc EXCEPT ![a].at = loc[a].at + 1]
                        /\ UNCHANGED pc
                   ELSE Goto(a, "recv") /\ UNCHANGED loc
<1>1. pc[a] = "send" /\ shut' = shut /\ md' = md /\ UNCHANGED netVars
  BY DEF SendNext
<1>2. CASE Kind(a) = "source"
  BY <1>1, <1>2 DEF SendNext, Output, AfterSend
<1>3. CASE Kind(a) = "map"
  BY <1>1, <1>3 DEF SendNext, Output, AfterSend
<1>4. CASE Kind(a) = "reduce"
  BY <1>1, <1>4 DEF SendNext, Output, AfterSend
<1>5. CASE Kind(a) = "zip"
  BY <1>1, <1>5 DEF SendNext, Output, AfterSend
<1>6. CASE Kind(a) = "union"
  BY <1>1, <1>6 DEF SendNext, Output, AfterSend
<1>7. CASE Kind(a) = "bounded"
  BY <1>1, <1>7 DEF SendNext, Output, AfterSend
<1>. QED
  BY <1>1, <1>2, <1>3, <1>4, <1>5, <1>6, <1>7

\* A count more among the local variables.
LEMMA CountedLocals ==
    ASSUME NEW a, NEW h, NEW r, NEW t, Moves(a, h, r, t),
           loc' = [loc EXCEPT ![a].count = @ + 1]
    PROVE  /\ HasLocals(loc'[a], 1..Len(In(a)))
           /\ loc'[a].count = loc[a].count + 1
           /\ loc'[a].at = loc[a].at /\ loc'[a].base = loc[a].base
           /\ loc'[a].finished = loc[a].finished /\ loc'[a].hold = loc[a].hold
<1>1. PICK l : l = loc[a]
  OBVIOUS
<1>2. a \in DOMAIN loc /\ HasLocals(l, 1..Len(In(a)))
  BY <1>1, MoverVars
<1>3. loc'[a] = WithCount(l, l.count + 1)
  BY <1>1, <1>2 DEF WithCount
<1>4. PICK e : e = l.count + 1
  OBVIOUS
<1>5. PICK k : k = WithCount(l, e)
  OBVIOUS
<1>6. /\ HasLocals(k, 1..Len(In(a))) /\ k.count = e
      /\ k.at = l.at /\ k.base = l.base /\ k.finished = l.finished
      /\ k.hold = l.hold
  BY <1>2, <1>5, CountAfter
<1>. QED
  BY <1>1, <1>3, <1>4, <1>5, <1>6

\* A send more on the only output.
LEMMA SentOne ==
    ASSUME NEW a, NEW h, NEW r, NEW t, Moves(a, h, r, t), Kind(a) \in NodeKinds
    PROVE  /\ Len(Out(a)) = 1 /\ 1 \in DOMAIN Out(a) /\ t \in [1..1 -> Nat]
           /\ DOMAIN [t EXCEPT ![1] = @ + 1] = 1..1
           /\ [t EXCEPT ![1] = @ + 1][1] = t[1] + 1
           /\ DOMAIN r = 1..Len(In(a))
<1>1. /\ Len(Out(a)) = 1 /\ DOMAIN Out(a) = 1..Len(Out(a))
      /\ t \in [1..Len(Out(a)) -> Nat]
  BY MoverFacts
<1>2. 1 \in 1..1
  OBVIOUS
<1>3. DOMAIN r = 1..Len(In(a))
  BY MoverVars
<1>. QED
  BY <1>1, <1>2, <1>3

\* A source sends its next chunk.
LEMMA SourceMoves ==
    ASSUME NEW a, NEW h, NEW r, NEW t, Moves(a, h, r, t), SendNext(a),
           Kind(a) = "source"
    PROVE  MetadataFlows' /\ History(h)'
<1>1. PICK l : l = loc[a]
  OBVIOUS
<1>2. PICK m : m = [seq |-> l.count, data |-> <<<<a[2], l.count>>>>]
  OBVIOUS
<1>3. /\ pc[a] = "send" /\ shut' = shut /\ md' = md /\ UNCHANGED netVars
      /\ Send(Out(a)[1], m) /\ loc' = [loc EXCEPT ![a].count = @ + 1]
      /\ Goto(a, IF l.count + 1 = plan.chunks[a[2]] THEN "drain" ELSE "send")
  BY <1>1, <1>2, SendSteps
<1>4. PICK u : u = [t EXCEPT ![1] = @ + 1]
  OBVIOUS
<1>5. /\ Len(Out(a)) = 1 /\ 1 \in DOMAIN Out(a) /\ t \in [1..1 -> Nat]
      /\ DOMAIN u = 1..1 /\ u[1] = t[1] + 1 /\ DOMAIN r = 1..Len(In(a))
  BY <1>4, SentOne DEF NodeKinds
<1>6. /\ plan \in Plans /\ a[2] \in 1..Len(plan.kind)
      /\ plan.kind[a[2]] = "source" /\ Len(In(a)) = Len(plan.args[a[2]])
      /\ SourceMakes(plan, a[2], "send", l, t)
  BY <1>1, <1>3, MoverFacts DEF Makes, NodeKinds
<1>7. PICK k : k = loc'[a]
  OBVIOUS
<1>8. HasLocals(k, 1..Len(In(a))) /\ k.count = l.count + 1
  BY <1>1, <1>3, <1>7, CountedLocals
<1>9. /\ t[1] < Size(plan, a[2]) /\ m = Message(plan, a[2], t[1] + 1)
      /\ l.count + 1 = plan.chunks[a[2]] => t[1] + 1 = Size(plan, a[2])
      /\ l.count + 1 # plan.chunks[a[2]] =>
            SourceMakes(plan, a[2], "send", k, u)
  <2>1. PICK n : n = a[2]
    OBVIOUS
  <2>2. /\ n \in 1..Len(plan.kind) /\ plan.kind[n] = "source"
        /\ SourceMakes(plan, n, "send", l, t)
    BY <1>6, <2>1
  <2>3. /\ t[1] < Size(plan, n)
        /\ [seq |-> l.count, data |-> <<<<n, l.count>>>>] =
                Message(plan, n, t[1] + 1)
        /\ l.count + 1 = plan.chunks[n] => t[1] + 1 = Size(plan, n)
        /\ l.count + 1 # plan.chunks[n] =>
              SourceMakes(plan, n, "send", k, [t EXCEPT ![1] = @ + 1])
    BY <1>5, <1>6, <1>8, <2>2, SourceSends
  <2>. QED
    BY <1>2, <1>4, <2>1, <2>3
<1>10. Len(In(a)) = 0
  BY <1>6, PlanFacts
<1>11. pc'[a] = IF l.count + 1 = plan.chunks[a[2]] THEN "drain" ELSE "send"
  BY <1>3, MoverVars
<1>12. Makes(a, r, u)'
  <2>1. CASE l.count + 1 = plan.chunks[a[2]]
    <3>1. pc'[a] = "drain"
      BY <1>11, <2>1
    <3>2. \A j \in 1..Len(In(a)) : r[j] = Size(plan, From(a)[j])
      BY <1>10
    <3>3. \A j \in 1..1 : u[j] = Size(plan, a[2])
      BY <1>5, <1>9, <2>1
    <3>4. AllMake(plan, a[2], From(a), pc'[a], loc'[a], r, u)
      BY <1>5, <1>7, <1>8, <3>1, <3>2, <3>3, DrainMakes
    <3>5. SourceMakes(plan, a[2], pc'[a], loc'[a], u)
      BY <3>1 DEF SourceMakes
    <3>. QED
      BY <1>3, <3>4, <3>5, MakesAfter
  <2>2. CASE l.count + 1 # plan.chunks[a[2]]
    <3>1. pc'[a] = "send" /\ "send" \notin Early
      BY <1>11, <2>2 DEF Early
    <3>2. AllMake(plan, a[2], From(a), pc'[a], loc'[a], r, u)
      BY <1>5, <1>7, <1>8, <3>1, LoopMakes
    <3>. QED
      BY <1>3, <1>7, <1>9, <2>2, <3>1, <3>2, MakesAfter
  <2>. QED
    BY <2>1, <2>2
<1>13. pc[a] \notin Early /\ pc'[a] \notin Early
  BY <1>3, <1>11 DEF Early
<1>. QED
  BY <1>3, <1>4, <1>5, <1>9, <1>12, <1>13, StepSend

\* A map sends what it holds.
LEMMA MapMoves ==
    ASSUME NEW a, NEW h, NEW r, NEW t, Moves(a, h, r, t), SendNext(a),
           Kind(a) = "map"
    PROVE  MetadataFlows' /\ History(h)'
<1>1. PICK l : l = loc[a]
  OBVIOUS
<1>2. PICK m : m = l.hold[1][1]
  OBVIOUS
<1>3. /\ pc[a] = "send" /\ shut' = shut /\ md' = md /\ UNCHANGED netVars
      /\ Send(Out(a)[1], m) /\ loc' = loc /\ Goto(a, "recv")
  BY <1>1, <1>2, SendSteps
<1>4. PICK u : u = [t EXCEPT ![1] = @ + 1]
  OBVIOUS
<1>5. /\ Len(Out(a)) = 1 /\ 1 \in DOMAIN Out(a) /\ t \in [1..1 -> Nat]
      /\ DOMAIN u = 1..1 /\ DOMAIN r = 1..Len(In(a))
  BY <1>4, SentOne DEF NodeKinds
<1>6. /\ plan \in Plans /\ a[2] \in 1..Len(plan.kind)
      /\ plan.kind[a[2]] = "map" /\ MapMakes(plan, a[2], "send", l, r, t)
      /\ DOMAIN In(a) = 1..Len(In(a))
      /\ \A j \in 1..Len(In(a)) : /\ r[j] <= Size(plan, From(a)[j])
                                  /\ Size(plan, From(a)[j]) \in Nat
  BY <1>1, <1>3, MoverFacts DEF Makes, NodeKinds
<1>7. /\ Len(In(a)) = 1 /\ r \in [1..1 -> Nat]
      /\ From(a)[1] = plan.args[a[2]][1]
  BY OneInput
<1>8. PICK c : c = plan.args[a[2]][1]
  OBVIOUS
<1>9. r[1] <= Size(plan, c) /\ Size(plan, c) \in Nat
  <2>1. 1 \in 1..1
    OBVIOUS
  <2>. QED
    BY <1>6, <1>7, <1>8, <2>1
<1>10. /\ t[1] < Size(plan, a[2]) /\ m = Message(plan, a[2], t[1] + 1)
       /\ MapMakes(plan, a[2], "recv", l, r, u)
  <2>1. PICK n : n = a[2]
    OBVIOUS
  <2>2. /\ n \in 1..Len(plan.kind) /\ plan.kind[n] = "map" /\ c = plan.args[n][1]
        /\ MapMakes(plan, n, "send", l, r, t)
    BY <1>6, <1>8, <2>1
  <2>3. /\ t[1] < Size(plan, n) /\ m = Message(plan, n, t[1] + 1)
        /\ MapMakes(plan, n, "recv", l, r, [t EXCEPT ![1] = @ + 1])
    <3>1. MapHolds(plan, n, c, l, r, t, m)
      BY <1>2, <1>5, <1>6, <1>7, <1>9, <2>2 DEF MapHolds
    <3>. QED
      BY <3>1, MapSends
  <2>. QED
    BY <1>2, <1>4, <2>1, <2>3
<1>11. pc'[a] = "recv" /\ "recv" \notin Early /\ "send" \notin Early
  BY <1>3, MoverVars DEF Early
<1>12. HasLocals(loc'[a], 1..Len(In(a))) /\ loc'[a] = l
  BY <1>1, <1>3, MoverVars
<1>13. AllMake(plan, a[2], From(a), pc'[a], loc'[a], r, u)
  BY <1>5, <1>11, <1>12, LoopMakes
<1>14. Makes(a, r, u)'
  BY <1>3, <1>10, <1>11, <1>12, <1>13, MakesAfter
<1>. QED
  BY <1>3, <1>4, <1>5, <1>10, <1>11, <1>14, StepSend

\* A reduce sends its only chunk.
LEMMA ReduceMoves ==
    ASSUME NEW a, NEW h, NEW r, NEW t, Moves(a, h, r, t), SendNext(a),
           Kind(a) = "reduce"
    PROVE  MetadataFlows' /\ History(h)'
<1>1. PICK l : l = loc[a]
  OBVIOUS
<1>2. PICK m : m = [seq |-> 0, data |-> Combined(l.hold[1])]
  OBVIOUS
<1>3. /\ pc[a] = "send" /\ shut' = shut /\ md' = md /\ UNCHANGED netVars
      /\ Send(Out(a)[1], m) /\ loc' = loc /\ Goto(a, "drain")
  BY <1>1, <1>2, SendSteps
<1>4. PICK u : u = [t EXCEPT ![1] = @ + 1]
  OBVIOUS
<1>5. /\ Len(Out(a)) = 1 /\ 1 \in DOMAIN Out(a) /\ t \in [1..1 -> Nat]
      /\ DOMAIN u = 1..1 /\ u[1] = t[1] + 1 /\ DOMAIN r = 1..Len(In(a))
  BY <1>4, SentOne DEF NodeKinds
<1>6. /\ plan \in Plans /\ a[2] \in 1..Len(plan.kind)
      /\ plan.kind[a[2]] = "reduce" /\ ReduceMakes(plan, a[2], "send", l, r, t)
  BY <1>1, <1>3, MoverFacts DEF Makes, NodeKinds
<1>7. /\ Len(In(a)) = 1 /\ r \in [1..1 -> Nat]
      /\ From(a)[1] = plan.args[a[2]][1]
  BY OneInput
<1>8. PICK c : c = plan.args[a[2]][1]
  OBVIOUS
<1>9. /\ t[1] < Size(plan, a[2]) /\ t[1] + 1 = Size(plan, a[2])
      /\ r[1] = Size(plan, c) /\ m = Message(plan, a[2], t[1] + 1)
  <2>1. PICK n : n = a[2]
    OBVIOUS
  <2>2. /\ n \in 1..Len(plan.kind) /\ plan.kind[n] = "reduce"
        /\ c = plan.args[n][1] /\ ReduceMakes(plan, n, "send", l, r, t)
    BY <1>6, <1>8, <2>1
  <2>3. /\ t[1] < Size(plan, n) /\ t[1] + 1 = Size(plan, n)
        /\ r[1] = Size(plan, c)
        /\ [seq |-> 0, data |-> Combined(l.hold[1])] =
                Message(plan, n, t[1] + 1)
    <3>1. plan \in Plans /\ t \in [1..1 -> Nat] /\ r \in [1..1 -> Nat]
      BY <1>5, <1>6, <1>7
    <3>2. /\ t[1] < Size(plan, n) /\ t[1] + 1 = Size(plan, n)
          /\ [seq |-> 0, data |-> Combined(l.hold[1])] =
                Message(plan, n, t[1] + 1)
      BY <2>2, <3>1, ReduceSends
    <3>3. r[1] = Size(plan, c)
      BY <2>2 DEF ReduceMakes
    <3>. QED
      BY <3>2, <3>3
  <2>. QED
    BY <1>2, <2>1, <2>3
<1>10. pc'[a] = "drain" /\ "drain" \notin Early /\ "send" \notin Early
  BY <1>3, MoverVars DEF Early
<1>11. HasLocals(loc'[a], 1..Len(In(a))) /\ loc'[a] = l
  BY <1>1, <1>3, MoverVars
<1>12. AllMake(plan, a[2], From(a), pc'[a], loc'[a], r, u)
  <2>1. \A j \in 1..1 : j = 1
    OBVIOUS
  <2>2. /\ \A j \in 1..Len(In(a)) : r[j] = Size(plan, From(a)[j])
        /\ \A j \in 1..Len(Out(a)) : u[j] = Size(plan, a[2])
    BY <1>5, <1>7, <1>8, <1>9, <2>1
  <2>. QED
    BY <1>5, <1>10, <1>11, <2>2, DrainMakes
<1>13. ReduceMakes(plan, a[2], pc'[a], loc'[a], r, u)
  BY <1>10 DEF ReduceMakes
<1>14. Makes(a, r, u)'
  BY <1>3, <1>12, <1>13, MakesAfter
<1>. QED
  BY <1>3, <1>4, <1>5, <1>9, <1>10, <1>14, StepSend

\* What all sends on the only output have in common: k are the variables after
\* the send, u what has been sent then.
LEMMA SendOneMoves ==
    ASSUME NEW a, NEW h, NEW r, NEW t, Moves(a, h, r, t), Kind(a) \in NodeKinds,
           pc[a] = "send", pc'[a] \notin Early, shut' = shut, md' = md,
           t[1] < Size(plan, a[2]), NEW m, m = Message(plan, a[2], t[1] + 1),
           Send(Out(a)[1], m),
           NEW u, u = [t EXCEPT ![1] = @ + 1], Makes(a, r, u)'
    PROVE  MetadataFlows' /\ History(h)'
<1>1. 1 \in DOMAIN Out(a)
  BY SentOne
<1>2. "send" \notin Early
  BY DEF Early
<1>. QED
  BY <1>1, <1>2, StepSend

\* A zip sends the combined chunks of a round.
LEMMA ZipMoves ==
    ASSUME NEW a, NEW h, NEW r, NEW t, Moves(a, h, r, t), SendNext(a),
           Kind(a) = "zip"
    PROVE  MetadataFlows' /\ History(h)'
<1>1. PICK l : l = loc[a]
  OBVIOUS
<1>2. PICK m : m = [seq |-> l.count, data |-> Combined(FirstOf(l.hold))]
  OBVIOUS
<1>3. /\ pc[a] = "send" /\ shut' = shut /\ md' = md /\ UNCHANGED netVars
      /\ Send(Out(a)[1], m) /\ loc' = [loc EXCEPT ![a].count = @ + 1]
      /\ Goto(a, "recv")
  BY <1>1, <1>2, SendSteps
<1>4. PICK u : u = [t EXCEPT ![1] = @ + 1]
  OBVIOUS
<1>5. /\ Len(Out(a)) = 1 /\ t \in [1..1 -> Nat]
      /\ DOMAIN u = 1..1 /\ DOMAIN r = 1..Len(In(a))
  BY <1>4, SentOne DEF NodeKinds
<1>6. /\ plan \in Plans /\ a[2] \in 1..Len(plan.kind)
      /\ plan.kind[a[2]] = "zip" /\ ZipMakes(plan, a[2], "send", l, r, t)
      /\ Len(In(a)) = Len(plan.args[a[2]]) /\ Len(In(a)) \in Nat
      /\ r \in [1..Len(In(a)) -> Nat]
  BY <1>1, <1>3, MoverFacts DEF Makes, NodeKinds
<1>7. PICK k : k = loc'[a]
  OBVIOUS
<1>8. /\ HasLocals(k, 1..Len(In(a))) /\ k.count = l.count + 1
      /\ k.at = l.at /\ k.finished = l.finished /\ k.hold = l.hold
  BY <1>1, <1>3, <1>7, CountedLocals
<1>9. /\ t[1] < Size(plan, a[2]) /\ m = Message(plan, a[2], t[1] + 1)
      /\ ZipMakes(plan, a[2], "recv", k, r, u)
  <2>1. PICK n : n = a[2]
    OBVIOUS
  <2>2. PICK i : i = Len(In(a))
    OBVIOUS
  <2>3. /\ plan \in Plans /\ n \in 1..Len(plan.kind) /\ plan.kind[n] = "zip"
        /\ i \in Nat /\ i = Len(plan.args[n]) /\ r \in [1..i -> Nat]
        /\ t \in [1..1 -> Nat] /\ ZipMakes(plan, n, "send", l, r, t)
    BY <1>5, <1>6, <2>1, <2>2
  <2>4. HasLocals(l, 1..i)
    BY <1>1, <2>2, MoverVars
  <2>5. /\ t[1] < Size(plan, n)
        /\ [seq |-> l.count, data |-> Combined(FirstOf(l.hold))] =
                Message(plan, n, t[1] + 1)
        /\ ZipMakes(plan, n, "recv", k, r, [t EXCEPT ![1] = @ + 1])
    BY <1>8, <2>3, <2>4, ZipSends
  <2>. QED
    BY <1>2, <1>4, <2>1, <2>5
<1>10. pc'[a] = "recv" /\ "recv" \notin Early
  BY <1>3, MoverVars DEF Early
<1>11. AllMake(plan, a[2], From(a), pc'[a], loc'[a], r, u)
  BY <1>5, <1>7, <1>8, <1>10, LoopMakes
<1>12. Makes(a, r, u)'
  BY <1>3, <1>7, <1>9, <1>10, <1>11, MakesAfter
<1>. QED
  BY <1>3, <1>4, <1>9, <1>10, <1>12, SendOneMoves DEF NodeKinds

\* A union passes on what it holds.
LEMMA UnionMoves ==
    ASSUME NEW a, NEW h, NEW r, NEW t, Moves(a, h, r, t), SendNext(a),
           Kind(a) = "union"
    PROVE  MetadataFlows' /\ History(h)'
<1>1. PICK l : l = loc[a]
  OBVIOUS
<1>2. PICK m : m = [seq |-> l.hold[l.at][1].seq + l.base,
                    data |-> l.hold[l.at][1].data]
  OBVIOUS
<1>3. /\ pc[a] = "send" /\ shut' = shut /\ md' = md /\ UNCHANGED netVars
      /\ Send(Out(a)[1], m) /\ loc' = [loc EXCEPT ![a].count = @ + 1]
      /\ Goto(a, "recv")
  BY <1>1, <1>2, SendSteps
<1>4. PICK u : u = [t EXCEPT ![1] = @ + 1]
  OBVIOUS
<1>5. /\ Len(Out(a)) = 1 /\ t \in [1..1 -> Nat]
      /\ DOMAIN u = 1..1 /\ DOMAIN r = 1..Len(In(a))
  BY <1>4, SentOne DEF NodeKinds
<1>6. /\ plan \in Plans /\ a[2] \in 1..Len(plan.kind)
      /\ plan.kind[a[2]] = "union" /\ UnionMakes(plan, a[2], "send", l, r, t)
      /\ Len(In(a)) = Len(plan.args[a[2]]) /\ Len(In(a)) \in Nat
      /\ r \in [1..Len(In(a)) -> Nat]
  BY <1>1, <1>3, MoverFacts DEF Makes, NodeKinds
<1>7. PICK k : k = loc'[a]
  OBVIOUS
<1>8. /\ HasLocals(k, 1..Len(In(a))) /\ k.count = l.count + 1
      /\ k.at = l.at /\ k.base = l.base
  BY <1>1, <1>3, <1>7, CountedLocals
<1>9. /\ t[1] < Size(plan, a[2]) /\ m = Message(plan, a[2], t[1] + 1)
      /\ UnionMakes(plan, a[2], "recv", k, r, u)
  <2>1. PICK n : n = a[2]
    OBVIOUS
  <2>2. PICK i : i = Len(In(a))
    OBVIOUS
  <2>3. /\ plan \in Plans /\ n \in 1..Len(plan.kind) /\ plan.kind[n] = "union"
        /\ i \in Nat /\ i = Len(plan.args[n]) /\ r \in [1..i -> Nat]
        /\ t \in [1..1 -> Nat] /\ UnionMakes(plan, n, "send", l, r, t)
    BY <1>5, <1>6, <2>1, <2>2
  <2>4. \A j \in 1..i : r[j] <= Size(plan, plan.args[n][j])
    <3>1. /\ \A j \in DOMAIN In(a) : From(a)[j] = plan.args[a[2]][j]
          /\ DOMAIN In(a) = 1..Len(In(a))
          /\ \A j \in 1..Len(In(a)) : r[j] <= Size(plan, From(a)[j])
      BY MoverFacts DEF NodeKinds
    <3>. QED
      BY <2>1, <2>2, <3>1
  <2>5. /\ t[1] < Size(plan, n)
        /\ [seq |-> l.hold[l.at][1].seq + l.base,
            data |-> l.hold[l.at][1].data] = Message(plan, n, t[1] + 1)
        /\ UnionMakes(plan, n, "recv", k, r, [t EXCEPT ![1] = @ + 1])
    BY <1>8, <2>3, <2>4, UnionSends
  <2>. QED
    BY <1>2, <1>4, <2>1, <2>5
<1>10. pc'[a] = "recv" /\ "recv" \notin Early
  BY <1>3, MoverVars DEF Early
<1>11. AllMake(plan, a[2], From(a), pc'[a], loc'[a], r, u)
  BY <1>5, <1>7, <1>8, <1>10, LoopMakes
<1>12. Makes(a, r, u)'
  BY <1>3, <1>7, <1>9, <1>10, <1>11, MakesAfter
<1>. QED
  BY <1>3, <1>4, <1>9, <1>10, <1>12, SendOneMoves DEF NodeKinds

\* A bounded fanout sends what it holds on its next output.
LEMMA BoundedMoves ==
    ASSUME NEW a, NEW h, NEW r, NEW t, Moves(a, h, r, t), SendNext(a),
           Kind(a) = "bounded"
    PROVE  MetadataFlows' /\ History(h)'
<1>1. PICK l : l = loc[a]
  OBVIOUS
<1>2. PICK m : m = l.hold[1][1]
  OBVIOUS
<1>3. PICK i : i = l.at
  OBVIOUS
<1>4. /\ pc[a] = "send" /\ shut' = shut /\ md' = md /\ UNCHANGED netVars
      /\ Send(Out(a)[i], m)
      /\ IF i < Len(Out(a))
         THEN loc' = [loc EXCEPT ![a].at = i + 1] /\ UNCHANGED pc
         ELSE Goto(a, "recv") /\ UNCHANGED loc
  BY <1>1, <1>2, <1>3, SendSteps
<1>5. PICK u : u = [t EXCEPT ![i] = @ + 1]
  OBVIOUS
<1>6. PICK w : w = Len(Out(a))
  OBVIOUS
<1>7. /\ plan \in Plans /\ w \in Nat /\ t \in [1..w -> Nat]
      /\ DOMAIN Out(a) = 1..w /\ Size(plan, a[2]) \in Nat
      /\ BoundedMakes(plan, a[2], "send", l, r, t)
  BY <1>1, <1>4, <1>6, MoverFacts DEF Makes
<1>8. /\ Len(In(a)) = 1 /\ r \in [1..1 -> Nat] /\ r[1] <= Size(plan, a[2])
  <2>1. Len(In(a)) = 1 /\ r \in [1..1 -> Nat] /\ From(a)[1] = a[2]
    BY OneInput
  <2>2. 1 \in 1..1 /\ \A j \in 1..Len(In(a)) : r[j] <= Size(plan, From(a)[j])
    BY MoverFacts
  <2>. QED
    BY <2>1, <2>2
<1>9. /\ i \in 1..w /\ t[i] < Size(plan, a[2])
      /\ m = Message(plan, a[2], t[i] + 1)
      /\ i < w => \A k : k.at = i + 1 /\ k.hold = l.hold =>
                    BoundedMakes(plan, a[2], "send", k, r, u)
      /\ ~(i < w) => BoundedMakes(plan, a[2], "recv", l, r, u)
  <2>1. PICK n : n = a[2]
    OBVIOUS
  <2>2. Size(plan, n) \in Nat /\ r[1] <= Size(plan, n)
        /\ BoundedMakes(plan, n, "send", l, r, t)
    BY <1>7, <1>8, <2>1
  <2>3. l.at \in 1..w /\ t[l.at] < Size(plan, n)
    BY <1>2, <1>7, <1>8, <2>2, BoundedSends
  <2>4. m = Message(plan, n, t[l.at] + 1)
    <3>1. PICK z : z = r[1]
      OBVIOUS
    <3>2. /\ z \in Nat /\ z > 0 /\ t[l.at] = z - 1
          /\ l.hold[1] = <<Message(plan, n, z)>>
      BY <1>7, <1>8, <2>2, <3>1 DEF BoundedMakes
    <3>3. t[l.at] + 1 = z
      BY <3>2
    <3>. QED
      BY <1>2, <3>2, <3>3
  <2>5. ASSUME l.at < w, NEW k, k.at = l.at + 1, k.hold = l.hold
        PROVE  BoundedMakes(plan, n, "send", k, r, [t EXCEPT ![l.at] = @ + 1])
    BY <1>2, <1>7, <1>8, <2>2, <2>5, BoundedSends
  <2>6. ~(l.at < w) =>
             BoundedMakes(plan, n, "recv", l, r, [t EXCEPT ![l.at] = @ + 1])
    BY <1>2, <1>7, <1>8, <2>2, BoundedSends
  <2>. QED
    BY <1>3, <1>5, <2>1, <2>3, <2>4, <2>5, <2>6
<1>10. "send" \notin Early /\ "recv" \notin Early
  BY DEF Early
<1>11. /\ a \in DOMAIN loc /\ HasLocals(l, 1..1) /\ DOMAIN r = 1..Len(In(a))
       /\ pc' = pc => pc'[a] = pc[a]
       /\ \A x : Goto(a, x) => pc'[a] = x
  BY <1>1, <1>8, MoverVars
<1>12. CASE i < w
  <2>1. PICK k : k = loc'[a]
    OBVIOUS
  <2>2. PICK e : e = i + 1
    OBVIOUS
  <2>3. k = WithAt(l, e)
    BY <1>1, <1>4, <1>6, <1>11, <1>12, <2>1, <2>2 DEF WithAt
  <2>4. HasLocals(k, 1..1) /\ k.at = i + 1 /\ k.hold = l.hold
    BY <1>11, <2>2, <2>3, AtAfter
  <2>5. pc'[a] = "send"
    BY <1>4, <1>6, <1>11, <1>12
  <2>6. AllMake(plan, a[2], From(a), pc'[a], loc'[a], r, u)
    BY <1>8, <1>10, <1>11, <2>1, <2>4, <2>5, LoopMakes
  <2>7. Makes(a, r, u)'
    BY <1>4, <1>9, <1>12, <2>1, <2>4, <2>5, <2>6, MakesAfter
  <2>. QED
    BY <1>4, <1>5, <1>7, <1>9, <1>10, <2>5, <2>7, StepSend
<1>13. CASE ~(i < w)
  <2>1. pc'[a] = "recv" /\ loc'[a] = l
    BY <1>1, <1>4, <1>6, <1>11, <1>13
  <2>2. AllMake(plan, a[2], From(a), pc'[a], loc'[a], r, u)
    BY <1>8, <1>10, <1>11, <2>1, LoopMakes
  <2>3. Makes(a, r, u)'
    BY <1>4, <1>9, <1>13, <2>1, <2>2, MakesAfter
  <2>. QED
    BY <1>4, <1>5, <1>7, <1>9, <1>10, <2>1, <2>3, StepSend
<1>. QED
  BY <1>12, <1>13

\* An actor sends from its loop.
LEMMA SendNextMoves ==
    ASSUME NEW a, NEW h, NEW r, NEW t, Moves(a, h, r, t), SendNext(a)
    PROVE  MetadataFlows' /\ History(h)'
<1>1. pc[a] = "send"
  BY SendSteps
<1>2. /\ Kind(a) \in NodeKinds \cup {"bounded", "unbounded", "sink"}
      /\ pc[a] \in StepsOf(Kind(a))
  BY MoverFacts
<1>3. Kind(a) \in {"source", "map", "reduce", "zip", "union", "bounded"}
  BY <1>1, <1>2 DEF StepsOf, NodeKinds
<1>. QED
  BY <1>3, SourceMoves, MapMoves, ReduceMoves, ZipMoves, UnionMoves, BoundedMoves

\* A step that shuts some channels on which everything has been sent.
LEMMA StepShut ==
    ASSUME NEW a, NEW h, NEW r, NEW t, Moves(a, h, r, t), pc[a] \notin Early,
           pc'[a] \notin Early, NEW k \in DOMAIN Out(a), t[k] = Size(plan, a[2]),
           shut' = shut \cup {Out(a)[k]}, queue' = queue, md' = md,
           Makes(a, r, t)'
    PROVE  MetadataFlows' /\ History(h)'
<1>1. /\ Generated /\ ChannelState /\ a \in Actors /\ OwnStep(a)
      /\ MetadataFlows /\ History(h) /\ r = Taken(a, h) /\ t = Sent(a, h)
  BY DEF Moves
<1>2. PICK c : c = Out(a)[k]
  OBVIOUS
<1>3. h[c] + Len(queue[c]) = Size(plan, c[1])
  <2>1. c[1] = a[2]
    BY <1>1, <1>2, Ends
  <2>2. t[k] = h[c] + Len(queue[c])
    BY <1>1, <1>2 DEF Sent
  <2>. QED
    BY <2>1, <2>2
<1>4. \A d \in Channels : d \in shut' =>
            d \in shut \/ h[d] + Len(queue[d]) = Size(plan, d[1])
  BY <1>2, <1>3
<1>5. History(h)'
  BY <1>1, <1>4, MoveQuiet
<1>6. MetadataFlows'
  BY <1>1, MetadataStays
<1>. QED
  BY <1>5, <1>6

\* An actor that ends has made what it had to make.
LEMMA DoneMakes ==
    ASSUME NEW a, NEW h, NEW r, NEW t, Moves(a, h, r, t), Kind(a) # "sink",
           pc'[a] = "done", loc' = loc, lin' = lin
    PROVE  Makes(a, r, t)'
<1>1. UNCHANGED netVars /\ DOMAIN r = 1..Len(In(a))
      /\ HasLocals(loc'[a], 1..Len(In(a)))
  BY MoverVars
<1>2. "done" \notin Early
  BY DEF Early
<1>3. AllMake(plan, a[2], From(a), pc'[a], loc'[a], r, t)
  BY <1>1, <1>2, LoopMakes
<1>4. /\ SourceMakes(plan, a[2], pc'[a], loc'[a], t)
      /\ MapMakes(plan, a[2], pc'[a], loc'[a], r, t)
      /\ ReduceMakes(plan, a[2], pc'[a], loc'[a], r, t)
      /\ ZipMakes(plan, a[2], pc'[a], loc'[a], r, t)
      /\ UnionMakes(plan, a[2], pc'[a], loc'[a], r, t)
      /\ BoundedMakes(plan, a[2], pc'[a], loc'[a], r, t)
      /\ UnboundedMakes(plan, a[2], pc'[a], fan'[a[2]], r, t, Closed(a)')
  BY <1>2 DEF SourceMakes, MapMakes, ReduceMakes, ZipMakes, UnionMakes,
              BoundedMakes, UnboundedMakes
<1>5. Kind(a) = "scan" =>
        InOrder(plan, a[2], lin'[a[2]]) /\ lin'[a[2]].nextSeq = t[1]
  BY MoverFacts DEF Makes
<1>6. Kind(a) \in {"source", "scan", "map", "reduce", "zip", "union", "bounded",
                   "unbounded"}
  BY MoverFacts DEF NodeKinds
<1>. QED
  BY <1>1, <1>3, <1>4, <1>5, <1>6, MakesAfter

\* An actor drains its outputs and ends.
LEMMA DrainMoves ==
    ASSUME NEW a, NEW h, NEW r, NEW t, Moves(a, h, r, t), Drain(a)
    PROVE  MetadataFlows' /\ History(h)'
<1>1. pc[a] = "drain" /\ "drain" \notin Early
  BY DEF Drain, Early
<1>2. PICK c \in Range(Out(a)) :
        /\ queue[c] = <<>>
        /\ \/ Range(Out(a)) \ {c} \subseteq shut /\ End(a)
           \/ c \notin shut /\ shut' = shut \cup {c}
              /\ UNCHANGED <<queue, md, pc>>
  BY DEF Drain
<1>3. /\ UNCHANGED <<netVars, loc, fan, lin, result>>
  BY DEF Drain
<1>4. PICK k \in DOMAIN Out(a) : c = Out(a)[k]
  BY <1>2 DEF Range
<1>5. /\ DOMAIN In(a) = 1..Len(In(a)) /\ DOMAIN Out(a) = 1..Len(Out(a))
      /\ AllMake(plan, a[2], From(a), pc[a], loc[a], r, t)
      /\ DOMAIN r = 1..Len(In(a)) /\ DOMAIN t = 1..Len(Out(a))
      /\ Kind(a) = "sink" => Out(a) = <<>>
  <2>1. Kind(a) = "sink" => Out(a) = <<>>
    <3>1. Generated /\ a \in Actors
      BY DEF Moves
    <3>2. a[2] \in Nodes
      BY <3>1, Sorts
    <3>3. fanout[a[2]] \in {"none", "bounded", "unbounded"}
      BY <3>1, <3>2, FanoutFacts
    <3>. QED
      BY <3>1, <3>3, Sorts DEF NodeKinds
  <2>. QED
    BY <2>1, MoverFacts, MoverVars
<1>6. /\ \A j \in DOMAIN In(a) : r[j] = Size(plan, From(a)[j])
      /\ \A i \in DOMAIN Out(a) : t[i] = Size(plan, a[2])
  BY <1>1, <1>5 DEF AllMake
<1>7. CASE Range(Out(a)) \ {c} \subseteq shut /\ End(a)
  <2>1. \A i \in DOMAIN Out(a) : queue[Out(a)[i]] = <<>>
    <3>1. ASSUME NEW i \in DOMAIN Out(a)
          PROVE  Out(a)[i] = c \/ Out(a)[i] \in shut
      BY <1>7 DEF Range
    <3>2. \A d \in shut : queue[d] = <<>>
      BY DEF Moves, ChannelState
    <3>. QED
      BY <1>2, <3>1, <3>2
  <2>2. pc'[a] = "done"
    BY <1>7, MoverVars DEF End
  <2>3. Kind(a) # "sink"
    BY <1>4, <1>5
  <2>4. Makes(a, r, t)'
    BY <1>3, <2>2, <2>3, DoneMakes
  <2>. QED
    BY <1>1, <1>6, <1>7, <2>1, <2>4, StepEnd
<1>8. CASE shut' = shut \cup {c} /\ UNCHANGED <<queue, md, pc>>
  <2>1. Makes(a, r, t)'
    <3>1. shut \subseteq shut' /\ pc'[a] = pc[a] /\ loc'[a] = loc[a]
      BY <1>3, <1>8
    <3>. QED
      BY <1>3, <1>8, <3>1, MoverFacts, OthersStay
  <2>. QED
    BY <1>1, <1>4, <1>6, <1>8, <2>1, StepShut
<1>. QED
  BY <1>2, <1>7, <1>8

\* What is known of an unbounded fanout in its main loop.
LEMMA LoopFacts ==
    ASSUME NEW a, NEW h, NEW r, NEW t, Moves(a, h, r, t), pc[a] = "loop"
    PROVE  /\ Kind(a) = "unbounded" /\ pc[a] \notin Early
           /\ a[2] \in DOMAIN fan
           /\ InStep(plan, a[2], fan[a[2]], r, t, Closed(a))
           /\ r \in [1..1 -> Nat] /\ r[1] <= Size(plan, a[2])
           /\ Size(plan, a[2]) \in Nat
           /\ Len(Out(a)) \in Nat /\ t \in [1..Len(Out(a)) -> Nat]
           /\ DOMAIN Out(a) = 1..Len(Out(a))
           /\ Len(In(a)) = 1 /\ DOMAIN In(a) = 1..1 /\ From(a)[1] = a[2]
           /\ In(a)[1] = <<a[2], 0>>
<1>1. Kind(a) = "unbounded"
  <2>1. /\ Kind(a) \in NodeKinds \cup {"bounded", "unbounded", "sink"}
        /\ pc[a] \in StepsOf(Kind(a))
    BY MoverFacts
  <2>. QED
    BY <2>1 DEF StepsOf, NodeKinds
<1>2. /\ Generated /\ a \in Actors /\ Locals
  BY DEF Moves
<1>3. "loop" \notin Early
  BY DEF Early
<1>4. InStep(plan, a[2], fan[a[2]], r, t, Closed(a))
  BY <1>1, MoverFacts DEF Makes, UnboundedMakes
<1>5. a[2] \in DOMAIN fan
  <2>1. a[2] \in Nodes /\ fan = [n \in Nodes |-> fan[n]]
    BY <1>2, Sorts DEF Locals
  <2>. QED
    BY <2>1
<1>6. /\ Len(In(a)) = 1 /\ 1 \in DOMAIN In(a) /\ r \in [1..1 -> Nat]
      /\ From(a)[1] = a[2]
  BY <1>1, OneInput
<1>7. /\ DOMAIN In(a) = 1..1 /\ r[1] <= Size(plan, a[2])
      /\ Size(plan, a[2]) \in Nat
      /\ Len(Out(a)) \in Nat /\ t \in [1..Len(Out(a)) -> Nat]
      /\ DOMAIN Out(a) = 1..Len(Out(a))
  BY <1>6, MoverFacts
<1>8. In(a)[1] = <<a[2], 0>>
  BY <1>1, <1>2, Ends DEF NodeKinds
<1>. QED
  BY <1>1, <1>3, <1>4, <1>5, <1>6, <1>7, <1>8

\* It stays in the loop.
LEMMA LoopStays ==
    ASSUME NEW a, NEW h, NEW r, NEW t, Moves(a, h, r, t), pc[a] = "loop",
           pc' = pc, loc' = loc, NEW s, DOMAIN s = 1..1, NEW u,
           NEW closed, closed \subseteq Closed(a)',
           InStep(plan, a[2], fan'[a[2]], s, u, closed)
    PROVE  Makes(a, s, u)' /\ pc'[a] \notin Early
<1>1. Kind(a) = "unbounded" /\ pc[a] \notin Early /\ Len(In(a)) = 1
  BY LoopFacts
<1>2. /\ UNCHANGED netVars /\ pc'[a] = "loop"
      /\ HasLocals(loc'[a], 1..Len(In(a)))
  BY MoverVars
<1>3. AllMake(plan, a[2], From(a), pc'[a], loc'[a], s, u)
  BY <1>1, <1>2, LoopMakes
<1>4. UnboundedMakes(plan, a[2], pc'[a], fan'[a[2]], s, u, closed)
  BY <1>1, <1>2 DEF UnboundedMakes
<1>5. UnboundedMakes(plan, a[2], pc'[a], fan'[a[2]], s, u, Closed(a)')
  BY <1>4, ClosedGrows
<1>. QED
  BY <1>1, <1>2, <1>3, <1>5, MakesAfter

\* Outputs that are shut stay shut.
LEMMA ClosedStays ==
    ASSUME NEW a, NEW h, NEW r, NEW t, Moves(a, h, r, t)
    PROVE  /\ shut \subseteq shut' => Closed(a) \subseteq Closed(a)'
           /\ \A k \in DOMAIN Out(a) :
                shut' = shut \cup {Out(a)[k]} =>
                    Closed(a) \cup {k} \subseteq Closed(a)'
<1>1. UNCHANGED netVars
  BY MoverVars
<1>2. Out(a)' = Out(a)
  BY <1>1, EndsStay
<1>. QED
  BY <1>2 DEF Closed

\* The receive task of an unbounded fanout.
LEMMA ReceiveTaskMoves ==
    ASSUME NEW a, NEW h, NEW r, NEW t, Moves(a, h, r, t), ReceiveTask(a)
    PROVE  MetadataFlows' /\ \E g : History(g)'
<1>1. /\ pc[a] = "loop" /\ pc' = pc /\ loc' = loc /\ shut' = shut /\ md' = md
      /\ fan[a[2]].recv = "wait"
  BY DEF ReceiveTask
<1>2. PICK n : n = a[2]
  OBVIOUS
<1>3. PICK f : f = fan[n]
  OBVIOUS
<1>4. PICK w : w = Len(Out(a))
  OBVIOUS
<1>5. PICK closed : closed = Closed(a)
  OBVIOUS
<1>6. /\ pc[a] \notin Early /\ n \in DOMAIN fan
      /\ InStep(plan, n, f, r, t, closed) /\ r \in [1..1 -> Nat]
      /\ w \in Nat /\ t \in [1..w -> Nat]
      /\ Len(In(a)) = 1 /\ 1 \in DOMAIN In(a) /\ From(a)[1] = n
      /\ In(a)[1] = <<n, 0>>
  <2>1. 1 \in 1..1
    OBVIOUS
  <2>. QED
    BY <1>1, <1>2, <1>3, <1>4, <1>5, <2>1, LoopFacts
<1>7. closed \subseteq Closed(a)'
  BY <1>1, <1>5, ClosedStays
<1>8. PICK k : k = fan'[n]
  OBVIOUS
<1>9. CASE /\ queue[In(a)[1]] # <<>>
           /\ fan' = [fan EXCEPT ![n].recv = "msg",
                                 ![n].prefetched = <<Head(queue[In(a)[1]])>>]
           /\ queue' = [queue EXCEPT ![In(a)[1]] = Tail(@)]
  <2>1. PICK m : m = Head(queue[In(a)[1]])
    OBVIOUS
  <2>2. m = Message(plan, n, r[1] + 1)
    BY <1>6, <1>9, <2>1, Receives
  <2>3. k = [f EXCEPT !.recv = "msg", !.prefetched = <<m>>]
    BY <1>3, <1>6, <1>8, <1>9, <2>1
  <2>4. PICK s : s = [r EXCEPT ![1] = @ + 1]
    OBVIOUS
  <2>5. InStep(plan, n, k, s, t, closed)
    <3>1. f.recv = "wait"
      BY <1>1, <1>2, <1>3
    <3>2. k = [f EXCEPT !.recv = "msg",
                        !.prefetched = <<Message(plan, n, r[1] + 1)>>]
      BY <2>2, <2>3
    <3>3. InStep(plan, n, k, [r EXCEPT ![1] = @ + 1], t, closed)
      BY <1>6, <3>1, <3>2, FanoutReceives
    <3>. QED
      BY <2>4, <3>3
  <2>6. Makes(a, s, t)' /\ pc'[a] \notin Early
    <3>1. DOMAIN s = 1..1
      BY <1>6, <2>4
    <3>. QED
      BY <1>1, <1>2, <1>7, <1>8, <2>5, <3>1, LoopStays
  <2>. QED
    BY <1>1, <1>6, <1>9, <2>4, <2>6, StepReceive
<1>10. CASE /\ Ended(In(a)[1]) /\ queue' = queue
            /\ fan' = [fan EXCEPT ![n].recv = "eof"]
  <2>1. r[1] = Size(plan, n)
    BY <1>6, <1>10, Receives
  <2>2. k = [f EXCEPT !.recv = "eof"]
    BY <1>3, <1>6, <1>8, <1>10
  <2>3. InStep(plan, n, k, r, t, closed)
    <3>1. f.recv = "wait"
      BY <1>1, <1>2, <1>3
    <3>. QED
      BY <1>6, <2>1, <2>2, <3>1, FanoutEnds
  <2>4. Makes(a, r, t)' /\ pc'[a] \notin Early
    <3>1. DOMAIN r = 1..1
      BY <1>6
    <3>. QED
      BY <1>1, <1>2, <1>7, <1>8, <2>3, <3>1, LoopStays
  <2>5. UNCHANGED chanVars
    BY <1>1, <1>10 DEF chanVars
  <2>6. MetadataFlows' /\ History(h)'
    BY <1>6, <2>4, <2>5, StepQuiet
  <2>. QED
    BY <2>6
<1>. QED
  BY <1>2, <1>6, <1>9, <1>10 DEF ReceiveTask

\* The send and drain tasks of its outputs.
LEMMA OutputTaskMoves ==
    ASSUME NEW a, NEW h, NEW r, NEW t, Moves(a, h, r, t), OutputTask(a)
    PROVE  MetadataFlows' /\ History(h)'
<1>1. pc[a] = "loop" /\ pc' = pc /\ loc' = loc /\ md' = md
  BY DEF OutputTask
<1>2. PICK n : n = a[2]
  OBVIOUS
<1>3. PICK f : f = fan[n]
  OBVIOUS
<1>4. PICK w : w = Len(Out(a))
  OBVIOUS
<1>5. PICK closed : closed = Closed(a)
  OBVIOUS
<1>6. /\ pc[a] \notin Early /\ n \in DOMAIN fan
      /\ InStep(plan, n, f, r, t, closed) /\ r \in [1..1 -> Nat]
      /\ w \in Nat /\ t \in [1..w -> Nat] /\ DOMAIN Out(a) = 1..w
      /\ Size(plan, n) \in Nat /\ r[1] <= Size(plan, n)
  BY <1>1, <1>2, <1>3, <1>4, <1>5, LoopFacts
<1>7. PICK g : g = fan'[n]
  OBVIOUS
<1>8. PICK k \in DOMAIN Out(a) :
        \/ /\ f.task[k] = "send"
           /\ Send(Out(a)[k], Head(f.buffer[k]))
           /\ fan' = [fan EXCEPT ![n].task[k] = "done", ![n].buffer[k] = Tail(@)]
           /\ shut' = shut
        \/ /\ f.task[k] = "drain" /\ queue[Out(a)[k]] = <<>>
           /\ shut' = shut \cup {Out(a)[k]}
           /\ fan' = [fan EXCEPT ![n].task[k] = "done"]
           /\ queue' = queue
  BY <1>2, <1>3 DEF OutputTask
<1>9. k \in 1..w /\ DOMAIN r = 1..1
  BY <1>6, <1>8
<1>10. CASE /\ f.task[k] = "send"
            /\ Send(Out(a)[k], Head(f.buffer[k]))
            /\ fan' = [fan EXCEPT ![n].task[k] = "done",
                                  ![n].buffer[k] = Tail(@)]
            /\ shut' = shut
  <2>1. g = [f EXCEPT !.task[k] = "done", !.buffer[k] = Tail(@)]
    BY <1>3, <1>6, <1>7, <1>10
  <2>2. PICK u : u = [t EXCEPT ![k] = @ + 1]
    OBVIOUS
  <2>2a. PICK m : m = Head(f.buffer[k])
    OBVIOUS
  <2>3. /\ t[k] < Size(plan, n) /\ m = Message(plan, n, t[k] + 1)
        /\ InStep(plan, n, g, r, u, closed)
    <3>1. t[k] < Size(plan, n)
      BY <1>6, <1>9, <1>10, <2>1, FanoutSends
    <3>2. IsNext(plan, n, t[k], m)
      BY <1>6, <1>9, <1>10, <2>1, <2>2a, FanoutSends
    <3>3. InStep(plan, n, g, r, [t EXCEPT ![k] = @ + 1], closed)
      BY <1>6, <1>9, <1>10, <2>1, FanoutSends
    <3>. QED
      BY <2>2, <3>1, <3>2, <3>3 DEF IsNext
  <2>4. closed \subseteq Closed(a)'
    BY <1>5, <1>10, ClosedStays
  <2>5. Makes(a, r, u)' /\ pc'[a] \notin Early
    BY <1>1, <1>2, <1>7, <1>9, <2>3, <2>4, LoopStays
  <2>. QED
    BY <1>1, <1>2, <1>6, <1>8, <1>10, <2>2, <2>2a, <2>3, <2>5, StepSend
<1>11. CASE /\ f.task[k] = "drain" /\ queue[Out(a)[k]] = <<>>
            /\ shut' = shut \cup {Out(a)[k]}
            /\ fan' = [fan EXCEPT ![n].task[k] = "done"]
            /\ queue' = queue
  <2>1. g = [f EXCEPT !.task[k] = "done"]
    BY <1>3, <1>6, <1>7, <1>11
  <2>2. /\ t[k] = Size(plan, n)
        /\ InStep(plan, n, g, r, t, closed \cup {k})
    <3>1. AreAll(plan, n, t[k])
      BY <1>6, <1>9, <1>11, <2>1, FanoutDrains
    <3>2. InStep(plan, n, g, r, t, closed \cup {k})
      BY <1>6, <1>9, <1>11, <2>1, FanoutDrains
    <3>. QED
      BY <3>1, <3>2 DEF AreAll
  <2>3. closed \cup {k} \subseteq Closed(a)'
    BY <1>5, <1>8, <1>11, ClosedStays
  <2>4. Makes(a, r, t)' /\ pc'[a] \notin Early
    BY <1>1, <1>2, <1>7, <1>9, <2>2, <2>3, LoopStays
  <2>. QED
    BY <1>1, <1>2, <1>6, <1>8, <1>11, <2>2, <2>4, StepShut
<1>. QED
  BY <1>8, <1>10, <1>11

\* A round of the main loop takes the variables of fanout n from f to g.
RoundTakes(a, n, f, g) ==
    /\ MainLoop(a) /\ n = a[2] /\ n \in DOMAIN fan
    /\ f = fan[n] /\ g = fan'[n]

\* A round of the main loop, by its parts.
LEMMA RoundOfLoop ==
    ASSUME NEW a, NEW n, NEW f, NEW g, RoundTakes(a, n, f, g)
    PROVE  /\ \E receiving, can \in BOOLEAN :
                g = StartTasks(HandleDone(f, receiving, can))
           /\ \/ /\ g.recv = "none" /\ g.needsDrain = {}
                 /\ \A k \in DOMAIN g.task :
                        g.task[k] = "none" /\ g.buffer[k] = <<>>
                 /\ End(a)
              \/ UNCHANGED <<chanVars, pc>>
           /\ pc[a] = "loop" /\ loc' = loc /\ lin' = lin
<1>. SUFFICES ASSUME MainLoop(a), a[2] \in DOMAIN fan, n = a[2],
                     f = fan[n], g = fan'[n]
              PROVE  /\ \E receiving, can \in BOOLEAN :
                          g = StartTasks(HandleDone(f, receiving, can))
                     /\ \/ /\ g.recv = "none" /\ g.needsDrain = {}
                           /\ \A k \in DOMAIN g.task :
                                g.task[k] = "none" /\ g.buffer[k] = <<>>
                           /\ End(a)
                        \/ UNCHANGED <<chanVars, pc>>
                     /\ pc[a] = "loop" /\ loc' = loc /\ lin' = lin
  BY DEF RoundTakes
<1>1. PICK receiving \in BOOLEAN :
            receiving <=> f.canReceive /\ f.recv \in {"msg", "eof"}
  OBVIOUS
<1>2. PICK can \in BOOLEAN :
        fan' = [fan EXCEPT ![n] =
            StartTasks(HandleDone(f, f.canReceive /\ f.recv \in {"msg", "eof"},
                                  can))]
  BY DEF MainLoop
<1>3. (f.canReceive /\ f.recv \in {"msg", "eof"}) = receiving
  BY <1>1
<1>4. g = StartTasks(HandleDone(f, receiving, can))
  BY <1>2, <1>3
<1>5. \/ /\ g.recv = "none" /\ g.needsDrain = {}
         /\ \A k \in DOMAIN g.task : g.task[k] = "none" /\ g.buffer[k] = <<>>
         /\ End(a)
      \/ UNCHANGED <<chanVars, pc>>
  BY DEF MainLoop
<1>6. pc[a] = "loop" /\ loc' = loc /\ lin' = lin
  BY DEF MainLoop
<1>. QED
  BY <1>4, <1>5, <1>6

\* The main loop of an unbounded fanout.
LEMMA MainLoopMoves ==
    ASSUME NEW a, NEW h, NEW r, NEW t, Moves(a, h, r, t), MainLoop(a)
    PROVE  MetadataFlows' /\ History(h)'
<1>1. pc[a] = "loop"
  BY DEF MainLoop
<1>2. PICK n : n = a[2]
  OBVIOUS
<1>3. PICK f : f = fan[n]
  OBVIOUS
<1>4. PICK w : w = Len(Out(a))
  OBVIOUS
<1>5. PICK closed : closed = Closed(a)
  OBVIOUS
<1>6. /\ pc[a] \notin Early /\ n \in DOMAIN fan /\ Kind(a) = "unbounded"
      /\ InStep(plan, n, f, r, t, closed) /\ r \in [1..1 -> Nat]
      /\ w \in Nat /\ t \in [1..w -> Nat] /\ DOMAIN Out(a) = 1..w
      /\ DOMAIN In(a) = 1..1 /\ From(a)[1] = n
  BY <1>1, <1>2, <1>3, <1>4, <1>5, LoopFacts
<1>7. PICK g : g = fan'[n]
  OBVIOUS
<1>8. /\ \E receiving, can \in BOOLEAN :
            g = StartTasks(HandleDone(f, receiving, can))
      /\ \/ /\ g.recv = "none" /\ g.needsDrain = {}
            /\ \A k \in DOMAIN g.task :
                   g.task[k] = "none" /\ g.buffer[k] = <<>>
            /\ End(a)
         \/ UNCHANGED <<chanVars, pc>>
      /\ loc' = loc /\ lin' = lin
  <2>1. RoundTakes(a, n, f, g)
    BY <1>2, <1>3, <1>6, <1>7 DEF RoundTakes
  <2>. QED
    BY <2>1, RoundOfLoop
<1>9. InStep(plan, n, g, r, t, closed)
  <2>1. PICK receiving, can \in BOOLEAN :
            g = StartTasks(HandleDone(f, receiving, can))
    BY <1>8
  <2>2. PICK i : i = HandleDone(f, receiving, can)
    OBVIOUS
  <2>3. InStep(plan, n, i, r, t, closed)
    BY <1>6, <2>2, FanoutHandles
  <2>. QED
    BY <1>6, <2>1, <2>2, <2>3, FanoutGoesOn
<1>10. CASE UNCHANGED <<chanVars, pc>>
  <2>1. closed \subseteq Closed(a)'
    BY <1>5, <1>10, ClosedStays DEF chanVars
  <2>2. Makes(a, r, t)' /\ pc'[a] \notin Early
    <3>1. DOMAIN r = 1..1
      BY <1>6
    <3>. QED
      BY <1>1, <1>2, <1>7, <1>8, <1>9, <1>10, <2>1, <3>1, LoopStays
  <2>. QED
    BY <1>6, <1>10, <2>2, StepQuiet
<1>11. CASE /\ g.recv = "none" /\ g.needsDrain = {}
            /\ \A k \in DOMAIN g.task :
                   g.task[k] = "none" /\ g.buffer[k] = <<>>
            /\ End(a)
  <2>1. \A k \in 1..w : g.task[k] = "none" /\ g.buffer[k] = <<>>
    <3>1. DOMAIN t = 1..w
      BY <1>6
    <3>2. g.task = [k \in 1..w |-> g.task[k]]
      BY <1>9, <3>1 DEF InStep, FanoutShape
    <3>. QED
      BY <1>11, <3>2
  <2>2. AreAll(plan, n, r[1])
    BY <1>6, <1>9, <1>11, <2>1, FanoutDone
  <2>3. \A k \in 1..w : k \in closed /\ AreAll(plan, n, t[k])
    BY <1>6, <1>9, <1>11, <2>1, FanoutDone
  <2>4. \A k \in DOMAIN Out(a) : /\ t[k] = Size(plan, n)
                                 /\ queue[Out(a)[k]] = <<>>
    <3>1. \A d \in shut : queue[d] = <<>>
      BY DEF Moves, ChannelState
    <3>. QED
      BY <1>5, <1>6, <2>3, <3>1 DEF AreAll, Closed
  <2>5. \A j \in DOMAIN In(a) : r[j] = Size(plan, From(a)[j])
    BY <1>6, <2>2 DEF AreAll
  <2>6. pc'[a] = "done"
    BY <1>11, MoverVars DEF End
  <2>7. Makes(a, r, t)'
    BY <1>6, <1>8, <2>6, DoneMakes
  <2>. QED
    BY <1>2, <1>6, <1>11, <2>4, <2>5, <2>7, StepEnd
<1>. QED
  BY <1>8, <1>10, <1>11

\* What is known of a scan that forwards its chunks.
LEMMA ScanFacts ==
    ASSUME NEW a, NEW h, NEW r, NEW t, Moves(a, h, r, t),
           pc[a] \in {"forward", "wait"}
    PROVE  /\ Kind(a) = "scan" /\ pc[a] \notin Early
           /\ plan \in Plans /\ a[2] \in 1..Len(plan.kind)
           /\ plan.kind[a[2]] = "scan" /\ plan.chunks[a[2]] \in Nat
           /\ a[2] \in DOMAIN lin
           /\ Linearised(lin[a[2]]) /\ InOrder(plan, a[2], lin[a[2]])
           /\ lin[a[2]].nextSeq = t[1] /\ t[1] <= Size(plan, a[2])
           /\ t \in [1..1 -> Nat] /\ Len(In(a)) = 0 /\ Len(Out(a)) = 1
           /\ 1 \in DOMAIN Out(a) /\ Out(a)[1] = <<a[2], 0>>
<1>1. Kind(a) = "scan"
  <2>1. /\ Kind(a) \in NodeKinds \cup {"bounded", "unbounded", "sink"}
        /\ pc[a] \in StepsOf(Kind(a))
    BY MoverFacts
  <2>. QED
    BY <2>1 DEF StepsOf, NodeKinds
<1>2. Generated /\ Linearisers /\ a \in Actors
  BY DEF Moves
<1>3. pc[a] \notin Early
  BY DEF Early
<1>4. /\ plan \in Plans /\ a[2] \in 1..Len(plan.kind)
      /\ plan.kind[a[2]] = "scan" /\ Len(In(a)) = Len(plan.args[a[2]])
      /\ InOrder(plan, a[2], lin[a[2]]) /\ lin[a[2]].nextSeq = t[1]
      /\ Len(Out(a)) = 1 /\ DOMAIN Out(a) = 1..Len(Out(a))
      /\ t \in [1..Len(Out(a)) -> Nat]
      /\ \A k \in 1..Len(Out(a)) : t[k] <= Size(plan, a[2])
  BY <1>1, MoverFacts DEF Makes, NodeKinds
<1>5. 1 \in 1..1
  OBVIOUS
<1>6. Len(In(a)) = 0 /\ plan.chunks[a[2]] \in Nat
  BY <1>4, PlanFacts
<1>7. a[2] \in DOMAIN lin /\ Linearised(lin[a[2]])
  <2>1. a[2] \in Nodes
    BY <1>4 DEF Nodes
  <2>. QED
    BY <1>2, <2>1 DEF Linearisers
<1>8. Out(a)[1] = <<a[2], 0>>
  BY <1>1, <1>2, Ends DEF NodeKinds
<1>. QED
  BY <1>1, <1>3, <1>4, <1>5, <1>6, <1>7, <1>8

\* It goes on in order.
LEMMA ScanStays ==
    ASSUME NEW a, NEW h, NEW r, NEW t, Moves(a, h, r, t),
           pc[a] \in {"forward", "wait"}, pc'[a] \in {"forward", "wait"},
           loc' = loc, NEW u, InOrder(plan, a[2], lin'[a[2]]),
           lin'[a[2]].nextSeq = u[1]
    PROVE  Makes(a, r, u)' /\ pc'[a] \notin Early
<1>1. Kind(a) = "scan"
  BY ScanFacts
<1>2. /\ UNCHANGED netVars /\ DOMAIN r = 1..Len(In(a))
      /\ HasLocals(loc'[a], 1..Len(In(a)))
  BY MoverVars
<1>3. pc'[a] \notin Early /\ pc'[a] # "drain"
  BY DEF Early
<1>4. AllMake(plan, a[2], From(a), pc'[a], loc'[a], r, u)
  BY <1>2, <1>3, LoopMakes
<1>. QED
  BY <1>1, <1>2, <1>3, <1>4, MakesAfter

\* The state of a Lineariser is a record.
LEMMA LineariserRecord ==
    ASSUME NEW s, Linearised(s)
    PROVE  s = [producer |-> s.producer, next |-> s.next, inbox |-> s.inbox,
                slot |-> s.slot, pending |-> s.pending, buffer |-> s.buffer,
                nextSeq |-> s.nextSeq]
BY DEF Linearised, LineariserStates

\* A producer of a scan takes a step.
LEMMA ProduceMoves ==
    ASSUME NEW a, NEW h, NEW r, NEW t, Moves(a, h, r, t), Produce(a)
    PROVE  MetadataFlows' /\ History(h)'
<1>1. /\ pc[a] \in {"forward", "wait"} /\ pc' = pc /\ loc' = loc
      /\ UNCHANGED chanVars
  BY DEF Produce
<1>2. PICK n : n = a[2]
  OBVIOUS
<1>3. PICK s : s = lin[n]
  OBVIOUS
<1>4. PICK v : v = lin'[n]
  OBVIOUS
<1>5. PICK P : P = Len(s.producer)
  OBVIOUS
<1>6. /\ n \in DOMAIN lin /\ Linearised(s) /\ InOrder(plan, n, s)
      /\ s.nextSeq = t[1] /\ plan.chunks[n] \in Nat /\ pc[a] \notin Early
  BY <1>1, <1>2, <1>3, ScanFacts
<1>7. PICK i \in 1..P :
        \/ /\ s.producer[i] = "acquire"
           /\ lin' = [lin EXCEPT ![n].producer[i] = "read",
                                 ![n].slot[i] = FALSE]
        \/ /\ s.producer[i] = "read"
           /\ lin' = [lin EXCEPT
                ![n].inbox[i] =
                    Append(@, [seq |-> s.next[i],
                               data |-> <<<<n, s.next[i]>>>>]),
                ![n].next[i] = @ + P,
                ![n].producer[i] =
                    IF s.next[i] + P < plan.chunks[n] THEN "acquire"
                    ELSE "drain"]
        \/ /\ s.producer[i] = "drain" /\ s.inbox[i] = <<>>
           /\ lin' = [lin EXCEPT ![n].producer[i] = "done"]
  BY <1>2, <1>3, <1>5 DEF Produce
<1>8. i \in DOMAIN s.producer
  BY <1>5, <1>6, <1>7, Fields
<1>9. s = [producer |-> s.producer, next |-> s.next, inbox |-> s.inbox,
           slot |-> s.slot, pending |-> s.pending, buffer |-> s.buffer,
           nextSeq |-> s.nextSeq]
  BY <1>6, LineariserRecord
<1>10. ASSUME /\ s.producer[i] = "acquire"
            /\ lin' = [lin EXCEPT ![n].producer[i] = "read",
                                  ![n].slot[i] = FALSE]
       PROVE InOrder(plan, n, v) /\ v.nextSeq = s.nextSeq
  <2>1. v = [s EXCEPT !.producer[i] = "read", !.slot[i] = FALSE]
    BY <1>3, <1>4, <1>6, <1>10
  <2>2. /\ v.producer = [s.producer EXCEPT ![i] = "read"]
        /\ v.next = s.next /\ v.inbox = s.inbox /\ v.buffer = s.buffer
        /\ v.pending = s.pending /\ v.nextSeq = s.nextSeq
    BY <1>9, <2>1
  <2>3. InOrder(plan, n, v)
    BY <1>6, <1>8, <1>10, <2>2, GoesOnInOrder
  <2>. QED
    BY <2>2, <2>3
<1>11. ASSUME /\ s.producer[i] = "read"
            /\ lin' = [lin EXCEPT
                 ![n].inbox[i] =
                     Append(@, [seq |-> s.next[i],
                                data |-> <<<<n, s.next[i]>>>>]),
                 ![n].next[i] = @ + P,
                 ![n].producer[i] =
                     IF s.next[i] + P < plan.chunks[n] THEN "acquire"
                     ELSE "drain"]
       PROVE InOrder(plan, n, v) /\ v.nextSeq = s.nextSeq
  <2>1. PICK m : m = [seq |-> s.next[i], data |-> <<<<n, s.next[i]>>>>]
    OBVIOUS
  <2>2. PICK l : l = IF s.next[i] + P < plan.chunks[n] THEN "acquire"
                     ELSE "drain"
    OBVIOUS
  <2>3. v = [s EXCEPT !.inbox[i] = Append(@, m), !.next[i] = @ + P,
                      !.producer[i] = l]
    BY <1>3, <1>4, <1>6, <1>11, <2>1, <2>2
  <2>4. /\ v.producer = [s.producer EXCEPT ![i] = l]
        /\ v.next = [s.next EXCEPT ![i] = @ + P]
        /\ v.inbox = [s.inbox EXCEPT ![i] = Append(@, m)]
        /\ v.buffer = s.buffer /\ v.pending = s.pending
        /\ v.nextSeq = s.nextSeq
    BY <1>9, <2>3
  <2>5. AfterRead(plan, n, s, i, P, l, m, v)
    BY <1>5, <2>1, <2>2, <2>4 DEF AfterRead
  <2>6. InOrder(plan, n, v)
    BY <1>6, <1>8, <1>11, <2>5, ProducesInOrder
  <2>. QED
    BY <2>4, <2>6
<1>12. ASSUME /\ s.producer[i] = "drain" /\ s.inbox[i] = <<>>
            /\ lin' = [lin EXCEPT ![n].producer[i] = "done"]
       PROVE InOrder(plan, n, v) /\ v.nextSeq = s.nextSeq
  <2>1. v = [s EXCEPT !.producer[i] = "done"]
    BY <1>3, <1>4, <1>6, <1>12
  <2>2. /\ v.producer = [s.producer EXCEPT ![i] = "done"]
        /\ v.next = s.next /\ v.inbox = s.inbox /\ v.buffer = s.buffer
        /\ v.pending = s.pending /\ v.nextSeq = s.nextSeq
    BY <1>9, <2>1
  <2>3. InOrder(plan, n, v)
    BY <1>6, <1>8, <1>12, <2>2, GoesOnInOrder
  <2>. QED
    BY <2>2, <2>3
<1>13. InOrder(plan, n, v) /\ v.nextSeq = s.nextSeq
  BY <1>7, <1>10, <1>11, <1>12
<1>14. Makes(a, r, t)' /\ pc'[a] \notin Early
  <2>1. pc'[a] \in {"forward", "wait"}
    BY <1>1
  <2>. QED
    BY <1>1, <1>2, <1>4, <1>6, <1>13, <2>1, ScanStays
<1>. QED
  BY <1>1, <1>6, <1>14, StepQuiet

\* The Lineariser buffers what has arrived.
LEMMA CollectMoves ==
    ASSUME NEW a, NEW h, NEW r, NEW t, Moves(a, h, r, t), Collect(a)
    PROVE  MetadataFlows' /\ History(h)'
<1>1. /\ pc[a] = "wait" /\ Goto(a, "forward") /\ loc' = loc
      /\ UNCHANGED chanVars
  BY DEF Collect
<1>2. PICK n : n = a[2]
  OBVIOUS
<1>3. PICK s : s = lin[n]
  OBVIOUS
<1>4. PICK v : v = lin'[n]
  OBVIOUS
<1>5. PICK done : done = {i \in s.pending :
                            s.inbox[i] # <<>> \/ s.producer[i] = "done"}
  OBVIOUS
<1>6. /\ n \in DOMAIN lin /\ Linearised(s) /\ InOrder(plan, n, s)
      /\ s.nextSeq = t[1] /\ pc[a] \notin Early
  BY <1>1, <1>2, <1>3, ScanFacts
<1>7. v = BufferReceived(s, done)
  <2>1. lin' = [lin EXCEPT ![n] = BufferReceived(s, done)]
    BY <1>2, <1>3, <1>5 DEF Collect, BufferReceived
  <2>. QED
    BY <1>4, <1>6, <2>1
<1>8. InOrder(plan, n, v)
  BY <1>5, <1>6, <1>7, CollectsInOrder
<1>9. v.nextSeq = s.nextSeq
  BY <1>6, <1>7, LineariserRecord DEF BufferReceived
<1>10. Makes(a, r, t)' /\ pc'[a] \notin Early
  <2>1. pc'[a] \in {"forward", "wait"}
    BY <1>1, MoverVars
  <2>. QED
    BY <1>1, <1>2, <1>4, <1>6, <1>8, <1>9, <2>1, ScanStays
<1>. QED
  BY <1>1, <1>6, <1>10, StepQuiet

\* The Lineariser forwards a chunk, waits for more, or has forwarded all.
LEMMA ForwardMoves ==
    ASSUME NEW a, NEW h, NEW r, NEW t, Moves(a, h, r, t), Forward(a)
    PROVE  MetadataFlows' /\ History(h)'
<1>1. pc[a] = "forward" /\ loc' = loc /\ shut' = shut /\ md' = md
  BY DEF Forward
<1>2. PICK n : n = a[2]
  OBVIOUS
<1>3. PICK s : s = lin[n]
  OBVIOUS
<1>4. PICK v : v = lin'[n]
  OBVIOUS
<1>5. /\ Kind(a) = "scan" /\ pc[a] \notin Early
      /\ plan \in Plans /\ n \in 1..Len(plan.kind) /\ plan.kind[n] = "scan"
      /\ plan.chunks[n] \in Nat /\ n \in DOMAIN lin
      /\ Linearised(s) /\ InOrder(plan, n, s) /\ s.nextSeq = t[1]
      /\ t[1] <= Size(plan, n) /\ t \in [1..1 -> Nat]
      /\ Len(In(a)) = 0 /\ Len(Out(a)) = 1 /\ 1 \in DOMAIN Out(a)
      /\ Out(a)[1] = <<n, 0>>
  BY <1>1, <1>2, <1>3, ScanFacts
<1>6. /\ UNCHANGED netVars /\ DOMAIN r = 1..Len(In(a))
      /\ HasLocals(loc'[a], 1..Len(In(a)))
      /\ \A x : Goto(a, x) => pc'[a] = x
      /\ pc' = pc => pc'[a] = pc[a]
  BY <1>1, MoverVars
<1>7. \/ \E m \in s.buffer :
            /\ \/ m.seq = s.nextSeq
               \/ s.pending = {} /\ \A o \in s.buffer : m.seq <= o.seq
            /\ Send(<<n, 0>>, m) /\ pc' = pc
            /\ lin' = [lin EXCEPT
                    ![n].buffer = @ \ {m},
                    ![n].slot[ProducerOf(s, m.seq)] = TRUE,
                    ![n].pending = @ \cup {ProducerOf(s, m.seq)},
                    ![n].nextSeq = @ + 1]
      \/ Goto(a, "wait") /\ UNCHANGED <<queue, lin>>
      \/ /\ s.buffer = {} /\ s.pending = {}
         /\ Goto(a, "drain") /\ UNCHANGED <<queue, lin>>
  BY <1>2, <1>3 DEF Forward
<1>8. ASSUME NEW m \in s.buffer,
             \/ m.seq = s.nextSeq
             \/ s.pending = {} /\ \A o \in s.buffer : m.seq <= o.seq,
             Send(<<n, 0>>, m), pc' = pc,
             lin' = [lin EXCEPT
                    ![n].buffer = @ \ {m},
                    ![n].slot[ProducerOf(s, m.seq)] = TRUE,
                    ![n].pending = @ \cup {ProducerOf(s, m.seq)},
                    ![n].nextSeq = @ + 1]
      PROVE  MetadataFlows' /\ History(h)'
  <2>1. PICK i : i = ProducerOf(s, m.seq)
    OBVIOUS
  <2>2. v = [s EXCEPT !.buffer = @ \ {m}, !.slot[i] = TRUE,
                      !.pending = @ \cup {i}, !.nextSeq = @ + 1]
    BY <1>3, <1>4, <1>5, <1>8, <2>1
  <2>3. s = [producer |-> s.producer, next |-> s.next, inbox |-> s.inbox,
             slot |-> s.slot, pending |-> s.pending, buffer |-> s.buffer,
             nextSeq |-> s.nextSeq]
    BY <1>5, LineariserRecord
  <2>4. AfterForward(s, i, m, v)
    BY <2>1, <2>2, <2>3 DEF AfterForward
  <2>5. /\ s.nextSeq < Size(plan, n) /\ IsNext(plan, n, s.nextSeq, m)
        /\ InOrder(plan, n, v)
    BY <1>5, <1>8, <2>4, ForwardsInOrder
  <2>6. PICK u : u = [t EXCEPT ![1] = @ + 1]
    OBVIOUS
  <2>7. v.nextSeq = u[1]
    BY <1>5, <2>4, <2>6 DEF AfterForward
  <2>8. pc'[a] \in {"forward", "wait"}
    BY <1>1, <1>6, <1>8
  <2>9. Makes(a, r, u)' /\ pc'[a] \notin Early
    BY <1>1, <1>2, <1>4, <2>5, <2>7, <2>8, ScanStays
  <2>10. t[1] < Size(plan, a[2]) /\ m = Message(plan, a[2], t[1] + 1)
    BY <1>2, <1>5, <2>5 DEF IsNext
  <2>11. Send(Out(a)[1], m)
    BY <1>5, <1>8
  <2>. QED
    BY <1>1, <1>5, <2>6, <2>9, <2>10, <2>11, StepSend
<1>9. CASE Goto(a, "wait") /\ UNCHANGED <<queue, lin>>
  <2>1. pc'[a] \in {"forward", "wait"} /\ lin' = lin
    BY <1>6, <1>9
  <2>2. Makes(a, r, t)' /\ pc'[a] \notin Early
    BY <1>1, <1>2, <1>3, <1>5, <2>1, ScanStays
  <2>3. UNCHANGED chanVars
    BY <1>1, <1>9 DEF chanVars
  <2>. QED
    BY <1>5, <2>2, <2>3, StepQuiet
<1>10. CASE /\ s.buffer = {} /\ s.pending = {}
            /\ Goto(a, "drain") /\ UNCHANGED <<queue, lin>>
  <2>1. pc'[a] = "drain" /\ lin' = lin
    BY <1>6, <1>10
  <2>2. AreAll(plan, n, s.nextSeq)
    BY <1>5, <1>10, AllForwarded
  <2>3. AllMake(plan, a[2], From(a), pc'[a], loc'[a], r, t)
    <3>1. \A j \in 1..Len(In(a)) : r[j] = Size(plan, From(a)[j])
      BY <1>5
    <3>2. \A j \in 1..1 : j = 1
      OBVIOUS
    <3>3. \A j \in 1..Len(Out(a)) : t[j] = Size(plan, a[2])
      BY <1>2, <1>5, <2>2, <3>2 DEF AreAll
    <3>4. DOMAIN t = 1..Len(Out(a))
      BY <1>5
    <3>. QED
      BY <1>6, <2>1, <3>1, <3>3, <3>4, DrainMakes
  <2>4. Makes(a, r, t)'
    BY <1>2, <1>3, <1>5, <1>6, <2>1, <2>3, MakesAfter
  <2>5. UNCHANGED chanVars /\ pc'[a] \notin Early
    BY <1>1, <1>10, <2>1 DEF chanVars, Early
  <2>. QED
    BY <1>5, <2>4, <2>5, StepQuiet
<1>. QED
  BY <1>7, <1>8, <1>9, <1>10

-----------------------------------------------------------------------------
(* The invariant of the results is inductive *)

\* A channel carries the chunks of a node.
LEMMA ChannelNodes ==
    ASSUME Generated, NEW c \in Channels
    PROVE  c[1] \in 1..Len(plan.kind) /\ Size(plan, c[1]) \in Nat
<1>1. PICK a \in Actors : c \in Range(In(a)) \cup Range(Out(a))
  BY DEF Channels, Chans
<1>2. a[2] \in 1..Len(plan.kind)
  BY Sorts DEF Nodes
<1>3. CASE c \in Range(Out(a))
  <2>1. c[1] = a[2]
    BY <1>3, Ends DEF Range
  <2>. QED
    BY <1>2, <2>1, SizeFacts DEF Generated
<1>4. CASE c \in Range(In(a))
  <2>1. PICK j \in DOMAIN In(a) : c = In(a)[j]
    BY <1>4 DEF Range
  <2>2. CASE Kind(a) \in NodeKinds
    <3>1. c[1] = plan.args[a[2]][j] /\ j \in 1..Len(plan.args[a[2]])
      BY <2>1, <2>2, Ends
    <3>. QED
      BY <1>2, <3>1, SizeFacts DEF Generated
  <2>3. CASE Kind(a) \notin NodeKinds
    <3>1. c = <<a[2], 0>>
      BY <2>1, <2>3, Ends
    <3>2. c[1] = a[2]
      BY <3>1
    <3>. QED
      BY <1>2, <3>2, SizeFacts DEF Generated
  <2>. QED
    BY <2>2, <2>3
<1>. QED
  BY <1>1, <1>3, <1>4

\* The network as it is generated, as far as one actor sees it.
Begins(a, r, t) ==
    /\ pc[a] = IF Kind(a) \in {"source", "scan"} THEN "send metadata"
               ELSE "recv metadata"
    /\ loc[a] = InitLocals(Len(In(a)))
    /\ Kind(a) = "unbounded" => fan[a[2]] = InitFanout(Len(t))
    /\ Kind(a) = "scan" =>
        lin[a[2]] = InitLineariser(NumProducers(plan, a[2]))
    /\ result = <<>>
    /\ r \in [DOMAIN In(a) -> Nat] /\ \A j \in DOMAIN In(a) : r[j] = 0
    /\ t \in [DOMAIN Out(a) -> Nat] /\ \A k \in DOMAIN Out(a) : t[k] = 0

\* No actor has made anything yet.
LEMMA StartsMake ==
    ASSUME Generated, NEW a \in Actors, NEW r, NEW t, Begins(a, r, t)
    PROVE  Makes(a, r, t)
<1>. DEFINE n == a[2]
            x == pc[a]
            l == loc[a]
<1>1. /\ x \in {"send metadata", "recv metadata"}
      /\ l = InitLocals(Len(In(a))) /\ result = <<>>
      /\ DOMAIN r = DOMAIN In(a) /\ \A j \in DOMAIN r : r[j] = 0
      /\ DOMAIN t = DOMAIN Out(a) /\ \A k \in DOMAIN t : t[k] = 0
  BY DEF Begins
<1>2. Len(From(a)) = Len(In(a)) /\ DOMAIN In(a) = 1..Len(In(a))
  BY Ends DEF From
<1>3. HasLocals(l, DOMAIN r)
  <2>1. PICK m : m = Len(In(a))
    OBVIOUS
  <2>2. DOMAIN r = 1..m
    BY <1>1, <1>2, <2>1
  <2>3. PICK g : g = [j \in 1..m |-> <<>>]
    OBVIOUS
  <2>4. HoldsFor(g, 1..m)
    BY <2>3 DEF HoldsFor
  <2>5. l = [at |-> 1, base |-> 0, count |-> 0, finished |-> {}, hold |-> g]
    BY <1>1, <2>1, <2>3 DEF InitLocals
  <2>. QED
    BY <2>2, <2>4, <2>5, LocalsRecord
<1>4. AllMake(plan, n, From(a), x, l, r, t)
  BY <1>1, <1>2, <1>3 DEF AllMake
<1>5. /\ SourceMakes(plan, n, x, l, t) /\ MapMakes(plan, n, x, l, r, t)
      /\ ReduceMakes(plan, n, x, l, r, t) /\ ZipMakes(plan, n, x, l, r, t)
      /\ UnionMakes(plan, n, x, l, r, t) /\ BoundedMakes(plan, n, x, l, r, t)
  BY <1>1 DEF SourceMakes, MapMakes, ReduceMakes, ZipMakes, UnionMakes,
              BoundedMakes
<1>6. Kind(a) = "scan" => InOrder(plan, n, lin[n]) /\ lin[n].nextSeq = t[1]
  <2>. SUFFICES ASSUME Kind(a) = "scan"
                PROVE  InOrder(plan, n, lin[n]) /\ lin[n].nextSeq = t[1]
    OBVIOUS
  <2>1. n \in 1..Len(plan.kind) /\ plan \in Plans
    BY Sorts DEF Nodes, Generated
  <2>2. 1 \in DOMAIN Out(a)
    <3>1. Kind(a) \in NodeKinds
      BY DEF NodeKinds
    <3>. QED
      BY <3>1, Ends
  <2>3. t[1] = 0
    BY <1>1, <2>2
  <2>4. lin[n] = InitLineariser(NumProducers(plan, n))
    BY DEF Begins
  <2>. QED
    BY <2>1, <2>3, <2>4, StartsInOrder
<1>7. Kind(a) = "unbounded" =>
        UnboundedMakes(plan, n, x, fan[n], r, t, Closed(a))
  BY <1>1 DEF UnboundedMakes, Begins
<1>8. Kind(a) = "sink" => SinkMakes(plan, x, r, result)
  <2>. SUFFICES ASSUME Kind(a) = "sink" PROVE SinkMakes(plan, x, r, result)
    OBVIOUS
  <2>1. 1 \in DOMAIN r
    <3>1. Kind(a) \notin NodeKinds
      BY DEF NodeKinds
    <3>2. DOMAIN In(a) = 1..Len(In(a)) /\ Len(In(a)) = 1
      BY <3>1, Ends
    <3>3. DOMAIN r = DOMAIN In(a)
      BY <1>1
    <3>4. 1 \in 1..1
      OBVIOUS
    <3>. QED
      BY <3>2, <3>3, <3>4
  <2>2. IsSequence(<<>>) /\ Len(<<>>) = 0 /\ DOMAIN <<>> = {}
    BY ShortSequences
  <2>. QED
    BY <1>1, <2>1, <2>2 DEF SinkMakes
<1>. QED
  BY <1>4, <1>5, <1>6, <1>7, <1>8 DEF Makes

\* A generated network satisfies the invariant of the results.
LEMMA InitResult == Init => ResultInv
<1>. SUFFICES ASSUME Init PROVE Locals /\ MetadataFlows /\ \E h : History(h)
  BY DEF ResultInv
<1>1. Generated /\ NetworkState /\ ChannelState
  BY InitInvariant, InvariantParts DEF Init, Generated
<1>2. Locals
  BY DEF Init, Locals
<1>3. /\ queue = [c \in Channels |-> <<>>] /\ md = [c \in Channels |-> "none"]
      /\ shut = {} /\ result = <<>>
      /\ pc = [a \in Actors |->
                IF Kind(a) \in {"source", "scan"} THEN "send metadata"
                ELSE "recv metadata"]
      /\ loc = [a \in Actors |-> InitLocals(Len(In(a)))]
      /\ fan = [n \in Nodes |-> InitFanout(DepCount(plan, n))]
      /\ lin = [n \in Nodes |->
                    InitLineariser(IF plan.kind[n] = "scan"
                                   THEN NumProducers(plan, n) ELSE 0)]
  BY DEF Init, Channels
<1>4. MetadataFlows
  <2>1. ASSUME NEW a \in Actors
        PROVE  /\ OutMetadata(pc[a]) = {"none"}
               /\ pc[a] # "recv metadata" => DOMAIN In(a) = {}
    <3>1. pc[a] \in {"send metadata", "recv metadata"}
          /\ (pc[a] # "recv metadata" => Kind(a) \in {"source", "scan"})
      BY <1>3
    <3>2. OutMetadata(pc[a]) = {"none"}
      BY <3>1, OutMetadataFacts
    <3>3. ASSUME Kind(a) \in {"source", "scan"} PROVE DOMAIN In(a) = {}
      <4>1. a[2] \in 1..Len(plan.kind) /\ Kind(a) \in NodeKinds
        BY <1>1, <3>3, Sorts DEF Nodes, NodeKinds
      <4>2. plan.kind[a[2]] = Kind(a) /\ Len(In(a)) = Len(plan.args[a[2]])
            /\ DOMAIN In(a) = 1..Len(In(a))
        BY <1>1, <4>1, Ends
      <4>3. Len(plan.args[a[2]]) = 0
        BY <1>1, <3>3, <4>1, <4>2, PlanFacts DEF Generated
      <4>. QED
        BY <4>2, <4>3
    <3>. QED
      BY <3>1, <3>2, <3>3
  <2>. QED
    BY <1>1, <1>3, <2>1, Ends DEF MetadataFlows
<1>5. PICK h : h = [c \in Channels |-> 0]
  OBVIOUS
<1>6. Len(<<>>) = 0 /\ DOMAIN <<>> = {}
  BY ShortSequences
<1>7. ChannelsCarry(h)
  <2>1. \A c \in Channels : h[c] = 0 /\ queue[c] = <<>> /\ c \notin shut
    BY <1>3, <1>5
  <2>2. \A c \in Channels : Size(plan, c[1]) \in Nat
    BY <1>1, ChannelNodes
  <2>3. h \in [Channels -> Nat]
    BY <1>5
  <2>. QED
    BY <1>6, <2>1, <2>2, <2>3 DEF ChannelsCarry
<1>8. ASSUME NEW a \in Actors PROVE Makes(a, Taken(a, h), Sent(a, h))
  <2>1. PICK r : r = Taken(a, h)
    OBVIOUS
  <2>2. PICK t : t = Sent(a, h)
    OBVIOUS
  <2>3. r \in [DOMAIN In(a) -> Nat] /\ t \in [DOMAIN Out(a) -> Nat]
    BY <1>1, <1>7, <2>1, <2>2, Counts
  <2>4. \A j \in DOMAIN In(a) : r[j] = 0
    <3>1. \A j \in DOMAIN In(a) : In(a)[j] \in Channels
      BY <1>1, Ends
    <3>. QED
      BY <1>5, <2>1, <3>1 DEF Taken
  <2>5. \A k \in DOMAIN Out(a) : t[k] = 0
    <3>1. \A k \in DOMAIN Out(a) : Out(a)[k] \in Channels
      BY <1>1, Ends
    <3>2. \A k \in DOMAIN Out(a) : /\ h[Out(a)[k]] = 0
                                   /\ queue[Out(a)[k]] = <<>>
      BY <1>3, <1>5, <3>1
    <3>. QED
      BY <1>6, <2>2, <3>2 DEF Sent
  <2>6. Kind(a) = "unbounded" => fan[a[2]] = InitFanout(Len(t))
    <3>. SUFFICES ASSUME Kind(a) = "unbounded"
                  PROVE  fan[a[2]] = InitFanout(Len(t))
      OBVIOUS
    <3>1. PICK m : m = DepCount(plan, a[2])
      OBVIOUS
    <3>2. a[2] \in Nodes /\ Out(a) = [k \in 1..m |-> <<a[2], k>>]
      BY <1>1, <3>1, Sorts DEF NodeKinds
    <3>3. m \in Nat
      BY <1>1, <3>1, UsesFinite, FS_CardinalityType DEF DepCount, Generated
    <3>4. Len(t) = m
      BY <2>3, <3>2, <3>3
    <3>. QED
      BY <1>3, <3>1, <3>2, <3>4
  <2>7. Kind(a) = "scan" =>
            lin[a[2]] = InitLineariser(NumProducers(plan, a[2]))
    <3>. SUFFICES ASSUME Kind(a) = "scan"
                  PROVE  lin[a[2]] = InitLineariser(NumProducers(plan, a[2]))
      OBVIOUS
    <3>1. a[2] \in Nodes /\ Kind(a) \in NodeKinds
      BY <1>1, Sorts DEF NodeKinds
    <3>2. plan.kind[a[2]] = "scan"
      BY <1>1, <3>1, Ends
    <3>. QED
      BY <1>3, <3>1, <3>2
  <2>8. Begins(a, r, t)
    BY <1>3, <2>3, <2>4, <2>5, <2>6, <2>7 DEF Begins
  <2>. QED
    BY <1>1, <2>1, <2>2, <2>8, StartsMake
<1>. QED
  BY <1>2, <1>4, <1>7, <1>8 DEF History

\* Actors that raise are never forgotten, and a step in which nobody raises is
\* none of Fail.
LEMMA FailuresGrow ==
    ASSUME NEW a, Step(a) \/ TaskStep(a) \/ Fail(a)
    PROVE  failures' = failures \/ (Fail(a) /\ failures' # {})
           \/ (RecvMetadata(a) /\ failures' # {})
<1>1. CASE Fail(a)
  BY <1>1 DEF Fail, Raise
<1>2. CASE RecvMetadata(a)
  BY <1>2 DEF RecvMetadata, Raise
<1>3. CASE SendMetadata(a) \/ DrainMetadata(a) \/ SendNext(a) \/ Drain(a)
           \/ MainLoop(a) \/ Collect(a) \/ Forward(a) \/ ReceiveTask(a)
           \/ OutputTask(a) \/ Produce(a)
  BY <1>3 DEF SendMetadata, DrainMetadata, SendNext, Drain, MainLoop, Collect,
              Forward, ReceiveTask, OutputTask, Produce
<1>4. CASE RecvOne(a) \/ RecvAll(a) \/ RecvRound(a) \/ RecvSequential(a)
  BY <1>4 DEF RecvOne, RecvAll, RecvRound, RecvSequential, Received
<1>. QED
  BY <1>1, <1>2, <1>3, <1>4 DEF Step, TaskStep

\* While nobody raises, every step keeps the channels and the actors as they
\* must be.
LEMMA StepMoves ==
    ASSUME NEW a, NEW h, NEW r, NEW t, Moves(a, h, r, t), Step(a) \/ TaskStep(a)
    PROVE  MetadataFlows' /\ \E g : History(g)'
<1>1. CASE RecvOne(a) \/ RecvAll(a) \/ RecvRound(a) \/ RecvSequential(a)
           \/ ReceiveTask(a)
  BY <1>1, RecvOneMoves, RecvAllMoves, RecvRoundMoves, RecvSequentialMoves,
     ReceiveTaskMoves
<1>2. CASE RecvMetadata(a) \/ SendMetadata(a) \/ DrainMetadata(a)
  <2>1. MetadataFlows' /\ History(h)'
    BY <1>2, RecvMetadataMoves, SendMetadataMoves, DrainMetadataMoves
  <2>. QED
    BY <2>1
<1>3. CASE SendNext(a) \/ Drain(a) \/ MainLoop(a) \/ OutputTask(a)
  <2>1. MetadataFlows' /\ History(h)'
    BY <1>3, SendNextMoves, DrainMoves, MainLoopMoves, OutputTaskMoves
  <2>. QED
    BY <2>1
<1>4. CASE Collect(a) \/ Forward(a) \/ Produce(a)
  <2>1. MetadataFlows' /\ History(h)'
    BY <1>4, CollectMoves, ForwardMoves, ProduceMoves
  <2>. QED
    BY <2>1
<1>. QED
  BY <1>1, <1>2, <1>3, <1>4 DEF Step, TaskStep

\* Every step of every actor and task keeps the invariant of the results.
LEMMA NextResult == IInv /\ ResultInv /\ [Next]_vars => ResultInv'
<1>. SUFFICES ASSUME NetworkState, ChannelState, ActorState, Linearisers,
                     ResultInv, [Next]_vars
              PROVE  ResultInv'
  BY InvariantParts
<1>1. CASE UNCHANGED vars
  <2>1. /\ plan' = plan /\ fanout' = fanout /\ queue' = queue /\ shut' = shut
        /\ md' = md /\ pc' = pc /\ loc' = loc /\ fan' = fan /\ lin' = lin
        /\ result' = result /\ failures' = failures
    BY <1>1 DEF vars, netVars, chanVars
  <2>2. UNCHANGED netVars
    BY <2>1 DEF netVars
  <2>3. Locals'
    BY <2>1, <2>2, NetworkStays DEF ResultInv, Locals
  <2>4. ASSUME failures' = {} PROVE MetadataFlows' /\ \E h : History(h)'
    <3>1. MetadataFlows /\ \E h : History(h)
      BY <2>1, <2>4 DEF ResultInv
    <3>2. PICK h : History(h)
      BY <3>1
    <3>3. MetadataFlows'
      BY <2>1, <2>2, <3>1, NetworkStays, EndsStay DEF MetadataFlows
    <3>4. ChannelsCarry(h)'
      BY <2>1, <2>2, <3>2, NetworkStays DEF History, ChannelsCarry
    <3>5. ASSUME NEW a \in Actors PROVE Makes(a, Taken(a, h), Sent(a, h))'
      <4>1. Taken(a, h)' = Taken(a, h) /\ Sent(a, h)' = Sent(a, h)
        BY <2>1, <2>2, EndsStay DEF Taken, Sent
      <4>2. PICK r : r = Taken(a, h)
        OBVIOUS
      <4>3. PICK t : t = Sent(a, h)
        OBVIOUS
      <4>4. Makes(a, r, t)
        BY <3>2, <4>2, <4>3 DEF History
      <4>5. Makes(a, r, t)'
        BY <2>1, <2>2, <4>4, OthersStay
      <4>. QED
        BY <4>1, <4>2, <4>3, <4>5 DEF Makes
    <3>. QED
      BY <2>2, <3>3, <3>4, <3>5, NetworkStays DEF History
  <2>. QED
    BY <2>3, <2>4 DEF ResultInv
<1>2. ASSUME NEW a \in Actors, Step(a) \/ TaskStep(a) \/ Fail(a)
      PROVE  ResultInv'
  <2>1. Locals /\ Generated
    BY DEF ResultInv, Locals, Generated, NetworkState
  <2>2. OwnStep(a) /\ Locals'
    BY <1>2, <2>1, StepIsOwn
  <2>3. ASSUME failures' = {} PROVE MetadataFlows' /\ \E g : History(g)'
    <3>1. failures = {} /\ (Step(a) \/ TaskStep(a))
      <4>1. failures' = failures /\ ~Fail(a)
        BY <1>2, <2>3, FailuresGrow DEF Fail, Raise
      <4>. QED
        BY <1>2, <2>3, <4>1
    <3>2. MetadataFlows /\ \E h : History(h)
      BY <3>1 DEF ResultInv
    <3>3. PICK h : History(h)
      BY <3>2
    <3>4. PICK r : r = Taken(a, h)
      OBVIOUS
    <3>5. PICK t : t = Sent(a, h)
      OBVIOUS
    <3>6. Moves(a, h, r, t)
      BY <2>1, <2>2, <3>2, <3>3, <3>4, <3>5 DEF Moves
    <3>. QED
      BY <3>1, <3>6, StepMoves
  <2>. QED
    BY <2>2, <2>3 DEF ResultInv
<1>. QED
  BY <1>1, <1>2 DEF Next

\* What the sink has received are the first chunks of the plan.
LEMMA ResultOfSink ==
    ASSUME IInv, ResultInv PROVE ResultCorrect
<1>. SUFFICES ASSUME failures = {}
              PROVE  /\ Len(result) <= Len(Expected(plan))
                     /\ \A k \in DOMAIN result :
                        result[k] = [seq |-> k - 1, data |-> Expected(plan)[k]]
                     /\ pc[<<"sink", Root>>] = "done" =>
                        Len(result) = Len(Expected(plan))
  BY DEF ResultCorrect
<1>1. Generated /\ ChannelState
  BY InvariantParts DEF ResultInv, Locals, Generated, NetworkState
<1>2. PICK h : History(h)
  BY DEF ResultInv
<1>3. PICK a \in Actors : a = <<"sink", Root>>
  BY DEF Actors
<1>4. Kind(a) = "sink" /\ a[2] = Root
  BY <1>3 DEF Kind
<1>5. PICK r : r = Taken(a, h)
  OBVIOUS
<1>6. SinkMakes(plan, pc[a], r, result)
  BY <1>2, <1>4, <1>5 DEF History, Makes
<1>7. r[1] <= Size(plan, Root)
  <2>1. Kind(a) \notin NodeKinds
    BY <1>4 DEF NodeKinds
  <2>2. Len(In(a)) = 1 /\ In(a)[1] = <<a[2], 0>> /\ DOMAIN In(a) = 1..Len(In(a))
    BY <1>1, <2>1, Ends
  <2>3. 1 \in DOMAIN In(a) /\ From(a)[1] = Root
    BY <1>4, <2>2 DEF From
  <2>. QED
    BY <1>1, <1>2, <1>5, <2>3, Counts DEF History
<1>8. Len(Expected(plan)) = Size(plan, Root)
  BY DEF Expected, Size, Root
<1>9. \A i : Message(plan, Len(plan.kind), i) =
                [seq |-> i - 1, data |-> Expected(plan)[i]]
  BY DEF Message, Expected
<1>. QED
  BY <1>3, <1>6, <1>7, <1>8, <1>9 DEF SinkMakes, Root

-----------------------------------------------------------------------------
(* Theorems *)

\* The inductive invariant holds in every reachable state.
THEOREM Invariance == Spec => []IInv
  BY InitInvariant, NextInvariant, PTL DEF Spec

\* Actors are at steps of their kind, no channel of a generated network holds
\* more than Capacity messages, and one that is shut holds none, whatever the
\* plan and wherever actors fail.
THEOREM TypesPreserved == Spec => []TypeOK
<1>1. IInv => TypeOK
  BY DEF IInv
<1>. QED
  BY <1>1, Invariance, PTL

\* Lineariser "bounds each producer to one in-flight message": with any number
\* of producers and chunks, and with sends to the output of the scan waiting,
\* dropped or completed in any order.
THEOREM OneChunkInFlight == Spec => []OneInFlight
<1>1. IInv => OneInFlight
  BY TokenBounds DEF IInv, Linearisers, OneInFlight
<1>. QED
  BY <1>1, Invariance, PTL

\* The invariant of the results holds in every reachable state.
THEOREM ResultInvariance == Spec => [](IInv /\ ResultInv)
  BY InitInvariant, NextInvariant, InitResult, NextResult, PTL DEF Spec

\* The result of a query: with any plan whose nodes are shared and consumed in
\* any way, whatever the capacity of the channels, the number of producers of
\* the scans and the order in which actors and tasks run, pull_from_channel
\* gets the chunks of the plan, in order, each once, and all of them by the time
\* it stops, unless an actor has raised.
THEOREM ChunksDelivered == Spec => []ResultCorrect
<1>1. IInv /\ ResultInv => ResultCorrect
  BY ResultOfSink
<1>. QED
  BY <1>1, ResultInvariance, PTL
=============================================================================
