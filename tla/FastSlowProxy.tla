---------------------------- MODULE FastSlowProxy ----------------------------
(***************************************************************************)
(* The fast-slow proxies of cudf.pandas                                    *)
(* (python/cudf/cudf/pandas/fast_slow_proxy.py).                           *)
(*                                                                         *)
(* A proxy wraps an object of the fast library (cuDF) or of the slow one   *)
(* (pandas).  A call converts every proxy among its arguments to fast, and *)
(* runs in the fast library; if anything raises, it converts the same      *)
(* arguments to slow and runs in the slow library.  A final proxy (a frame,*)
(* a series, an index) is converted by copying its data.  An intermediate  *)
(* proxy (a groupby, an indexer, an accessor) is converted by repeating the*)
(* call that made it on its converted parents; it also repeats that call   *)
(* when it finds that a parent wraps another object than it did.           *)
(*                                                                         *)
(* The data of an object is the sequence of the calls that wrote it, so    *)
(* that an effect that is lost, repeated or reordered shows.  A view is an *)
(* object of an intermediate type: it holds no data, and reads and writes  *)
(* the objects it looks at.  plain is what the same program would hold     *)
(* under pandas alone.  One thread runs the program.                       *)
(***************************************************************************)
EXTENDS Naturals, Sequences, SequencesExt

CONSTANTS
    InitialFrames, \* bound: frames the program starts with
    MaxProxies,    \* bound: proxies it holds
    MaxCalls,      \* bound: calls it makes
    MaxChanges,    \* bound: the calls after this many only read
    UserBlocks,    \* bound: transfer blocks it sets itself
    Chaining,      \* the program derives intermediates from intermediates
    Debugging,     \* CUDF_PANDAS_DEBUGGING is set
    Reused         \* object -> the first object whose id() it gets again

Worlds == {"fast", "slow"}

Blocks == {"none", "to_fast", "to_slow"}

ASSUME FastSlowAssumption ==
    /\ {InitialFrames, MaxProxies, MaxCalls, MaxChanges} \subseteq Nat \ {0}
    /\ UserBlocks \subseteq Blocks
    /\ {Chaining, Debugging} \subseteq BOOLEAN
    /\ DOMAIN Reused \subseteq Nat
    /\ \A o \in DOMAIN Reused : Reused[o] \in Nat /\ Reused[o] < o

VARIABLES
    objects,      \* the objects of the two libraries, in the order made
    proxies,      \* the proxies the program holds
    methodBlock,  \* the transfer block cached in the class's _MethodProxy
    plain,        \* the object each proxy would be under pandas alone
    calls,        \* calls made
    answer        \* what the last call read, and what pandas would give

vars == <<objects, proxies, methodBlock, plain, calls, answer>>

\* What a call does: read gives a plain value, write changes its first
\* argument in place, compute makes a frame, derive makes an intermediate.
Shapes == {"read", "write", "compute", "derive"}

\* Calls that go through a _MethodProxy; the others are attributes
\* (getattr) and functions, which have no transfer block.
MethodShapes == {"write", "compute"}

\* How the libraries take a call: both do it; cuDF raises; cuDF raises and
\* the data written or made is of a kind cuDF cannot hold; cuDF raises
\* MixedTypeError; both raise.
Supports == {"both", "slow", "slow_mixed", "mixed_error", "none"}

\* The ways that differ for a call of this shape: only a call that writes or
\* makes data can make it mixed, and only one whose result is wrapped
\* remembers the MixedTypeError.
SupportsOf(shape) ==
    Supports \ CASE shape = "read" -> {"slow_mixed", "mixed_error"}
                 [] shape = "write" -> {"mixed_error"}
                 [] shape = "derive" -> {"slow_mixed"}
                 [] shape = "compute" -> {}

Final(proxy) == proxy.parents = <<>>

\* The frame that writing to an object changes.
Target(objs, o) ==
    LET target[b \in DOMAIN objs] ==
            IF objs[b].looksAt = <<>> THEN b ELSE target[objs[b].looksAt[1]]
    IN target[o]

\* The frames that an object looks at, and what it reads from them.
Frames(objs, o) ==
    LET frames[b \in DOMAIN objs] ==
            IF objs[b].looksAt = <<>> THEN {b}
            ELSE UNION {frames[c] : c \in Range(objs[b].looksAt)}
    IN frames[o]

Contents(objs, o) ==
    LET contents[b \in DOMAIN objs] ==
            IF objs[b].looksAt = <<>> THEN objs[b].log
            ELSE <<[call |-> 0, from |-> [i \in DOMAIN objs[b].looksAt |->
                                            contents[objs[b].looksAt[i]]]]>>
    IN contents[o]

Mixed(objs, os) ==
    \E o \in Range(os) : \E f \in Frames(objs, o) : objs[f].mixed

\* What call number calls + 1 writes, reading the objects os.
Entry(objs, os) ==
    [call |-> calls + 1,
     from |-> [i \in DOMAIN os |-> Contents(objs, os[i])]]

\* id(): CPython may give it again once an object is dead.  Which objects get
\* the id() of which is fixed beforehand.
Id(o) == IF o \in DOMAIN Reused THEN Reused[o] ELSE o

\* The objects that an object keeps alive.
Holds(objs, o) ==
    LET holds[b \in DOMAIN objs] ==
            {b} \cup UNION {holds[c] : c \in Range(objs[b].looksAt)}
    IN holds[o]

Frame(world, log, mixed) ==
    [world |-> world, log |-> log, mixed |-> mixed, looksAt |-> <<>>]

View(world, looksAt) ==
    [world |-> world, log |-> <<>>, mixed |-> FALSE, looksAt |-> looksAt]

(***************************************************************************)
(* Conversion                                                              *)
(***************************************************************************)

\* The proxies in the middle of a call: raised is the exception under way.
Begin == [objects |-> objects, proxies |-> proxies, raised |-> "no"]

Raise(st, exception) == [st EXCEPT !.raised = exception]

Wrapped(st, args) == [i \in DOMAIN args |-> st.proxies[args[i]].wrapped]

World(st, p) == st.objects[st.proxies[p].wrapped].world

\* Proxy p wraps the new object o.
Rewrap(st, p, o) ==
    [st EXCEPT !.objects = Append(@, o),
               !.proxies[p].wrapped = Len(st.objects) + 1]

\* fast_to_slow and slow_to_fast of a final type copy the data.  Data that
\* cuDF cannot hold is taken to be of mixed types.
ConvertFinal(st, p, world) ==
    LET o == st.objects[st.proxies[p].wrapped]
    IN CASE o.world = world -> st
         [] o.world # world /\ o.mixed -> Raise(st, "mixed")
         [] OTHER -> Rewrap(st, p, [o EXCEPT !.world = world])

\* The objects the parents wrap, and what is remembered of them: a number,
\* no reference.
ParentObjects(st, p) == Wrapped(st, st.proxies[p].parents)

ParentIds(st, p) ==
    [i \in DOMAIN st.proxies[p].parents |-> Id(ParentObjects(st, p)[i])]

\* Mutant: an intermediate never looks at its parents.
ParentsNeverChange(st, p) == FALSE

ParentsChanged(st, p) == ParentIds(st, p) # st.proxies[p].ids

\* Mutant: only the first parent is remembered.
RecordFirstParentId(st, p) ==
    [st EXCEPT !.proxies[p].ids = <<ParentIds(st, p)[1]>>]

RecordParentIds(st, p) == [st EXCEPT !.proxies[p].ids = ParentIds(st, p)]

\* The call that made the intermediate, on its converted parents.
Replay(st, p, world) ==
    CASE st.raised # "no" -> st
      [] st.raised = "no" /\ world = "fast" /\ ~st.proxies[p].onFast ->
            Raise(st, "other")
      [] OTHER ->
            Rewrap(st, p, View(world, ParentObjects(st, p)))

\* Mutant: the transfer block is not checked.
NeverBlocked(st, p, world) == FALSE

\* _fsproxy_fast checks the transfer block; _fsproxy_slow does not.
Blocked(st, p, world) ==
    /\ world = "fast"
    /\ World(st, p) = "slow"
    /\ st.proxies[p].block = "to_fast"

\* Converting an argument needs the conversion of the arguments its own call
\* was made with.  before is that conversion: a function from a state and the
\* arguments that are left to the state afterwards.

\* Only an intermediate that was in this world already remembers the
\* identities of its parents' objects anew.
ConvertIntermediate(before, st, p, world) ==
    LET replayed == Replay(before[<<st, st.proxies[p].parents>>], p, world)
    IN CASE World(st, p) # world -> replayed
         [] World(st, p) = world /\ ~ParentsChanged(st, p) -> st
         [] OTHER -> IF replayed.raised = "no"
                     THEN RecordParentIds(replayed, p) ELSE replayed

ConvertOne(before, st, p, world) ==
    IF Final(st.proxies[p]) THEN ConvertFinal(st, p, world)
    ELSE ConvertIntermediate(before, st, p, world)

\* _transform_arg: the arguments in order, up to the first that cannot be
\* converted.  The few functions of _SPECIAL_FUNCTIONS_ARGS_MAP, which take a
\* slow argument in a fast call, are left out.
TransformArgs(before, st, args, world) ==
    CASE args = <<>> \/ st.raised # "no" -> st
      [] args # <<>> /\ st.raised = "no" /\ Blocked(st, args[1], world) ->
            Raise(st, "other")
      [] OTHER ->
            before[<<ConvertOne(before, st, args[1], world), Tail(args)>>]

\* The states that a conversion goes through: it copies data and makes none.
Logs(st) == {o.log : o \in Range(st.objects)} \cup {<<>>}

Objects(logs) ==
    [world : Worlds, log : logs, mixed : BOOLEAN, looksAt : Seq(Nat)]

Proxies ==
    [wrapped : Nat, block : Blocks, parents : Seq(Nat), ids : Seq(Nat),
     onFast : BOOLEAN]

States(logs) ==
    [objects : Seq(Objects(logs)), proxies : Seq(Proxies),
     raised : {"no", "mixed", "other"}]

\* The conversion in at most so many successive or nested steps.
Conversion(st, world, steps) ==
    LET conversion[n \in 0..steps] ==
            [x \in States(Logs(st)) \X Seq(Nat) |->
                IF n = 0 THEN x[1]
                ELSE TransformArgs(conversion[n - 1], x[1], x[2], world)]
    IN conversion[steps]

\* Parents are older than what was derived from them, and a call has at most
\* two arguments: so many steps are never used up.
Enough(st) == 2 * Len(st.proxies)

Convert(st, p, world) ==
    ConvertOne(Conversion(st, world, Enough(st)), st, p, world)

\* Mutant: only the instance a method is called on is converted.
ConvertFirst(st, args, world) ==
    IF args = <<>> THEN st ELSE Convert(st, args[1], world)

\* _fast_arg and _slow_arg.
ConvertAll(st, args, world) ==
    Conversion(st, world, Enough(st) + Len(args))[<<st, args>>]

(***************************************************************************)
(* A call                                                                  *)
(***************************************************************************)

\* The call itself, in either library, on the objects os; an object it
\* makes is the last one.
Execute(objs, os, shape, support, world) ==
    LET mixed == support = "slow_mixed" IN
    CASE shape = "read" -> objs
      [] shape = "write" ->
            [objs EXCEPT ![Target(objs, os[1])] =
                Frame(world, Append(@.log, Entry(objs, Tail(os))),
                      @.mixed \/ mixed \/ Mixed(objs, Tail(os)))]
      [] shape = "compute" ->
            Append(objs, Frame(world, <<Entry(objs, os)>>,
                               mixed \/ Mixed(objs, os)))
      [] shape = "derive" -> Append(objs, View(world, os))

Run(st, args, shape, support, world) ==
    [st EXCEPT !.objects =
        Execute(@, Wrapped(st, args), shape, support, world)]

\* Mutant: the fast library raises after it has written.
FastAttemptWrites(args, shape, support, block) ==
    LET converted == IF block = "to_fast" THEN Raise(Begin, "other")
                     ELSE ConvertAll(Begin, args, "fast")
    IN CASE converted.raised # "no" -> converted
         [] converted.raised = "no" /\ support = "both" ->
                Run(converted, args, shape, support, "fast")
         [] OTHER -> Raise(Run(converted, args, shape, "both", "fast"),
                           "other")

\* The attempt in the fast library.
FastAttempt(args, shape, support, block) ==
    LET converted == IF block = "to_fast" THEN Raise(Begin, "other")
                     ELSE ConvertAll(Begin, args, "fast")
    IN CASE converted.raised # "no" -> converted
         [] converted.raised = "no" /\ support = "both" ->
                Run(converted, args, shape, support, "fast")
         [] OTHER -> Raise(converted, IF support = "mixed_error"
                                      THEN "mixed" ELSE "other")

\* The same call in the slow library, as the fallback or to compare.
SlowAttempt(st, args, shape, support) ==
    LET converted == ConvertAll(Raise(st, "no"), args, "slow")
    IN IF support = "none" THEN Raise(converted, "other")
       ELSE Run(converted, args, shape, support, "slow")

\* _maybe_wrap_result: result is the object the call made.
WrapResult(st, args, shape, support, result, forced) ==
    IF shape \in {"read", "write"} THEN st.proxies
    ELSE Append(st.proxies,
                [wrapped |-> result,
                 block |-> IF forced THEN "to_fast" ELSE "none",
                 parents |-> IF shape = "derive" THEN args ELSE <<>>,
                 ids |-> IF shape = "derive"
                         THEN [i \in DOMAIN args |-> Id(Wrapped(st, args)[i])]
                         ELSE <<>>,
                 onFast |-> shape # "derive" \/ support = "both"])

Arguments ==
    {<<p>> : p \in DOMAIN proxies}
    \cup {args \in [1..2 -> DOMAIN proxies] : args[1] # args[2]}

\* A method's proxy is made at its first use, with the transfer block of
\* the instance it was used on, and kept by the class.
MethodBlock(shape, self) ==
    IF methodBlock[shape] = "unset" THEN proxies[self].block
    ELSE methodBlock[shape]

NoAnswer == [got |-> <<>>, expected |-> <<>>]

\* _fast_slow_function_call.
Call(shape, args, support) ==
    LET block == IF shape \in MethodShapes
                 THEN MethodBlock(shape, args[1]) ELSE "none"
        fast == FastAttempt(args, shape, support, block)
        ran == IF fast.raised = "no" THEN fast
               ELSE SlowAttempt(fast, args, shape, support)
        after == IF fast.raised = "no" /\ Debugging
                 THEN SlowAttempt(fast, args, shape, support) ELSE ran
        done == ran.raised = "no"
    IN
    /\ shape \in {"compute", "derive"} => Len(proxies) < MaxProxies
    /\ shape = "derive" =>
          Chaining \/ \A i \in DOMAIN args : Final(proxies[args[i]])
    /\ calls' = calls + 1
    /\ methodBlock' = IF shape \in MethodShapes
                      THEN [methodBlock EXCEPT ![shape] = block]
                      ELSE methodBlock
    /\ objects' = after.objects
    /\ proxies' = IF done
                  THEN WrapResult(after, args, shape, support,
                                  Len(ran.objects), fast.raised = "mixed")
                  ELSE after.proxies
    /\ plain' = IF done THEN Execute(plain, args, shape, support, "slow")
                ELSE plain
    /\ answer' = IF done /\ shape = "read"
                 THEN [got |-> Contents(ran.objects,
                                        ran.proxies[args[1]].wrapped),
                       expected |-> Contents(plain, args[1])]
                 ELSE NoAnswer

Read(args, support) == Call("read", args, support)
Write(args, support) == Call("write", args, support)
Compute(args, support) == Call("compute", args, support)
Derive(args, support) == Call("derive", args, support)

(***************************************************************************)
(* Other operations                                                        *)
(***************************************************************************)

Untouched == answer' = NoAnswer /\ UNCHANGED <<methodBlock, plain>>

SetTransferBlockState(p, block) ==
    /\ block # proxies[p].block
    /\ calls' = calls + 1
    /\ proxies' = [proxies EXCEPT ![p].block = block]
    /\ UNCHANGED objects
    /\ Untouched

\* The conversion ignores the block that is set; it may raise.
ForceState(p, world) ==
    LET converted == Convert(Begin, p, world) IN
    /\ calls' = calls + 1
    /\ objects' = converted.objects
    /\ proxies' = IF converted.raised = "no"
                  THEN [converted.proxies EXCEPT ![p].block =
                            IF world = "fast" THEN "to_slow" ELSE "to_fast"]
                  ELSE converted.proxies
    /\ Untouched

\* pickle.loads(pickle.dumps(p)) of a final proxy: the wrapped object is
\* copied as it is, and the transfer block is not kept.
Pickle(p) ==
    /\ Len(proxies) < MaxProxies
    /\ Final(proxies[p])
    /\ calls' = calls + 1
    /\ objects' = Append(objects, objects[proxies[p].wrapped])
    /\ proxies' = Append(proxies, [proxies[p] EXCEPT
                      !.wrapped = Len(objects) + 1, !.block = "none"])
    /\ plain' = Append(plain, plain[p])
    /\ answer' = NoAnswer
    /\ UNCHANGED methodBlock

\* Frames that were just read from files.
Init ==
    /\ \E n \in 1..InitialFrames :
          /\ objects = [f \in 1..n |-> Frame("fast", <<>>, FALSE)]
          /\ plain = [f \in 1..n |-> Frame("slow", <<>>, FALSE)]
          /\ proxies = [f \in 1..n |->
                           [wrapped |-> f, block |-> "none", parents |-> <<>>,
                            ids |-> <<>>, onFast |-> TRUE]]
    /\ methodBlock = [shape \in MethodShapes |-> "unset"]
    /\ calls = 0
    /\ answer = NoAnswer

\* An object gets the id() of a dead one: of one that nothing referred to when
\* the call began.  (One that dies within the call is not reused by it.)
OnlyDeadReused ==
    LET made == DOMAIN objects' \ DOMAIN objects
        alive == UNION {Holds(objects, proxies[p].wrapped) :
                            p \in DOMAIN proxies}
    IN \A n \in made \cap DOMAIN Reused, o \in alive \cup made :
            Id(n) = Id(o) => n = o

Next ==
    /\ calls < MaxCalls
    /\ \/ \E p \in DOMAIN proxies, support \in SupportsOf("read") :
             Read(<<p>>, support)
       \/ /\ calls < MaxChanges
          /\ \E args \in Arguments :
                \/ \E support \in SupportsOf("write") :
                      Write(args, support)
                \/ \E support \in SupportsOf("compute") :
                      Compute(args, support)
                \/ \E support \in SupportsOf("derive") :
                      Derive(args, support)
       \/ /\ calls < MaxChanges
          /\ \E p \in DOMAIN proxies :
                \/ \E block \in UserBlocks : SetTransferBlockState(p, block)
                \/ \E world \in Worlds : ForceState(p, world)
                \/ Pickle(p)
    /\ OnlyDeadReused

Spec == Init /\ [][Next]_vars

(***************************************************************************)
(* Properties                                                              *)
(***************************************************************************)

Finals == {p \in DOMAIN proxies : Final(proxies[p])}

\* Every proxy wraps an object that exists, an intermediate a view and a
\* final a frame, and an intermediate has one recorded identity for each of
\* its parents, which are older than itself (fast_slow_proxy.py:1104-1131).
TypeOK ==
    /\ \A o \in DOMAIN objects :
          /\ objects[o].world \in Worlds
          /\ objects[o].mixed \in BOOLEAN
          /\ Range(objects[o].looksAt) \subseteq 1..(o - 1)
    /\ \A p \in DOMAIN proxies :
          /\ proxies[p].wrapped \in DOMAIN objects
          /\ proxies[p].block \in Blocks
          /\ Final(proxies[p]) <=> objects[proxies[p].wrapped].looksAt = <<>>
          /\ Range(proxies[p].parents) \subseteq 1..(p - 1)
          /\ DOMAIN proxies[p].ids = DOMAIN proxies[p].parents
    /\ methodBlock \in [MethodShapes -> Blocks \cup {"unset"}]
    /\ calls \in 0..MaxCalls

\* An object of one library never refers to an object of the other: every
\* call gets all its arguments in the library it runs in, also after an
\* attempt that converted some of them and then failed
\* (_transform_arg, fast_slow_proxy.py:1592-1787).
WorldsApart ==
    \A o \in DOMAIN objects : \A b \in Range(objects[o].looksAt) :
        objects[b].world = objects[o].world

\* Every frame holds exactly what plain pandas would hold: across transfers,
\* fallbacks, failed calls and writes through indexers, the effect of each
\* call that returned is there once and in order
\* (_fast_slow_function_call, fast_slow_proxy.py:1503-1589).
FinalsMatchPandas ==
    \A p \in Finals :
        Contents(objects, proxies[p].wrapped) = Contents(plain, p)

\* Every value read, from a frame or through an intermediate made long
\* before its parents were changed or transferred, is the one that plain
\* pandas would give at that point (fast_slow_proxy.py:418-457).
AnswersMatchPandas == answer.got = answer.expected

\* A proxy that was forced to the slow library is never moved to the fast
\* one by a call, a replay of an intermediate or a copy, as long as the
\* block is not lifted (force_state, fast_slow_proxy.py:893-906).
ForcedStaysSlow ==
    [][\A p \in DOMAIN proxies :
         World(Begin, p) = "slow"
         /\ proxies[p].block = "to_fast" /\ proxies'[p].block = "to_fast"
         => objects'[proxies'[p].wrapped].world = "slow"]_vars
=============================================================================
