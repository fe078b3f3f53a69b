------------------------ MODULE FastSlowProxyProofs ------------------------
(***************************************************************************)
(* Proofs about FastSlowProxy, for any number of frames, proxies and calls.*)
(* The first part is for every program, whether it chains intermediates or *)
(* not, with or without the debugging mode; the second, which compares the *)
(* program with plain pandas, is for those that derive intermediates from  *)
(* final proxies only, without the debugging mode, and as long as no id()  *)
(* is given to a second object.  Both take from the model that a call of   *)
(* cuDF raises, if it does, before it has written.                         *)
(***************************************************************************)
EXTENDS FastSlowProxy, SequenceLemmas

-----------------------------------------------------------------------------
(* The invariant of objects and proxies *)

\* An object looks at older objects of its own library, and the fast library
\* holds no data that it cannot hold.
ObjectsGood(objs) ==
    \A o \in DOMAIN objs :
        /\ objs[o].mixed => objs[o].world = "slow"
        /\ \A i \in DOMAIN objs[o].looksAt :
            /\ objs[o].looksAt[i] \in 1..(o - 1)
            /\ objs[objs[o].looksAt[i]].world = objs[o].world

\* x is proxy number p.
ProxyGood(objs, p, x) ==
    /\ x.wrapped \in DOMAIN objs
    /\ x.parents = <<>> <=> objs[x.wrapped].looksAt = <<>>
    /\ Len(x.parents) <= 2
    /\ \A i \in DOMAIN x.parents : x.parents[i] \in 1..(p - 1)
    /\ DOMAIN x.ids = DOMAIN x.parents

\* The objects and the proxies of a state.
Good(st) ==
    /\ ObjectsGood(st.objects)
    /\ \A p \in DOMAIN st.proxies : ProxyGood(st.objects, p, st.proxies[p])

\* An object that may be added.
NewGood(objs, o) ==
    /\ o.mixed => o.world = "slow"
    /\ \A i \in DOMAIN o.looksAt :
        /\ o.looksAt[i] \in 1..Len(objs)
        /\ objs[o.looksAt[i]].world = o.world

\* What a conversion keeps: the objects, what the proxies are, and the proxies
\* that are in its world already.
Keeps(s, u, world) ==
    /\ DOMAIN u.proxies = DOMAIN s.proxies
    /\ \A p \in DOMAIN s.proxies :
        /\ u.proxies[p].block = s.proxies[p].block
        /\ u.proxies[p].parents = s.proxies[p].parents
        /\ u.proxies[p].onFast = s.proxies[p].onFast
        /\ World(s, p) = world => World(u, p) = world
    /\ Len(s.objects) <= Len(u.objects)
    /\ \A o \in DOMAIN s.objects : u.objects[o] = s.objects[o]

\* The proxies that may not be converted to fast, except perhaps those in X,
\* are left alone.
KeepsBlocked(s, u, world, X) ==
    \A p \in DOMAIN s.proxies \ X :
        Blocked(s, p, world) => World(u, p) = "slow"

\* What a conversion to a world makes of s.
Converted(logs, s, u, world, X) ==
    /\ u \in States(logs)
    /\ Good(u)
    /\ Keeps(s, u, world)
    /\ KeepsBlocked(s, u, world, X)
    /\ world = "slow" => u.raised = s.raised

-----------------------------------------------------------------------------
(* Objects and proxies *)

\* The fields of a state have their types.
LEMMA StateFields ==
    ASSUME NEW logs, NEW s \in States(logs)
    PROVE  /\ s.objects \in Seq(Objects(logs))
           /\ s.proxies \in Seq(Proxies)
           /\ s.raised \in {"no", "mixed", "other"}
           /\ Len(s.objects) \in Nat /\ DOMAIN s.objects = 1..Len(s.objects)
           /\ Len(s.proxies) \in Nat /\ DOMAIN s.proxies = 1..Len(s.proxies)
           /\ \A o \in DOMAIN s.objects : s.objects[o] \in Objects(logs)
           /\ \A p \in DOMAIN s.proxies : s.proxies[p] \in Proxies
<1>1. /\ s.objects \in Seq(Objects(logs)) /\ s.proxies \in Seq(Proxies)
      /\ s.raised \in {"no", "mixed", "other"}
  BY DEF States
<1>. HIDE DEF States, Objects, Proxies
<1>. QED  BY <1>1

\* A new object looks at what was there before it.
LEMMA AddObject ==
    ASSUME NEW logs, NEW objs \in Seq(Objects(logs)), ObjectsGood(objs),
           NEW o \in Objects(logs), NewGood(objs, o)
    PROVE  /\ Append(objs, o) \in Seq(Objects(logs))
           /\ Len(Append(objs, o)) = Len(objs) + 1
           /\ DOMAIN Append(objs, o) = 1..(Len(objs) + 1)
           /\ DOMAIN objs = 1..Len(objs) /\ Len(objs) \in Nat
           /\ \A i \in DOMAIN objs : Append(objs, o)[i] = objs[i]
           /\ Append(objs, o)[Len(objs) + 1] = o
           /\ ObjectsGood(Append(objs, o))
<1>. DEFINE more == Append(objs, o)
<1>1. /\ more \in Seq(Objects(logs)) /\ Len(more) = Len(objs) + 1
      /\ DOMAIN more = 1..(Len(objs) + 1)
      /\ DOMAIN objs = 1..Len(objs) /\ Len(objs) \in Nat
      /\ \A i \in DOMAIN objs : more[i] = objs[i]
      /\ more[Len(objs) + 1] = o
  OBVIOUS
<1>. HIDE DEF more
<1>2. ASSUME NEW k \in DOMAIN more
      PROVE  /\ more[k].mixed => more[k].world = "slow"
             /\ \A i \in DOMAIN more[k].looksAt :
                 /\ more[k].looksAt[i] \in 1..(k - 1)
                 /\ more[more[k].looksAt[i]].world = more[k].world
  <2>1. CASE k \in DOMAIN objs
    <3>1. more[k] = objs[k] /\ k \in 1..Len(objs)  BY <1>1, <2>1
    <3>2. \A b \in 1..(k - 1) : b \in DOMAIN objs  BY <1>1, <3>1
    <3>. QED  BY <1>1, <2>1, <3>1, <3>2 DEF ObjectsGood
  <2>2. CASE k = Len(objs) + 1
    <3>1. more[k] = o /\ k - 1 = Len(objs)  BY <1>1, <2>2
    <3>. QED  BY <1>1, <3>1 DEF NewGood
  <2>. QED  BY <1>1, <2>1, <2>2
<1>. QED  BY <1>1, <1>2 DEF ObjectsGood, more

\* A proxy does not notice objects that its own is not among.
LEMMA ProxyStays ==
    ASSUME NEW objs, NEW more, NEW p, NEW x, ProxyGood(objs, p, x),
           DOMAIN objs \subseteq DOMAIN more,
           \A o \in DOMAIN objs : more[o].looksAt = objs[o].looksAt
    PROVE  ProxyGood(more, p, x)
BY DEF ProxyGood

\* y is proxy x with another object.
Rewrapped(x, y, o) ==
    /\ y.wrapped = o /\ y.parents = x.parents /\ y.ids = x.ids
    /\ y.block = x.block /\ y.onFast = x.onFast

\* What a proxy that wraps another object is.
LEMMA RewrapFacts ==
    ASSUME NEW logs, NEW s \in States(logs), NEW p \in DOMAIN s.proxies,
           NEW o \in Objects(logs)
    PROVE  /\ Rewrap(s, p, o) \in States(logs)
           /\ Rewrap(s, p, o).objects = Append(s.objects, o)
           /\ Rewrap(s, p, o).raised = s.raised
           /\ DOMAIN Rewrap(s, p, o).proxies = DOMAIN s.proxies
           /\ Rewrapped(s.proxies[p], Rewrap(s, p, o).proxies[p],
                        Len(s.objects) + 1)
           /\ \A q \in DOMAIN s.proxies \ {p} :
                Rewrap(s, p, o).proxies[q] = s.proxies[q]
<1>. DEFINE u == Rewrap(s, p, o)
            x == [s.proxies[p] EXCEPT !.wrapped = Len(s.objects) + 1]
<1>0. /\ s.objects \in Seq(Objects(logs)) /\ s.proxies \in Seq(Proxies)
      /\ s.raised \in {"no", "mixed", "other"}
      /\ Len(s.objects) \in Nat /\ s.proxies[p] \in Proxies
      /\ p \in 1..Len(s.proxies)
  BY StateFields
<1>1. u = [objects |-> Append(s.objects, o),
           proxies |-> [s.proxies EXCEPT ![p] = x], raised |-> s.raised]
  <2>1. s = [objects |-> s.objects, proxies |-> s.proxies,
             raised |-> s.raised]
    BY DEF States
  <2>2. u = [s EXCEPT !.objects = Append(s.objects, o),
                      !.proxies = [s.proxies EXCEPT ![p] = x]]
    BY DEF Rewrap
  <2>. QED  BY <2>1, <2>2
<1>2. x \in Proxies
  <2>1. \A r \in Proxies, k \in Nat : [r EXCEPT !.wrapped = k] \in Proxies
    BY DEF Proxies
  <2>2. Len(s.objects) + 1 \in Nat  BY <1>0
  <2>. QED  BY <1>0, <2>1, <2>2
<1>a. Rewrapped(s.proxies[p], x, Len(s.objects) + 1)
  BY <1>0 DEF Rewrapped, Proxies
<1>. HIDE DEF x
<1>3. /\ [s.proxies EXCEPT ![p] = x] \in Seq(Proxies)
      /\ DOMAIN [s.proxies EXCEPT ![p] = x] = DOMAIN s.proxies
      /\ [s.proxies EXCEPT ![p] = x][p] = x
      /\ \A q \in DOMAIN s.proxies \ {p} :
            [s.proxies EXCEPT ![p] = x][q] = s.proxies[q]
  BY <1>0, <1>2, EntryReplaced
<1>4. Append(s.objects, o) \in Seq(Objects(logs))
  BY <1>0, AppendProperties
<1>. HIDE DEF u
<1>5. /\ u.objects = Append(s.objects, o) /\ u.raised = s.raised
      /\ u.proxies = [s.proxies EXCEPT ![p] = x]
  BY <1>1
<1>6. u \in States(logs)
  BY <1>0, <1>1, <1>3, <1>4 DEF States
<1>. QED  BY <1>3, <1>a, <1>5, <1>6 DEF u

\* A proxy wraps a new object of a world.
LEMMA RewrapConverts ==
    ASSUME NEW logs, NEW s \in States(logs), Good(s),
           NEW p \in DOMAIN s.proxies, NEW o \in Objects(logs),
           NewGood(s.objects, o),
           s.proxies[p].parents = <<>> <=> o.looksAt = <<>>
    PROVE  /\ Converted(logs, s, Rewrap(s, p, o), o.world, {p})
           /\ World(Rewrap(s, p, o), p) = o.world
           /\ Rewrap(s, p, o).raised = s.raised
<1>1. PICK u : u = Rewrap(s, p, o)  OBVIOUS
<1>2. /\ u \in States(logs) /\ u.objects = Append(s.objects, o)
      /\ u.raised = s.raised /\ DOMAIN u.proxies = DOMAIN s.proxies
      /\ Rewrapped(s.proxies[p], u.proxies[p], Len(s.objects) + 1)
      /\ \A q \in DOMAIN s.proxies \ {p} : u.proxies[q] = s.proxies[q]
  BY <1>1, RewrapFacts
<1>3. /\ Len(u.objects) = Len(s.objects) + 1 /\ Len(s.objects) \in Nat
      /\ DOMAIN u.objects = 1..(Len(s.objects) + 1)
      /\ DOMAIN s.objects = 1..Len(s.objects)
      /\ \A i \in DOMAIN s.objects : u.objects[i] = s.objects[i]
      /\ u.objects[Len(s.objects) + 1] = o
      /\ ObjectsGood(u.objects)
  BY <1>2, StateFields, AddObject DEF Good
<1>4. /\ u.proxies[p].wrapped = Len(s.objects) + 1
      /\ u.proxies[p].parents = s.proxies[p].parents
      /\ u.proxies[p].ids = s.proxies[p].ids
      /\ u.proxies[p].block = s.proxies[p].block
      /\ u.proxies[p].onFast = s.proxies[p].onFast
  BY <1>2 DEF Rewrapped
<1>5. \A q \in DOMAIN s.proxies : ProxyGood(u.objects, q, s.proxies[q])
  BY <1>3, ProxyStays DEF Good
<1>6. ProxyGood(u.objects, p, u.proxies[p])
  BY <1>3, <1>4, <1>5 DEF ProxyGood
<1>7. Good(u)
  BY <1>2, <1>3, <1>5, <1>6 DEF Good
<1>8. World(u, p) = o.world
  BY <1>3, <1>4 DEF World
<1>9. \A q \in DOMAIN s.proxies \ {p} : World(u, q) = World(s, q)
  BY <1>2, <1>3 DEF World, Good, ProxyGood
<1>10. Keeps(s, u, o.world)
  <2>1. Len(s.objects) <= Len(u.objects)  BY <1>3
  <2>2. \A q \in DOMAIN s.proxies :
            /\ u.proxies[q].block = s.proxies[q].block
            /\ u.proxies[q].parents = s.proxies[q].parents
            /\ u.proxies[q].onFast = s.proxies[q].onFast
            /\ World(s, q) = o.world => World(u, q) = o.world
    BY <1>2, <1>4, <1>8, <1>9
  <2>. QED  BY <1>2, <1>3, <2>1, <2>2 DEF Keeps
<1>11. KeepsBlocked(s, u, o.world, {p})
  BY <1>9 DEF KeepsBlocked, Blocked
<1>. QED  BY <1>1, <1>2, <1>7, <1>8, <1>10, <1>11 DEF Converted

\* Nothing is converted.
LEMMA NothingConverted ==
    ASSUME NEW logs, NEW s \in States(logs), Good(s), NEW world, NEW X
    PROVE  Converted(logs, s, s, world, X)
<1>1. Keeps(s, s, world)
  <2>1. Len(s.objects) \in Nat  BY StateFields
  <2>. QED  BY <2>1 DEF Keeps
<1>. QED  BY <1>1 DEF Converted, KeepsBlocked, Blocked

\* One conversion after the other.
LEMMA ConvertedTwice ==
    ASSUME NEW logs, NEW s \in States(logs), NEW u, NEW v, NEW world, NEW X,
           NEW Y, Converted(logs, s, u, world, X),
           Converted(logs, u, v, world, Y), X \subseteq Y
    PROVE  Converted(logs, s, v, world, Y)
<1>1. /\ u \in States(logs) /\ Keeps(s, u, world)
      /\ KeepsBlocked(s, u, world, X)
      /\ v \in States(logs) /\ Good(v) /\ Keeps(u, v, world)
      /\ KeepsBlocked(u, v, world, Y)
      /\ world = "slow" => v.raised = s.raised
  BY DEF Converted
<1>2. /\ Len(s.objects) \in Nat /\ Len(u.objects) \in Nat
      /\ Len(v.objects) \in Nat
      /\ DOMAIN s.objects = 1..Len(s.objects)
      /\ DOMAIN u.objects = 1..Len(u.objects)
  BY <1>1, StateFields
<1>3. Keeps(s, v, world)
  <2>1. \A o \in DOMAIN s.objects : o \in DOMAIN u.objects
    BY <1>1, <1>2 DEF Keeps
  <2>2. /\ Len(s.objects) <= Len(v.objects)
        /\ \A o \in DOMAIN s.objects : v.objects[o] = s.objects[o]
    BY <1>1, <1>2, <2>1 DEF Keeps
  <2>. QED  BY <1>1, <2>2 DEF Keeps
<1>4. KeepsBlocked(s, v, world, Y)
  <2>. SUFFICES ASSUME NEW p \in DOMAIN s.proxies \ Y, Blocked(s, p, world)
                PROVE  World(v, p) = "slow"
    BY DEF KeepsBlocked
  <2>1. World(u, p) = "slow" /\ p \in DOMAIN u.proxies \ Y
    BY <1>1 DEF KeepsBlocked, Keeps
  <2>2. u.proxies[p].block = s.proxies[p].block
    BY <1>1 DEF Keeps
  <2>3. Blocked(u, p, world)
    BY <2>1, <2>2 DEF Blocked
  <2>. QED  BY <1>1, <2>1, <2>3 DEF KeepsBlocked
<1>. QED  BY <1>1, <1>3, <1>4 DEF Converted

\* An exception is under way.
LEMMA RaiseFacts ==
    ASSUME NEW logs, NEW s \in States(logs), Good(s),
           NEW e \in {"no", "mixed", "other"}
    PROVE  /\ Raise(s, e) \in States(logs) /\ Good(Raise(s, e))
           /\ Raise(s, e).objects = s.objects
           /\ Raise(s, e).proxies = s.proxies /\ Raise(s, e).raised = e
<1>1. /\ Raise(s, e) \in States(logs)
      /\ Raise(s, e).objects = s.objects
      /\ Raise(s, e).proxies = s.proxies /\ Raise(s, e).raised = e
  BY DEF Raise, States
<1>. QED  BY <1>1 DEF Good

\* To fast, a conversion may raise.
LEMMA RaiseConverts ==
    ASSUME NEW logs, NEW s \in States(logs), Good(s),
           NEW e \in {"mixed", "other"}, NEW X
    PROVE  /\ Converted(logs, s, Raise(s, e), "fast", X)
           /\ Raise(s, e).raised # "no"
<1>1. /\ Raise(s, e) \in States(logs) /\ Good(Raise(s, e))
      /\ Raise(s, e).objects = s.objects
      /\ Raise(s, e).proxies = s.proxies /\ Raise(s, e).raised = e
  BY RaiseFacts
<1>2. \A p : World(Raise(s, e), p) = World(s, p)
  BY <1>1 DEF World
<1>3. Len(s.objects) \in Nat  BY StateFields
<1>4. Keeps(s, Raise(s, e), "fast")
  BY <1>1, <1>2, <1>3 DEF Keeps
<1>5. KeepsBlocked(s, Raise(s, e), "fast", X)
  BY <1>2 DEF KeepsBlocked, Blocked
<1>. QED  BY <1>1, <1>4, <1>5 DEF Converted

-----------------------------------------------------------------------------
(* Conversion *)

\* All the arguments are in a world.
InWorld(st, args, world) == \A i \in DOMAIN args : World(st, args[i]) = world

\* The arguments are among the first m proxies.
Among(args, m) == args \in Seq(Nat) /\ \A i \in DOMAIN args : args[i] \in 1..m

\* What the conversion of one proxy, blocked or not, makes of s.
ConvertedOne(logs, s, u, p, world) ==
    /\ Converted(logs, s, u, world, {p})
    /\ u.raised = "no" => World(u, p) = world
    /\ u.raised # "no" => Converted(logs, s, u, world, {})

\* before converts arguments to a world if n steps are enough for them.
Sound(before, logs, world, n) ==
    \A s \in States(logs), args \in Seq(Nat), m \in Nat :
        /\ Good(s) /\ m <= Len(s.proxies) /\ Among(args, m)
        /\ Len(args) + 2 * m <= n
        => /\ Converted(logs, s, before[<<s, args>>], world, {})
           /\ before[<<s, args>>].raised = "no"
                => s.raised = "no" /\ InWorld(before[<<s, args>>], args, world)

\* A final proxy gets a copy of its data.
LEMMA FinalConverted ==
    ASSUME NEW logs, NEW s \in States(logs), Good(s), s.raised = "no",
           NEW p \in DOMAIN s.proxies, Final(s.proxies[p]),
           NEW world \in Worlds
    PROVE  ConvertedOne(logs, s, ConvertFinal(s, p, world), p, world)
<1>1. PICK o : o = s.objects[s.proxies[p].wrapped]  OBVIOUS
<1>2. /\ s.proxies[p].wrapped \in DOMAIN s.objects
      /\ s.proxies[p].parents = <<>> /\ o.looksAt = <<>>
  BY <1>1 DEF Good, ProxyGood, Final
<1>3. o \in Objects(logs) /\ (o.mixed => o.world = "slow")
  BY <1>1, <1>2, StateFields DEF Good, ObjectsGood
<1>4. CASE o.world = world
  <2>1. ConvertFinal(s, p, world) = s
    BY <1>1, <1>4 DEF ConvertFinal
  <2>. QED  BY <1>1, <1>4, <2>1, NothingConverted DEF World, ConvertedOne
<1>5. CASE o.world # world /\ o.mixed
  <2>1. ConvertFinal(s, p, world) = Raise(s, "mixed")
    BY <1>1, <1>5 DEF ConvertFinal
  <2>2. world = "fast"
    BY <1>3, <1>5 DEF Worlds
  <2>. QED  BY <2>1, <2>2, RaiseConverts DEF ConvertedOne
<1>6. CASE o.world # world /\ ~o.mixed
  <2>1. PICK c : c = [o EXCEPT !.world = world]  OBVIOUS
  <2>2. ConvertFinal(s, p, world) = Rewrap(s, p, c)
    BY <1>1, <1>6, <2>1 DEF ConvertFinal
  <2>3. /\ c \in Objects(logs) /\ c.world = world /\ c.looksAt = <<>>
        /\ c.mixed = o.mixed
    BY <1>2, <1>3, <2>1 DEF Objects
  <2>4. NewGood(s.objects, c)
    BY <1>6, <2>3 DEF NewGood
  <2>5. /\ Converted(logs, s, Rewrap(s, p, c), c.world, {p})
        /\ World(Rewrap(s, p, c), p) = c.world
        /\ Rewrap(s, p, c).raised = s.raised
    BY <1>2, <2>3, <2>4, RewrapConverts
  <2>. QED  BY <2>2, <2>3, <2>5 DEF ConvertedOne
<1>. QED  BY <1>4, <1>5, <1>6

\* The parents of an intermediate are converted, and its call is repeated.
LEMMA Replayed ==
    ASSUME NEW logs, <<>> \in logs, NEW s \in States(logs), Good(s),
           NEW p \in DOMAIN s.proxies, ~Final(s.proxies[p]),
           NEW world \in Worlds,
           s.raised = "no" => InWorld(s, s.proxies[p].parents, world),
           world = "slow" => s.raised = "no"
    PROVE  /\ ConvertedOne(logs, s, Replay(s, p, world), p, world)
           /\ Replay(s, p, world).raised = "no" => s.raised = "no"
<1>1. CASE s.raised # "no"
  <2>1. Replay(s, p, world) = s  BY <1>1 DEF Replay
  <2>. QED  BY <1>1, <2>1, NothingConverted DEF ConvertedOne
<1>2. CASE s.raised = "no" /\ world = "fast" /\ ~s.proxies[p].onFast
  <2>1. Replay(s, p, world) = Raise(s, "other")  BY <1>2 DEF Replay
  <2>. QED  BY <1>2, <2>1, RaiseConverts DEF ConvertedOne
<1>3. CASE s.raised = "no" /\ ~(world = "fast" /\ ~s.proxies[p].onFast)
  <2>1. PICK o : o = View(world, ParentObjects(s, p))  OBVIOUS
  <2>2. Replay(s, p, world) = Rewrap(s, p, o)
    BY <1>3, <2>1 DEF Replay
  <2>3. PICK par : par = s.proxies[p].parents  OBVIOUS
  <2>4. /\ par \in Seq(Nat) /\ par # <<>> /\ Len(par) \in Nat
        /\ DOMAIN par = 1..Len(par) /\ p \in 1..Len(s.proxies)
        /\ \A i \in DOMAIN par : par[i] \in DOMAIN s.proxies
    <3>1. par \in Seq(Nat) /\ p \in 1..Len(s.proxies) /\ Len(s.proxies) \in Nat
          /\ DOMAIN s.proxies = 1..Len(s.proxies)
      BY <2>3, StateFields DEF Proxies
    <3>2. \A i \in DOMAIN par : par[i] \in 1..(p - 1)
      BY <2>3 DEF Good, ProxyGood
    <3>. QED  BY <2>3, <3>1, <3>2 DEF Final
  <2>5. PICK ids : ids = ParentObjects(s, p)  OBVIOUS
  <2>6. /\ DOMAIN ids = DOMAIN par
        /\ \A i \in DOMAIN par : ids[i] = s.proxies[par[i]].wrapped
    BY <2>3, <2>5 DEF ParentObjects, Wrapped
  <2>7. \A i \in DOMAIN par : /\ ids[i] \in DOMAIN s.objects
                              /\ s.objects[ids[i]].world = world
    BY <1>3, <2>3, <2>4, <2>6 DEF Good, ProxyGood, InWorld, World
  <2>8. DOMAIN s.objects = 1..Len(s.objects) /\ Len(s.objects) \in Nat
    BY StateFields
  <2>9. ids \in Seq(Nat) /\ ids # <<>>
    <3>1. ids \in [1..Len(par) -> Nat]
      <4>1. ids = [i \in DOMAIN par |-> s.proxies[par[i]].wrapped]
        BY <2>3, <2>5 DEF ParentObjects, Wrapped
      <4>2. \A i \in DOMAIN par : s.proxies[par[i]].wrapped \in Nat
        BY <2>6, <2>7, <2>8
      <4>. QED  BY <2>4, <4>1, <4>2
    <3>2. ids \in Seq(Nat) /\ Len(ids) = Len(par)
      BY <2>4, <3>1, FunctionIsSequence
    <3>. QED  BY <2>4, <3>2
  <2>10. o = [world |-> world, log |-> <<>>, mixed |-> FALSE, looksAt |-> ids]
    BY <2>1, <2>5 DEF View
  <2>11. o \in Objects(logs)
    BY <2>9, <2>10 DEF Objects
  <2>12. NewGood(s.objects, o)
    BY <2>6, <2>7, <2>8, <2>10 DEF NewGood
  <2>13. s.proxies[p].parents = <<>> <=> o.looksAt = <<>>
    BY <2>3, <2>4, <2>9, <2>10
  <2>14. o.world = world  BY <2>10
  <2>15. /\ Converted(logs, s, Rewrap(s, p, o), o.world, {p})
         /\ World(Rewrap(s, p, o), p) = o.world
         /\ Rewrap(s, p, o).raised = s.raised
    BY <2>11, <2>12, <2>13, RewrapConverts
  <2>. QED  BY <1>3, <2>2, <2>14, <2>15 DEF ConvertedOne
<1>. QED  BY <1>1, <1>2, <1>3

\* An identity is that of an object or of one made before it.
LEMMA IdIsEarlier ==
    ASSUME NEW o \in Nat
    PROVE  Id(o) \in Nat /\ Id(o) <= o
<1>1. CASE o \in DOMAIN Reused
  <2>1. Reused[o] \in Nat /\ Reused[o] < o
    BY <1>1, FastSlowAssumption
  <2>2. Id(o) = Reused[o]  BY <1>1 DEF Id
  <2>. QED  BY <2>1, <2>2
<1>2. CASE o \notin DOMAIN Reused
  BY <1>2 DEF Id
<1>. QED  BY <1>1, <1>2

\* The identities of a sequence of objects.
LEMMA IdsOf ==
    ASSUME NEW os \in Seq(Nat), NEW ids, NEW D, D = DOMAIN os,
           ids = [i \in D |-> Id(os[i])]
    PROVE  /\ ids \in Seq(Nat) /\ DOMAIN ids = DOMAIN os
           /\ \A i \in DOMAIN os : ids[i] <= os[i]
<1>1. Len(os) \in Nat /\ DOMAIN os = 1..Len(os)
      /\ \A i \in DOMAIN os : os[i] \in Nat
  OBVIOUS
<1>2. \A i \in DOMAIN os : Id(os[i]) \in Nat /\ Id(os[i]) <= os[i]
  BY <1>1, IdIsEarlier
<1>3. ids \in [1..Len(os) -> Nat]  BY <1>1, <1>2
<1>. QED  BY <1>1, <1>2, <1>3, FunctionIsSequence

\* The identities of the parents are noted again.
LEMMA ParentsRecorded ==
    ASSUME NEW logs, NEW s \in States(logs), Good(s),
           NEW p \in DOMAIN s.proxies, NEW world
    PROVE  /\ Converted(logs, s, RecordParentIds(s, p), world, {})
           /\ World(RecordParentIds(s, p), p) = World(s, p)
           /\ RecordParentIds(s, p).raised = s.raised
<1>1. PICK par : par = s.proxies[p].parents  OBVIOUS
<1>2. PICK ids : ids = ParentIds(s, p)  OBVIOUS
<1>3. PICK x : x = [s.proxies[p] EXCEPT !.ids = ids]  OBVIOUS
<1>4. PICK u : u = RecordParentIds(s, p)  OBVIOUS
<1>5. /\ s.proxies \in Seq(Proxies) /\ s.proxies[p] \in Proxies
      /\ p \in 1..Len(s.proxies) /\ Len(s.proxies) \in Nat
      /\ DOMAIN s.proxies = 1..Len(s.proxies)
      /\ DOMAIN s.objects = 1..Len(s.objects) /\ Len(s.objects) \in Nat
  BY StateFields
<1>6. /\ par \in Seq(Nat) /\ Len(par) \in Nat /\ DOMAIN par = 1..Len(par)
      /\ \A i \in DOMAIN par : par[i] \in DOMAIN s.proxies
  <2>1. par \in Seq(Nat)  BY <1>1, <1>5 DEF Proxies
  <2>2. \A i \in DOMAIN par : par[i] \in 1..(p - 1)
    BY <1>1 DEF Good, ProxyGood
  <2>. QED  BY <1>5, <2>1, <2>2
<1>7. ids \in Seq(Nat) /\ DOMAIN ids = DOMAIN par
  <2>1. ids = [i \in DOMAIN par |-> Id(s.proxies[par[i]].wrapped)]
    BY <1>1, <1>2 DEF ParentIds, ParentObjects, Wrapped
  <2>2. \A i \in DOMAIN par : s.proxies[par[i]].wrapped \in Nat
    BY <1>5, <1>6 DEF Good, ProxyGood
  <2>3. \A i \in DOMAIN par : Id(s.proxies[par[i]].wrapped) \in Nat
    BY <2>2, IdIsEarlier
  <2>4. ids \in [1..Len(par) -> Nat]  BY <1>6, <2>1, <2>3
  <2>. QED  BY <1>6, <2>1, <2>4, FunctionIsSequence
<1>8. /\ x \in Proxies /\ x.wrapped = s.proxies[p].wrapped /\ x.parents = par
      /\ x.ids = ids /\ x.block = s.proxies[p].block
      /\ x.onFast = s.proxies[p].onFast
  BY <1>1, <1>3, <1>5, <1>7 DEF Proxies
<1>9. /\ u \in States(logs) /\ u.objects = s.objects /\ u.raised = s.raised
      /\ u.proxies = [s.proxies EXCEPT ![p] = x]
  <2>1. s = [objects |-> s.objects, proxies |-> s.proxies,
             raised |-> s.raised]
    BY DEF States
  <2>2. u = [s EXCEPT !.proxies = [s.proxies EXCEPT ![p] = x]]
    BY <1>2, <1>3, <1>4 DEF RecordParentIds
  <2>3. u = [objects |-> s.objects, raised |-> s.raised,
             proxies |-> [s.proxies EXCEPT ![p] = x]]
    BY <2>1, <2>2
  <2>4. [s.proxies EXCEPT ![p] = x] \in Seq(Proxies)
    BY <1>5, <1>8, EntryReplaced
  <2>5. s.objects \in Seq(Objects(logs)) /\ s.raised \in {"no", "mixed", "other"}
    BY StateFields
  <2>. QED  BY <2>3, <2>4, <2>5 DEF States
<1>10. /\ DOMAIN u.proxies = DOMAIN s.proxies /\ u.proxies[p] = x
       /\ \A q \in DOMAIN s.proxies \ {p} : u.proxies[q] = s.proxies[q]
  BY <1>5, <1>8, <1>9, EntryReplaced
<1>11. \A q \in DOMAIN s.proxies : World(u, q) = World(s, q)
  BY <1>8, <1>9, <1>10 DEF World
<1>12. Good(u)
  <2>1. ProxyGood(u.objects, p, x)
    BY <1>1, <1>7, <1>8, <1>9 DEF Good, ProxyGood
  <2>. QED  BY <1>9, <1>10, <2>1 DEF Good
<1>13. Keeps(s, u, world)
  BY <1>1, <1>5, <1>8, <1>9, <1>10, <1>11 DEF Keeps
<1>14. KeepsBlocked(s, u, world, {})
  BY <1>11 DEF KeepsBlocked, Blocked
<1>. QED  BY <1>4, <1>9, <1>11, <1>12, <1>13, <1>14 DEF Converted

\* An intermediate is derived again, unless it is up to date.
LEMMA IntermediateConverted ==
    ASSUME NEW logs, <<>> \in logs, NEW s \in States(logs), Good(s),
           s.raised = "no", NEW p \in DOMAIN s.proxies, ~Final(s.proxies[p]),
           NEW world \in Worlds, NEW before, NEW n \in Nat,
           Sound(before, logs, world, n), 2 * p <= n
    PROVE  ConvertedOne(logs, s, ConvertIntermediate(before, s, p, world), p,
                        world)
<1>1. PICK par : par = s.proxies[p].parents  OBVIOUS
<1>2. PICK u : u = before[<<s, par>>]  OBVIOUS
<1>3. PICK v : v = Replay(u, p, world)  OBVIOUS
<1>4. /\ p \in 1..Len(s.proxies) /\ Len(s.proxies) \in Nat
      /\ DOMAIN s.proxies = 1..Len(s.proxies)
      /\ par \in Seq(Nat) /\ Len(par) \in Nat /\ Len(par) <= 2
      /\ \A i \in DOMAIN par : par[i] \in 1..(p - 1)
  <2>1. s.proxies[p] \in Proxies /\ p \in 1..Len(s.proxies)
        /\ DOMAIN s.proxies = 1..Len(s.proxies) /\ Len(s.proxies) \in Nat
    BY StateFields
  <2>2. par \in Seq(Nat)  BY <1>1, <2>1 DEF Proxies
  <2>3. Len(par) <= 2 /\ \A i \in DOMAIN par : par[i] \in 1..(p - 1)
    BY <1>1 DEF Good, ProxyGood
  <2>. QED  BY <2>1, <2>2, <2>3
<1>5. /\ Among(par, p - 1) /\ p - 1 \in Nat /\ p - 1 <= Len(s.proxies)
      /\ Len(par) + 2 * (p - 1) <= n
  BY <1>4 DEF Among
<1>6. /\ Converted(logs, s, u, world, {})
      /\ u.raised = "no" => InWorld(u, par, world)
  BY <1>2, <1>4, <1>5 DEF Sound
<1>7. /\ u \in States(logs) /\ Good(u) /\ p \in DOMAIN u.proxies
      /\ u.proxies[p].parents = par /\ ~Final(u.proxies[p])
      /\ world = "slow" => u.raised = "no"
  BY <1>1, <1>6 DEF Converted, Keeps, Final
<1>8. ConvertedOne(logs, u, v, p, world)
  BY <1>3, <1>6, <1>7, Replayed
<1>9. ConvertedOne(logs, s, v, p, world)
  BY <1>6, <1>8, ConvertedTwice DEF ConvertedOne
<1>10. CASE World(s, p) # world
  <2>1. ConvertIntermediate(before, s, p, world) = v
    BY <1>1, <1>2, <1>3, <1>10 DEF ConvertIntermediate
  <2>. QED  BY <1>9, <2>1
<1>11. CASE World(s, p) = world /\ ~ParentsChanged(s, p)
  <2>1. ConvertIntermediate(before, s, p, world) = s
    BY <1>11 DEF ConvertIntermediate
  <2>. QED  BY <1>11, <2>1, NothingConverted DEF ConvertedOne
<1>12. CASE World(s, p) = world /\ ParentsChanged(s, p) /\ v.raised # "no"
  <2>1. ConvertIntermediate(before, s, p, world) = v
    BY <1>1, <1>2, <1>3, <1>12 DEF ConvertIntermediate
  <2>. QED  BY <1>9, <2>1
<1>13. CASE World(s, p) = world /\ ParentsChanged(s, p) /\ v.raised = "no"
  <2>1. PICK w : w = RecordParentIds(v, p)  OBVIOUS
  <2>2. ConvertIntermediate(before, s, p, world) = w
    BY <1>1, <1>2, <1>3, <1>13, <2>1 DEF ConvertIntermediate
  <2>3. v \in States(logs) /\ Good(v) /\ p \in DOMAIN v.proxies
    BY <1>9 DEF ConvertedOne, Converted, Keeps
  <2>4. /\ Converted(logs, v, w, world, {})
        /\ World(w, p) = World(v, p) /\ w.raised = v.raised
    BY <2>1, <2>3, ParentsRecorded
  <2>5. Converted(logs, v, w, world, {p})
    BY <2>4 DEF Converted, KeepsBlocked
  <2>6. Converted(logs, s, w, world, {p})
    BY <1>9, <2>5, ConvertedTwice DEF ConvertedOne
  <2>. QED  BY <1>9, <1>13, <2>2, <2>4, <2>6 DEF ConvertedOne
<1>. QED  BY <1>10, <1>11, <1>12, <1>13

\* Either kind of proxy.
LEMMA OneConverted ==
    ASSUME NEW logs, <<>> \in logs, NEW s \in States(logs), Good(s),
           s.raised = "no", NEW p \in DOMAIN s.proxies,
           NEW world \in Worlds, NEW before, NEW n \in Nat,
           Sound(before, logs, world, n), 2 * p <= n
    PROVE  ConvertedOne(logs, s, ConvertOne(before, s, p, world), p, world)
<1>1. CASE Final(s.proxies[p])
  BY <1>1, FinalConverted DEF ConvertOne
<1>2. CASE ~Final(s.proxies[p])
  <2>1. ConvertOne(before, s, p, world)
            = ConvertIntermediate(before, s, p, world)
    BY <1>2 DEF ConvertOne
  <2>. QED  BY <1>2, <2>1, IntermediateConverted
<1>. QED  BY <1>1, <1>2

\* The arguments in order.
LEMMA ArgsTransformed ==
    ASSUME NEW logs, <<>> \in logs, NEW s \in States(logs), Good(s),
           NEW args \in Seq(Nat), NEW m \in Nat, m <= Len(s.proxies),
           Among(args, m), NEW world \in Worlds, NEW before, NEW n \in Nat,
           Sound(before, logs, world, n), Len(args) + 2 * m <= n + 1
    PROVE  /\ Converted(logs, s, TransformArgs(before, s, args, world),
                        world, {})
           /\ TransformArgs(before, s, args, world).raised = "no"
                => /\ s.raised = "no"
                   /\ InWorld(TransformArgs(before, s, args, world), args,
                              world)
<1>0. PICK t : t = TransformArgs(before, s, args, world)  OBVIOUS
<1>1. CASE args = <<>> \/ s.raised # "no"
  <2>1. t = s  BY <1>0, <1>1 DEF TransformArgs
  <2>2. args = <<>> => InWorld(s, args, world)  BY DEF InWorld
  <2>. QED  BY <1>0, <1>1, <2>1, <2>2, NothingConverted
<1>2. CASE args # <<>> /\ s.raised = "no" /\ Blocked(s, args[1], world)
  <2>1. t = Raise(s, "other")  BY <1>0, <1>2 DEF TransformArgs
  <2>2. world = "fast"  BY <1>2 DEF Blocked
  <2>. QED  BY <1>0, <2>1, <2>2, RaiseConverts
<1>3. CASE args # <<>> /\ s.raised = "no" /\ ~Blocked(s, args[1], world)
  <2>1. PICK p : p = args[1]  OBVIOUS
  <2>2. PICK rest : rest = Tail(args)  OBVIOUS
  <2>3. PICK u : u = ConvertOne(before, s, p, world)  OBVIOUS
  <2>4. t = before[<<u, rest>>]
    BY <1>0, <1>3, <2>1, <2>2, <2>3 DEF TransformArgs
  <2>5. /\ p \in 1..m /\ rest \in Seq(Nat) /\ Len(rest) = Len(args) - 1
        /\ Len(args) \in Nat /\ DOMAIN args = 1..Len(args)
        /\ DOMAIN rest = 1..Len(rest)
        /\ \A i \in DOMAIN rest : /\ i + 1 \in DOMAIN args
                                  /\ rest[i] = args[i + 1]
        /\ \A i \in DOMAIN args : i # 1 => /\ i - 1 \in DOMAIN rest
                                           /\ args[i] = rest[i - 1]
    <3>1. 1 \in DOMAIN args  BY <1>3
    <3>2. p \in 1..m  BY <2>1, <3>1 DEF Among
    <3>3. /\ rest \in Seq(Nat) /\ Len(rest) = Len(args) - 1
          /\ Len(args) \in Nat /\ DOMAIN args = 1..Len(args)
          /\ DOMAIN rest = 1..Len(rest)
          /\ \A i \in DOMAIN rest : /\ i + 1 \in DOMAIN args
                                    /\ rest[i] = args[i + 1]
          /\ \A i \in DOMAIN args : i # 1 => /\ i - 1 \in DOMAIN rest
                                             /\ args[i] = rest[i - 1]
      <4>1. args \in Seq(Nat) /\ args # <<>>  BY <1>3
      <4>. QED  BY <2>2, <4>1, TailFacts
    <3>. QED  BY <3>2, <3>3
  <2>6. Among(rest, m)
    BY <2>5 DEF Among
  <2>7. /\ p \in DOMAIN s.proxies /\ Len(s.proxies) \in Nat
        /\ DOMAIN s.proxies = 1..Len(s.proxies)
    BY <2>5, StateFields
  <2>8. 2 * p <= n /\ Len(rest) + 2 * m <= n
    BY <2>5
  <2>9. ConvertedOne(logs, s, u, p, world)
    BY <1>3, <2>3, <2>7, <2>8, OneConverted
  <2>10. Converted(logs, s, u, world, {})
    <3>1. KeepsBlocked(s, u, world, {})
      BY <1>3, <2>1, <2>9 DEF ConvertedOne, Converted, KeepsBlocked
    <3>. QED  BY <2>9, <3>1 DEF ConvertedOne, Converted
  <2>11. /\ u \in States(logs) /\ Good(u) /\ Len(u.proxies) = Len(s.proxies)
    <3>1. u \in States(logs) /\ Good(u) /\ DOMAIN u.proxies = DOMAIN s.proxies
      BY <2>9 DEF ConvertedOne, Converted, Keeps
    <3>2. DOMAIN u.proxies = 1..Len(u.proxies) /\ Len(u.proxies) \in Nat
      BY <3>1, StateFields
    <3>. QED  BY <2>7, <3>1, <3>2
  <2>12. /\ Converted(logs, u, t, world, {})
         /\ t.raised = "no" => u.raised = "no" /\ InWorld(t, rest, world)
    BY <2>4, <2>5, <2>6, <2>8, <2>11 DEF Sound
  <2>13. Converted(logs, s, t, world, {})
    BY <2>10, <2>12, ConvertedTwice
  <2>14. ASSUME t.raised = "no" PROVE InWorld(t, args, world)
    <3>1. World(t, p) = world
      <4>1. World(u, p) = world /\ p \in DOMAIN u.proxies
        BY <2>7, <2>9, <2>12, <2>14 DEF ConvertedOne, Converted, Keeps
      <4>. QED  BY <2>12, <4>1 DEF Converted, Keeps
    <3>. QED  BY <2>1, <2>5, <2>12, <2>14, <3>1 DEF InWorld
  <2>. QED  BY <1>0, <1>3, <2>13, <2>14
<1>. QED  BY <1>1, <1>2, <1>3

\* f is the conversion in up to k steps.
Converts(f, k, D, world) ==
    f = [n \in 0..k |->
            [x \in D |-> IF n = 0 THEN x[1]
                         ELSE TransformArgs(f[n - 1], x[1], x[2], world)]]

\* There is one.
LEMMA ConversionExists ==
    ASSUME NEW D, NEW world, NEW k \in Nat
    PROVE  \E f : Converts(f, k, D, world)
<1>. DEFINE S == {n \in Nat : \E f : Converts(f, n, D, world)}
<1>1. 0 \in S
  <2>1. PICK f : f = [n \in 0..0 |-> [x \in D |-> x[1]]]  OBVIOUS
  <2>2. Converts(f, 0, D, world)
    BY <2>1 DEF Converts
  <2>. QED  BY <2>2
<1>2. ASSUME NEW m \in S PROVE m + 1 \in S
  <2>1. PICK f : Converts(f, m, D, world)  OBVIOUS
  <2>2. m \in Nat  OBVIOUS
  <2>3. PICK g : g = [n \in 0..(m + 1) |->
                        IF n <= m THEN f[n]
                        ELSE [x \in D |->
                                TransformArgs(f[m], x[1], x[2], world)]]
    OBVIOUS
  <2>4. /\ \A n \in 0..m : g[n] = f[n]
        /\ g[m + 1] = [x \in D |-> TransformArgs(f[m], x[1], x[2], world)]
    BY <2>2, <2>3
  <2>5. ASSUME NEW n \in 0..(m + 1)
        PROVE  g[n] = [x \in D |->
                          IF n = 0 THEN x[1]
                          ELSE TransformArgs(g[n - 1], x[1], x[2], world)]
    <3>1. CASE n = m + 1
      <4>1. n # 0 /\ g[n - 1] = f[m]  BY <2>2, <2>4, <3>1
      <4>. QED  BY <2>4, <3>1, <4>1
    <3>2. CASE n \in 0..m
      <4>1. f[n] = [x \in D |->
                        IF n = 0 THEN x[1]
                        ELSE TransformArgs(f[n - 1], x[1], x[2], world)]
        BY <2>1, <3>2 DEF Converts
      <4>2. n # 0 => g[n - 1] = f[n - 1]  BY <2>2, <2>4, <3>2
      <4>3. g[n] = f[n]  BY <2>4, <3>2
      <4>. QED  BY <4>1, <4>2, <4>3
    <3>. QED  BY <2>2, <3>1, <3>2
  <2>6. g = [n \in 0..(m + 1) |-> g[n]]
    BY <2>3
  <2>7. Converts(g, m + 1, D, world)
    BY <2>5, <2>6 DEF Converts
  <2>. QED  BY <2>2, <2>7
<1>3. S \in SUBSET Nat  OBVIOUS
<1>. HIDE DEF S
<1>4. S = Nat
  BY <1>1, <1>2, <1>3, Induction
<1>. QED  BY <1>4 DEF S

\* It converts what so many steps are enough for.
LEMMA ConversionSound ==
    ASSUME NEW st, NEW world \in Worlds, NEW k \in Nat
    PROVE  Sound(Conversion(st, world, k), Logs(st), world, k)
<1>1. PICK D : D = States(Logs(st)) \X Seq(Nat)  OBVIOUS
<1>2. PICK f : f = CHOOSE g : Converts(g, k, D, world)  OBVIOUS
<1>3. Converts(f, k, D, world)
  BY <1>2, ConversionExists
<1>4. Conversion(st, world, k) = f[k]
  BY <1>1, <1>2 DEF Conversion, Converts
<1>5. PICK logs : logs = Logs(st)  OBVIOUS
<1>6. <<>> \in logs  BY <1>5 DEF Logs
<1>. DEFINE S == {n \in Nat : n <= k => Sound(f[n], logs, world, n)}
<1>7. 0 \in S
  <2>1. f[0] = [x \in D |-> x[1]]
    BY <1>3 DEF Converts
  <2>2. ASSUME NEW s \in States(logs), NEW args \in Seq(Nat), NEW m \in Nat,
               Good(s), Len(args) + 2 * m <= 0
        PROVE  /\ Converted(logs, s, f[0][<<s, args>>], world, {})
               /\ f[0][<<s, args>>].raised = "no"
                    => /\ s.raised = "no"
                       /\ InWorld(f[0][<<s, args>>], args, world)
    <3>1. f[0][<<s, args>>] = s  BY <1>1, <1>5, <2>1
    <3>2. Len(args) = 0 /\ DOMAIN args = {}  BY <2>2
    <3>. QED  BY <2>2, <3>1, <3>2, NothingConverted DEF InWorld
  <2>3. Sound(f[0], logs, world, 0)
    BY <2>2 DEF Sound
  <2>. QED  BY <2>3
<1>8. ASSUME NEW n \in S PROVE n + 1 \in S
  <2>0. n \in Nat  OBVIOUS
  <2>. SUFFICES ASSUME n + 1 <= k
                PROVE  Sound(f[n + 1], logs, world, n + 1)
    OBVIOUS
  <2>1. Sound(f[n], logs, world, n)  BY <2>0
  <2>2. f[n + 1] = [x \in D |-> TransformArgs(f[n], x[1], x[2], world)]
    <3>1. n + 1 \in 0..k /\ n + 1 # 0 /\ (n + 1) - 1 = n  BY <2>0
    <3>. QED  BY <1>3, <3>1 DEF Converts
  <2>3. ASSUME NEW s \in States(logs), NEW args \in Seq(Nat), NEW m \in Nat,
               Good(s), m <= Len(s.proxies), Among(args, m),
               Len(args) + 2 * m <= n + 1
        PROVE  /\ Converted(logs, s, f[n + 1][<<s, args>>], world, {})
               /\ f[n + 1][<<s, args>>].raised = "no"
                    => /\ s.raised = "no"
                       /\ InWorld(f[n + 1][<<s, args>>], args, world)
    <3>1. f[n + 1][<<s, args>>] = TransformArgs(f[n], s, args, world)
      BY <1>1, <1>5, <2>2
    <3>. QED  BY <1>6, <2>0, <2>1, <2>3, <3>1, ArgsTransformed
  <2>. QED  BY <2>3 DEF Sound
<1>9. S \in SUBSET Nat  OBVIOUS
<1>. HIDE DEF S
<1>10. S = Nat
  BY <1>7, <1>8, <1>9, Induction
<1>11. Sound(f[k], logs, world, k)
  BY <1>10 DEF S
<1>. QED  BY <1>4, <1>5, <1>11

\* A state is one of its own data.
IsState(st) == st \in States(Logs(st)) /\ Good(st)

\* The data of a state is its own.
LEMMA OwnLogs ==
    ASSUME NEW logs, NEW s \in States(logs)
    PROVE  s \in States(Logs(s))
<1>1. /\ s.objects \in Seq(Objects(logs)) /\ s.proxies \in Seq(Proxies)
      /\ s.raised \in {"no", "mixed", "other"}
      /\ Len(s.objects) \in Nat /\ DOMAIN s.objects = 1..Len(s.objects)
      /\ \A o \in DOMAIN s.objects : s.objects[o] \in Objects(logs)
  BY StateFields
<1>2. \A o \in DOMAIN s.objects : s.objects[o] \in Objects(Logs(s))
  BY <1>1 DEF Objects, Logs, Range
<1>3. s.objects \in [1..Len(s.objects) -> Objects(Logs(s))]
  BY <1>1, <1>2
<1>4. s.objects \in Seq(Objects(Logs(s)))
  BY <1>1, <1>3, FunctionIsSequence
<1>5. s = [objects |-> s.objects, proxies |-> s.proxies, raised |-> s.raised]
  BY DEF States
<1>. QED  BY <1>1, <1>4, <1>5 DEF States

\* All the arguments are converted, or an exception is under way: it never is
\* on the way to slow.
LEMMA AllConverted ==
    ASSUME NEW s, IsState(s), NEW world \in Worlds,
           NEW args, Among(args, Len(s.proxies))
    PROVE  /\ Converted(Logs(s), s, ConvertAll(s, args, world), world, {})
           /\ IsState(ConvertAll(s, args, world))
           /\ ConvertAll(s, args, world).raised = "no"
                => InWorld(ConvertAll(s, args, world), args, world)
<1>1. PICK k : k = Enough(s) + Len(args)  OBVIOUS
<1>2. args \in Seq(Nat) /\ Len(args) \in Nat /\ Len(s.proxies) \in Nat
  BY StateFields DEF Among, IsState
<1>3. k \in Nat /\ Len(args) + 2 * Len(s.proxies) <= k
  BY <1>1, <1>2 DEF Enough
<1>4. Sound(Conversion(s, world, k), Logs(s), world, k)
  BY <1>3, ConversionSound
<1>5. ConvertAll(s, args, world) = Conversion(s, world, k)[<<s, args>>]
  BY <1>1 DEF ConvertAll
<1>6. /\ Converted(Logs(s), s, ConvertAll(s, args, world), world, {})
      /\ ConvertAll(s, args, world).raised = "no"
           => InWorld(ConvertAll(s, args, world), args, world)
  BY <1>2, <1>3, <1>4, <1>5 DEF Sound, IsState
<1>. QED  BY <1>6, OwnLogs DEF Converted, IsState

\* The same for one proxy, which is converted even if it is blocked.
LEMMA OneProxyConverted ==
    ASSUME NEW s, IsState(s), s.raised = "no", NEW world \in Worlds,
           NEW p \in DOMAIN s.proxies
    PROVE  /\ ConvertedOne(Logs(s), s, Convert(s, p, world), p, world)
           /\ IsState(Convert(s, p, world))
<1>1. PICK k : k = Enough(s)  OBVIOUS
<1>2. Len(s.proxies) \in Nat /\ p \in 1..Len(s.proxies)
  BY StateFields DEF IsState
<1>3. k \in Nat /\ 2 * p <= k
  BY <1>1, <1>2 DEF Enough
<1>4. Sound(Conversion(s, world, k), Logs(s), world, k)
  BY <1>3, ConversionSound
<1>5. <<>> \in Logs(s)  BY DEF Logs
<1>6. Convert(s, p, world) = ConvertOne(Conversion(s, world, k), s, p, world)
  BY <1>1 DEF Convert
<1>7. ConvertedOne(Logs(s), s, Convert(s, p, world), p, world)
  BY <1>2, <1>3, <1>4, <1>5, <1>6, OneConverted DEF IsState
<1>8. IsState(Convert(s, p, world))
  BY <1>7, OwnLogs DEF ConvertedOne, Converted, IsState
<1>. QED  BY <1>7, <1>8

-----------------------------------------------------------------------------
(* Calls in a library *)

\* The objects are records of their types.
IsObjects(objs) == \E logs : objs \in Seq(Objects(logs))

\* f leads from every object to the frame that is written through it.
Targets(f, n, objs) ==
    f = [b \in 1..n |->
            IF objs[b].looksAt = <<>> THEN b ELSE f[objs[b].looksAt[1]]]

\* There is such a function.
LEMMA TargetsExist ==
    ASSUME NEW objs, ObjectsGood(objs), IsObjects(objs)
    PROVE  \E f : Targets(f, Len(objs), objs)
<1>0. PICK logs : objs \in Seq(Objects(logs))  BY DEF IsObjects
<1>1. /\ Len(objs) \in Nat /\ DOMAIN objs = 1..Len(objs)
      /\ \A b \in DOMAIN objs : objs[b].looksAt \in Seq(Nat)
  <2>1. Len(objs) \in Nat /\ DOMAIN objs = 1..Len(objs)
        /\ \A b \in DOMAIN objs : objs[b] \in Objects(logs)
    BY <1>0
  <2>. QED  BY <2>1 DEF Objects
<1>2. \A b \in DOMAIN objs : objs[b].looksAt # <<>>
                             => objs[b].looksAt[1] \in 1..(b - 1)
  <2>1. \A b \in DOMAIN objs : objs[b].looksAt # <<>>
                               => 1 \in DOMAIN objs[b].looksAt
    BY <1>1
  <2>. QED  BY <2>1 DEF ObjectsGood
<1>. DEFINE S == {n \in Nat : n <= Len(objs) => \E f : Targets(f, n, objs)}
<1>3. 0 \in S
  <2>1. PICK f : f = [b \in 1..0 |-> b]  OBVIOUS
  <2>2. Targets(f, 0, objs)  BY <2>1 DEF Targets
  <2>. QED  BY <2>2
<1>4. ASSUME NEW n \in S PROVE n + 1 \in S
  <2>0. n \in Nat  OBVIOUS
  <2>. SUFFICES ASSUME n + 1 <= Len(objs)
                PROVE  \E f : Targets(f, n + 1, objs)
    OBVIOUS
  <2>1. PICK f : Targets(f, n, objs)  BY <1>1, <2>0
  <2>2. PICK g : g = [b \in 1..(n + 1) |->
                        IF b <= n THEN f[b]
                        ELSE IF objs[b].looksAt = <<>> THEN b
                        ELSE f[objs[b].looksAt[1]]]
    OBVIOUS
  <2>3. \A b \in 1..n : g[b] = f[b]  BY <2>0, <2>2
  <2>4. ASSUME NEW b \in 1..(n + 1)
        PROVE  g[b] = IF objs[b].looksAt = <<>> THEN b
                      ELSE g[objs[b].looksAt[1]]
    <3>1. objs[b].looksAt # <<>> => objs[b].looksAt[1] \in 1..n
      BY <1>1, <1>2, <2>0
    <3>2. objs[b].looksAt # <<>> => g[objs[b].looksAt[1]] = f[objs[b].looksAt[1]]
      BY <2>3, <3>1
    <3>3. CASE b \in 1..n
      BY <2>1, <2>3, <3>2, <3>3 DEF Targets
    <3>4. CASE b = n + 1
      <4>1. g[b] = IF objs[b].looksAt = <<>> THEN b
                   ELSE f[objs[b].looksAt[1]]
        BY <2>0, <2>2, <3>4
      <4>. QED  BY <3>2, <4>1
    <3>. QED  BY <2>0, <3>3, <3>4
  <2>5. g = [b \in 1..(n + 1) |-> g[b]]  BY <2>2
  <2>6. Targets(g, n + 1, objs)
    BY <2>4, <2>5 DEF Targets
  <2>. QED  BY <2>6
<1>5. S \in SUBSET Nat  OBVIOUS
<1>. HIDE DEF S
<1>6. S = Nat  BY <1>3, <1>4, <1>5, Induction
<1>. QED  BY <1>1, <1>6 DEF S

\* A write changes a frame of the same library.
LEMMA TargetFacts ==
    ASSUME NEW objs, ObjectsGood(objs), IsObjects(objs), NEW o \in DOMAIN objs
    PROVE  /\ Target(objs, o) \in DOMAIN objs
           /\ objs[Target(objs, o)].world = objs[o].world
           /\ objs[Target(objs, o)].looksAt = <<>>
<1>0. PICK logs : objs \in Seq(Objects(logs))  BY DEF IsObjects
<1>1. /\ Len(objs) \in Nat /\ DOMAIN objs = 1..Len(objs)
      /\ \A b \in DOMAIN objs : objs[b].looksAt \in Seq(Nat)
  <2>1. Len(objs) \in Nat /\ DOMAIN objs = 1..Len(objs)
        /\ \A b \in DOMAIN objs : objs[b] \in Objects(logs)
    BY <1>0
  <2>. QED  BY <2>1 DEF Objects
<1>2. PICK f : f = CHOOSE g : Targets(g, Len(objs), objs)  OBVIOUS
<1>3. Targets(f, Len(objs), objs)  BY <1>2, TargetsExist
<1>4. \A b : Target(objs, b) = f[b]
  BY <1>1, <1>2 DEF Target, Targets
<1>5. \A b \in DOMAIN objs : objs[b].looksAt # <<>>
        => /\ objs[b].looksAt[1] \in 1..(b - 1)
           /\ objs[objs[b].looksAt[1]].world = objs[b].world
  <2>1. \A b \in DOMAIN objs : objs[b].looksAt # <<>>
                               => 1 \in DOMAIN objs[b].looksAt
    BY <1>1
  <2>. QED  BY <2>1 DEF ObjectsGood
<1>. DEFINE P(b) == /\ f[b] \in DOMAIN objs
                    /\ objs[f[b]].world = objs[b].world
                    /\ objs[f[b]].looksAt = <<>>
            S == {n \in Nat : \A b \in DOMAIN objs : b <= n => P(b)}
<1>6. 0 \in S  BY <1>1
<1>7. ASSUME NEW n \in S PROVE n + 1 \in S
  <2>0. n \in Nat /\ \A b \in DOMAIN objs : b <= n => P(b)  OBVIOUS
  <2>1. ASSUME NEW b \in DOMAIN objs, b = n + 1 PROVE P(b)
    <3>1. f[b] = IF objs[b].looksAt = <<>> THEN b ELSE f[objs[b].looksAt[1]]
      BY <1>1, <1>3 DEF Targets
    <3>2. CASE objs[b].looksAt = <<>>
      BY <3>1, <3>2
    <3>3. CASE objs[b].looksAt # <<>>
      <4>1. PICK c : c = objs[b].looksAt[1]  OBVIOUS
      <4>2. c \in 1..(b - 1) /\ objs[c].world = objs[b].world
        BY <1>5, <3>3, <4>1
      <4>3. c \in DOMAIN objs /\ c <= n  BY <1>1, <2>0, <2>1, <4>2
      <4>. QED  BY <2>0, <3>1, <3>3, <4>1, <4>2, <4>3
    <3>. QED  BY <3>2, <3>3
  <2>2. \A b \in DOMAIN objs : b <= n + 1 => b <= n \/ b = n + 1
    BY <1>1, <2>0
  <2>3. \A b \in DOMAIN objs : b <= n + 1 => P(b)
    BY <2>0, <2>1, <2>2
  <2>. QED  BY <2>0, <2>3
<1>8. S \in SUBSET Nat  OBVIOUS
<1>. HIDE DEF S
<1>9. S = Nat  BY <1>6, <1>7, <1>8, Induction
<1>10. P(o)  BY <1>1, <1>9 DEF S
<1>. QED  BY <1>4, <1>10


\* f collects the frames that every object looks at.
FrameSets(f, n, objs) ==
    f = [b \in 1..n |->
            IF objs[b].looksAt = <<>> THEN {b}
            ELSE UNION {f[c] : c \in Range(objs[b].looksAt)}]

\* There is such a function.
LEMMA FrameSetsExist ==
    ASSUME NEW objs, ObjectsGood(objs), IsObjects(objs)
    PROVE  \E f : FrameSets(f, Len(objs), objs)
<1>0. PICK logs : objs \in Seq(Objects(logs))  BY DEF IsObjects
<1>1. Len(objs) \in Nat /\ DOMAIN objs = 1..Len(objs)
  BY <1>0
<1>2. \A b \in DOMAIN objs : \A c \in Range(objs[b].looksAt) : c \in 1..(b - 1)
  BY DEF ObjectsGood, Range
<1>. DEFINE S == {n \in Nat : n <= Len(objs) => \E f : FrameSets(f, n, objs)}
<1>3. 0 \in S
  <2>1. PICK f : f = [b \in 1..0 |-> b]  OBVIOUS
  <2>2. FrameSets(f, 0, objs)  BY <2>1 DEF FrameSets
  <2>. QED  BY <2>2
<1>4. ASSUME NEW n \in S PROVE n + 1 \in S
  <2>0. n \in Nat  OBVIOUS
  <2>. SUFFICES ASSUME n + 1 <= Len(objs)
                PROVE  \E f : FrameSets(f, n + 1, objs)
    OBVIOUS
  <2>1. PICK f : FrameSets(f, n, objs)  BY <1>1, <2>0
  <2>2. PICK g : g = [b \in 1..(n + 1) |->
                        IF b <= n THEN f[b]
                        ELSE IF objs[b].looksAt = <<>> THEN {b}
                        ELSE UNION {f[c] : c \in Range(objs[b].looksAt)}]
    OBVIOUS
  <2>3. \A b \in 1..n : g[b] = f[b]  BY <2>0, <2>2
  <2>4. ASSUME NEW b \in 1..(n + 1)
        PROVE  g[b] = IF objs[b].looksAt = <<>> THEN {b}
                      ELSE UNION {g[c] : c \in Range(objs[b].looksAt)}
    <3>1. \A c \in Range(objs[b].looksAt) : c \in 1..n
      <4>1. b \in DOMAIN objs  BY <1>1, <2>0
      <4>2. \A c \in 1..(b - 1) : c \in 1..n  BY <2>0
      <4>. QED  BY <1>2, <4>1, <4>2
    <3>2. {g[c] : c \in Range(objs[b].looksAt)}
            = {f[c] : c \in Range(objs[b].looksAt)}
      BY <2>3, <3>1
    <3>3. CASE b \in 1..n
      BY <2>1, <2>3, <3>2, <3>3 DEF FrameSets
    <3>4. CASE b = n + 1
      <4>1. g[b] = IF objs[b].looksAt = <<>> THEN {b}
                   ELSE UNION {f[c] : c \in Range(objs[b].looksAt)}
        BY <2>0, <2>2, <3>4
      <4>. QED  BY <3>2, <4>1
    <3>. QED  BY <2>0, <3>3, <3>4
  <2>5. g = [b \in 1..(n + 1) |-> g[b]]  BY <2>2
  <2>6. FrameSets(g, n + 1, objs)
    BY <2>4, <2>5 DEF FrameSets
  <2>. QED  BY <2>6
<1>5. S \in SUBSET Nat  OBVIOUS
<1>. HIDE DEF S
<1>6. S = Nat  BY <1>3, <1>4, <1>5, Induction
<1>. QED  BY <1>1, <1>6 DEF S

\* The frames an object looks at are of its own library.
LEMMA FramesFacts ==
    ASSUME NEW objs, ObjectsGood(objs), IsObjects(objs), NEW o \in DOMAIN objs
    PROVE  \A a \in Frames(objs, o) : /\ a \in DOMAIN objs
                                      /\ objs[a].world = objs[o].world
<1>0. PICK logs : objs \in Seq(Objects(logs))  BY DEF IsObjects
<1>1. Len(objs) \in Nat /\ DOMAIN objs = 1..Len(objs)
  BY <1>0
<1>2. PICK f : f = CHOOSE g : FrameSets(g, Len(objs), objs)  OBVIOUS
<1>3. FrameSets(f, Len(objs), objs)  BY <1>2, FrameSetsExist
<1>4. \A b : Frames(objs, b) = f[b]
  BY <1>1, <1>2 DEF Frames, FrameSets
<1>5. \A b \in DOMAIN objs : \A c \in Range(objs[b].looksAt) :
        c \in 1..(b - 1) /\ objs[c].world = objs[b].world
  BY DEF ObjectsGood, Range
<1>. DEFINE P(b) == \A a \in f[b] : /\ a \in DOMAIN objs
                                    /\ objs[a].world = objs[b].world
            S == {n \in Nat : \A b \in DOMAIN objs : b <= n => P(b)}
<1>6. 0 \in S  BY <1>1
<1>7. ASSUME NEW n \in S PROVE n + 1 \in S
  <2>0. n \in Nat /\ \A b \in DOMAIN objs : b <= n => P(b)  OBVIOUS
  <2>1. ASSUME NEW b \in DOMAIN objs, b = n + 1 PROVE P(b)
    <3>1. f[b] = IF objs[b].looksAt = <<>> THEN {b}
                 ELSE UNION {f[c] : c \in Range(objs[b].looksAt)}
      BY <1>1, <1>3 DEF FrameSets
    <3>2. CASE objs[b].looksAt = <<>>
      BY <3>1, <3>2
    <3>3. CASE objs[b].looksAt # <<>>
      <4>. SUFFICES ASSUME NEW a \in f[b]
                    PROVE  a \in DOMAIN objs /\ objs[a].world = objs[b].world
        OBVIOUS
      <4>1. PICK c \in Range(objs[b].looksAt) : a \in f[c]
        BY <3>1, <3>3
      <4>2. c \in 1..(b - 1) /\ objs[c].world = objs[b].world
        BY <1>5
      <4>3. c \in DOMAIN objs /\ c <= n  BY <1>1, <2>0, <2>1, <4>2
      <4>. QED  BY <2>0, <4>1, <4>2, <4>3
    <3>. QED  BY <3>2, <3>3
  <2>2. \A b \in DOMAIN objs : b <= n + 1 => b <= n \/ b = n + 1
    BY <1>1, <2>0
  <2>3. \A b \in DOMAIN objs : b <= n + 1 => P(b)
    BY <2>0, <2>1, <2>2
  <2>. QED  BY <2>0, <2>3
<1>8. S \in SUBSET Nat  OBVIOUS
<1>. HIDE DEF S
<1>9. S = Nat  BY <1>6, <1>7, <1>8, Induction
<1>10. P(o)  BY <1>1, <1>9 DEF S
<1>. QED  BY <1>4, <1>10

\* What the objects of the fast library read is never mixed.
LEMMA MixedFacts ==
    ASSUME NEW objs, ObjectsGood(objs), IsObjects(objs), NEW os,
           \A i \in DOMAIN os : os[i] \in DOMAIN objs
    PROVE  /\ Mixed(objs, os) \in BOOLEAN
           /\ Mixed(objs, os) => \E i \in DOMAIN os : objs[os[i]].world = "slow"
<1>1. Mixed(objs, os) \in BOOLEAN  BY DEF Mixed
<1>2. ASSUME Mixed(objs, os)
      PROVE  \E i \in DOMAIN os : objs[os[i]].world = "slow"
  <2>1. PICK o \in Range(os) : \E a \in Frames(objs, o) : objs[a].mixed
    BY <1>2 DEF Mixed
  <2>2. PICK a \in Frames(objs, o) : objs[a].mixed
    BY <2>1
  <2>3. PICK i \in DOMAIN os : os[i] = o  BY DEF Range
  <2>4. o \in DOMAIN objs  BY <2>3
  <2>5. a \in DOMAIN objs /\ objs[a].world = objs[o].world
    BY <2>4, FramesFacts
  <2>. QED  BY <2>2, <2>3, <2>5 DEF ObjectsGood
<1>. QED  BY <1>1, <1>2

\* The objects after a call: the old ones stay in their library and look at
\* what they did.
Extends(objs, more) ==
    /\ IsObjects(more) /\ ObjectsGood(more)
    /\ Len(objs) <= Len(more)
    /\ \A o \in DOMAIN objs : /\ more[o].world = objs[o].world
                              /\ more[o].looksAt = objs[o].looksAt

\* More kinds of data make no difference.
LEMMA MoreLogs ==
    ASSUME NEW logs, NEW objs \in Seq(Objects(logs)), NEW log
    PROVE  objs \in Seq(Objects(logs \cup {log}))
<1>1. /\ Len(objs) \in Nat /\ DOMAIN objs = 1..Len(objs)
      /\ objs \in [1..Len(objs) -> Objects(logs)]
  OBVIOUS
<1>2. Objects(logs) \subseteq Objects(logs \cup {log})
  BY DEF Objects
<1>3. objs \in [1..Len(objs) -> Objects(logs \cup {log})]
  BY <1>1, <1>2
<1>. QED  BY <1>1, <1>3, FunctionIsSequence

\* A frame is written.
LEMMA FrameWritten ==
    ASSUME NEW logs, NEW objs \in Seq(Objects(logs)), ObjectsGood(objs),
           NEW t \in DOMAIN objs, NEW x \in Objects(logs),
           x.world = objs[t].world, x.looksAt = objs[t].looksAt,
           x.mixed => x.world = "slow"
    PROVE  /\ Extends(objs, [objs EXCEPT ![t] = x])
           /\ Len([objs EXCEPT ![t] = x]) = Len(objs)
<1>1. PICK more : more = [objs EXCEPT ![t] = x]  OBVIOUS
<1>2. /\ Len(objs) \in Nat /\ DOMAIN objs = 1..Len(objs)
  OBVIOUS
<1>3. /\ more \in Seq(Objects(logs)) /\ DOMAIN more = DOMAIN objs
      /\ more[t] = x
      /\ \A o \in DOMAIN objs \ {t} : more[o] = objs[o]
  BY <1>1, <1>2, EntryReplaced
<1>4. /\ Len(more) = Len(objs)
  BY <1>2, <1>3
<1>5. \A o \in DOMAIN objs : /\ more[o].world = objs[o].world
                             /\ more[o].looksAt = objs[o].looksAt
                             /\ more[o].mixed => more[o].world = "slow"
  BY <1>3 DEF ObjectsGood
<1>6. ObjectsGood(more)
  <2>. SUFFICES ASSUME NEW o \in DOMAIN objs
                PROVE  /\ more[o].mixed => more[o].world = "slow"
                       /\ \A i \in DOMAIN more[o].looksAt :
                           /\ more[o].looksAt[i] \in 1..(o - 1)
                           /\ more[more[o].looksAt[i]].world = more[o].world
    BY <1>3 DEF ObjectsGood
  <2>1. \A i \in DOMAIN objs[o].looksAt :
          /\ objs[o].looksAt[i] \in 1..(o - 1)
          /\ objs[objs[o].looksAt[i]].world = objs[o].world
    BY DEF ObjectsGood
  <2>2. \A b \in 1..(o - 1) : b \in DOMAIN objs  BY <1>2
  <2>. QED  BY <1>5, <2>1, <2>2
<1>. QED  BY <1>1, <1>2, <1>3, <1>4, <1>5, <1>6 DEF Extends, IsObjects

\* An object is made.
LEMMA ObjectMade ==
    ASSUME NEW logs, NEW objs \in Seq(Objects(logs)), ObjectsGood(objs),
           NEW x \in Objects(logs), NewGood(objs, x)
    PROVE  /\ Extends(objs, Append(objs, x))
           /\ Len(Append(objs, x)) = Len(objs) + 1
           /\ Append(objs, x)[Len(objs) + 1] = x
<1>1. PICK more : more = Append(objs, x)  OBVIOUS
<1>2. /\ more \in Seq(Objects(logs)) /\ Len(more) = Len(objs) + 1
      /\ DOMAIN objs = 1..Len(objs) /\ Len(objs) \in Nat
      /\ \A i \in DOMAIN objs : more[i] = objs[i]
      /\ more[Len(objs) + 1] = x
      /\ ObjectsGood(more)
  BY <1>1, AddObject
<1>3. Len(objs) <= Len(more)  BY <1>2
<1>. QED  BY <1>1, <1>2, <1>3 DEF Extends, IsObjects

\* A call in a library, on objects of that library.
LEMMA Executed ==
    ASSUME NEW objs, ObjectsGood(objs), IsObjects(objs), NEW world \in Worlds,
           NEW os \in Seq(Nat), os # <<>>,
           \A i \in DOMAIN os : os[i] \in DOMAIN objs /\ objs[os[i]].world = world,
           NEW shape \in Shapes, NEW support,
           world = "fast" => support # "slow_mixed"
    PROVE  /\ Extends(objs, Execute(objs, os, shape, support, world))
           /\ shape \in {"compute", "derive"}
                => /\ Len(Execute(objs, os, shape, support, world))
                        = Len(objs) + 1
                   /\ Execute(objs, os, shape, support, world)
                        [Len(objs) + 1].looksAt
                        = IF shape = "derive" THEN os ELSE <<>>
<1>0. PICK logs : objs \in Seq(Objects(logs))  BY DEF IsObjects
<1>1. /\ Len(objs) \in Nat /\ DOMAIN objs = 1..Len(objs)
      /\ \A b \in DOMAIN objs : objs[b] \in Objects(logs)
  BY <1>0
<1>2. PICK more : more = Execute(objs, os, shape, support, world)  OBVIOUS
<1>3. /\ 1 \in DOMAIN os /\ Tail(os) \in Seq(Nat)
      /\ \A i \in DOMAIN Tail(os) : i + 1 \in DOMAIN os /\ Tail(os)[i] = os[i + 1]
  <2>1. /\ 1 \in DOMAIN os /\ Tail(os) \in Seq(Nat)
        /\ Len(os) \in Nat /\ DOMAIN os = 1..Len(os)
        /\ DOMAIN Tail(os) = 1..(Len(os) - 1)
    OBVIOUS
  <2>2. \A i \in 1..(Len(os) - 1) : Tail(os)[i] = os[i + 1]
    OBVIOUS
  <2>3. \A i \in DOMAIN Tail(os) : i + 1 \in DOMAIN os
    BY <2>1
  <2>4. \A i \in DOMAIN Tail(os) : Tail(os)[i] = os[i + 1]
    BY <2>1, <2>2
  <2>. QED  BY <2>1, <2>3, <2>4
<1>4. CASE shape = "read"
  <2>1. more = objs  BY <1>2, <1>4 DEF Execute
  <2>2. Extends(objs, objs)  BY <1>1 DEF Extends
  <2>. QED  BY <1>2, <1>4, <2>1, <2>2
<1>5. CASE shape = "write"
  <2>1. PICK t : t = Target(objs, os[1])  OBVIOUS
  <2>2. PICK log : log = Append(objs[t].log, Entry(objs, Tail(os)))  OBVIOUS
  <2>3. PICK m : m = (\/ objs[t].mixed \/ support = "slow_mixed"
                      \/ Mixed(objs, Tail(os)))
    OBVIOUS
  <2>4. PICK x : x = [world |-> world, log |-> log, mixed |-> m,
                      looksAt |-> <<>>]
    OBVIOUS
  <2>5. more = [objs EXCEPT ![t] = x]
    BY <1>2, <1>5, <2>1, <2>2, <2>3, <2>4 DEF Execute, Frame
  <2>6. t \in DOMAIN objs /\ objs[t].world = world /\ objs[t].looksAt = <<>>
    BY <1>3, <2>1, TargetFacts
  <2>7. Mixed(objs, Tail(os)) \in BOOLEAN
        /\ (Mixed(objs, Tail(os)) => world = "slow")
    BY <1>3, MixedFacts
  <2>8. m \in BOOLEAN /\ (m => world = "slow")
    <3>1. objs[t].mixed \in BOOLEAN  BY <1>1, <2>6 DEF Objects
    <3>2. objs[t].mixed => world = "slow"  BY <2>6 DEF ObjectsGood
    <3>3. support = "slow_mixed" => world = "slow"  BY DEF Worlds
    <3>. QED  BY <2>3, <2>7, <3>1, <3>2, <3>3
  <2>9. x \in Objects(logs \cup {log})
    BY <2>4, <2>8 DEF Objects
  <2>10. /\ x.world = objs[t].world /\ x.looksAt = objs[t].looksAt
         /\ x.mixed => x.world = "slow"
    BY <2>4, <2>6, <2>8
  <2>11. objs \in Seq(Objects(logs \cup {log}))  BY <1>0, MoreLogs
  <2>12. Extends(objs, more)
    BY <2>5, <2>6, <2>9, <2>10, <2>11, FrameWritten
  <2>. QED  BY <1>2, <1>5, <2>12
<1>6. CASE shape = "compute"
  <2>1. PICK log : log = <<Entry(objs, os)>>  OBVIOUS
  <2>2. PICK m : m = (support = "slow_mixed" \/ Mixed(objs, os))  OBVIOUS
  <2>3. PICK x : x = [world |-> world, log |-> log, mixed |-> m,
                      looksAt |-> <<>>]
    OBVIOUS
  <2>4. more = Append(objs, x)
    BY <1>2, <1>6, <2>1, <2>2, <2>3 DEF Execute, Frame
  <2>5. Mixed(objs, os) \in BOOLEAN /\ (Mixed(objs, os) => world = "slow")
    BY MixedFacts
  <2>6. m \in BOOLEAN /\ (m => world = "slow")
    BY <2>2, <2>5 DEF Worlds
  <2>7. x \in Objects(logs \cup {log}) /\ x.looksAt = <<>>
    BY <2>3, <2>6 DEF Objects
  <2>8. NewGood(objs, x)
    BY <2>3, <2>6 DEF NewGood
  <2>9. objs \in Seq(Objects(logs \cup {log}))  BY <1>0, MoreLogs
  <2>10. /\ Extends(objs, more) /\ Len(more) = Len(objs) + 1
         /\ more[Len(objs) + 1] = x
    BY <2>4, <2>7, <2>8, <2>9, ObjectMade
  <2>. QED  BY <1>2, <1>6, <2>7, <2>10
<1>7. CASE shape = "derive"
  <2>1. PICK x : x = [world |-> world, log |-> <<>>, mixed |-> FALSE,
                      looksAt |-> os]
    OBVIOUS
  <2>2. more = Append(objs, x)
    BY <1>2, <1>7, <2>1 DEF Execute, View
  <2>3. x \in Objects(logs \cup {<<>>}) /\ x.looksAt = os
    BY <2>1 DEF Objects
  <2>4. NewGood(objs, x)
    BY <1>1, <2>1 DEF NewGood
  <2>5. objs \in Seq(Objects(logs \cup {<<>>}))  BY <1>0, MoreLogs
  <2>6. /\ Extends(objs, more) /\ Len(more) = Len(objs) + 1
        /\ more[Len(objs) + 1] = x
    BY <2>2, <2>3, <2>4, <2>5, ObjectMade
  <2>. QED  BY <1>2, <1>7, <2>3, <2>6
<1>. QED  BY <1>4, <1>5, <1>6, <1>7 DEF Shapes

-----------------------------------------------------------------------------
(* A call *)

\* What an attempt makes of s: the proxies stay what they are, the blocked
\* ones that are slow stay slow, and the objects look at what they did.
Moved(s, u) ==
    /\ IsState(u)
    /\ DOMAIN u.proxies = DOMAIN s.proxies
    /\ \A p \in DOMAIN s.proxies :
        /\ u.proxies[p].block = s.proxies[p].block
        /\ u.proxies[p].parents = s.proxies[p].parents
        /\ World(s, p) = "slow" /\ s.proxies[p].block = "to_fast"
             => World(u, p) = "slow"
    /\ Len(s.objects) <= Len(u.objects)
    /\ \A o \in DOMAIN s.objects :
         u.objects[o].looksAt = s.objects[o].looksAt

\* The last object is the one that a call of this shape made.
MadeLast(objs, shape) ==
    shape \in {"compute", "derive"}
        => /\ Len(objs) \in DOMAIN objs
           /\ objs[Len(objs)].looksAt = <<>> <=> shape = "compute"

\* As many proxies.
LEMMA SameNumber ==
    ASSUME NEW s, IsState(s), NEW u, IsState(u),
           DOMAIN u.proxies = DOMAIN s.proxies
    PROVE  Len(u.proxies) = Len(s.proxies)
<1>1. PICK m : m = Len(s.proxies)  OBVIOUS
<1>2. PICK n : n = Len(u.proxies)  OBVIOUS
<1>3. m \in Nat /\ n \in Nat /\ 1..m = 1..n
  BY <1>1, <1>2, StateFields DEF IsState
<1>4. m = n  BY <1>3
<1>. QED  BY <1>1, <1>2, <1>4

\* One attempt after the other.
LEMMA MovedTwice ==
    ASSUME NEW s, IsState(s), NEW u, NEW v, Moved(s, u), Moved(u, v)
    PROVE  Moved(s, v)
<1>1. /\ Len(s.objects) \in Nat /\ Len(u.objects) \in Nat
      /\ Len(v.objects) \in Nat
      /\ DOMAIN s.objects = 1..Len(s.objects)
      /\ DOMAIN u.objects = 1..Len(u.objects)
  BY StateFields DEF Moved, IsState
<1>2. /\ Len(s.objects) <= Len(u.objects) /\ Len(u.objects) <= Len(v.objects)
  BY DEF Moved
<1>3. Len(s.objects) <= Len(v.objects)  BY <1>1, <1>2
<1>4. \A o \in DOMAIN s.objects : o \in DOMAIN u.objects  BY <1>1, <1>2
<1>. QED  BY <1>3, <1>4 DEF Moved

\* A conversion is such a move.
LEMMA ConvertedMoves ==
    ASSUME NEW logs, NEW s, NEW u, NEW world \in Worlds,
           Converted(logs, s, u, world, {})
    PROVE  Moved(s, u)
<1>1. IsState(u)  BY OwnLogs DEF Converted, IsState
<1>2. \A p \in DOMAIN s.proxies :
         World(s, p) = "slow" /\ s.proxies[p].block = "to_fast"
             => World(u, p) = "slow"
  <2>1. CASE world = "fast"
    BY <2>1 DEF Converted, KeepsBlocked, Blocked
  <2>2. CASE world = "slow"
    BY <2>2 DEF Converted, Keeps
  <2>. QED  BY <2>1, <2>2 DEF Worlds
<1>. QED  BY <1>1, <1>2 DEF Converted, Keeps, Moved

\* So is an exception, or its end.
LEMMA RaiseMoves ==
    ASSUME NEW s, IsState(s), NEW e \in {"no", "mixed", "other"}
    PROVE  Moved(s, Raise(s, e)) /\ Raise(s, e).raised = e
<1>1. PICK u : u = Raise(s, e)  OBVIOUS
<1>2. /\ u \in States(Logs(s)) /\ Good(u) /\ u.objects = s.objects
      /\ u.proxies = s.proxies /\ u.raised = e
  BY <1>1, RaiseFacts DEF IsState
<1>3. IsState(u)  BY <1>2, OwnLogs DEF IsState
<1>4. Len(s.objects) \in Nat  BY StateFields DEF IsState
<1>. QED  BY <1>1, <1>2, <1>3, <1>4 DEF Moved, World

\* The objects of arguments.
LEMMA WrappedFacts ==
    ASSUME NEW s, IsState(s), NEW args, Among(args, Len(s.proxies)),
           args # <<>>
    PROVE  /\ Wrapped(s, args) \in Seq(Nat) /\ Wrapped(s, args) # <<>>
           /\ DOMAIN Wrapped(s, args) = DOMAIN args
           /\ \A i \in DOMAIN args :
                /\ args[i] \in DOMAIN s.proxies
                /\ Wrapped(s, args)[i] = s.proxies[args[i]].wrapped
                /\ Wrapped(s, args)[i] \in DOMAIN s.objects
                /\ s.objects[Wrapped(s, args)[i]].world = World(s, args[i])
<1>1. PICK os : os = Wrapped(s, args)  OBVIOUS
<1>2. /\ args \in Seq(Nat) /\ Len(args) \in Nat /\ DOMAIN args = 1..Len(args)
      /\ Len(args) # 0
      /\ \A i \in DOMAIN args : args[i] \in 1..Len(s.proxies)
  BY DEF Among
<1>3. /\ DOMAIN s.proxies = 1..Len(s.proxies)
      /\ DOMAIN s.objects = 1..Len(s.objects) /\ Len(s.objects) \in Nat
  BY StateFields DEF IsState
<1>4. os = [i \in DOMAIN args |-> s.proxies[args[i]].wrapped]
  BY <1>1 DEF Wrapped
<1>5. \A i \in DOMAIN args : s.proxies[args[i]].wrapped \in DOMAIN s.objects
  BY <1>2, <1>3 DEF IsState, Good, ProxyGood
<1>6. os \in [1..Len(args) -> Nat]
  <2>1. \A i \in DOMAIN args : s.proxies[args[i]].wrapped \in Nat
    BY <1>3, <1>5
  <2>. QED  BY <1>2, <1>4, <2>1
<1>7. os \in Seq(Nat) /\ Len(os) = Len(args)
  BY <1>2, <1>6, FunctionIsSequence
<1>8. os # <<>>  BY <1>2, <1>7
<1>. QED  BY <1>1, <1>2, <1>3, <1>4, <1>5, <1>7, <1>8 DEF World

\* A call that runs.
LEMMA RunMoves ==
    ASSUME NEW s, IsState(s), NEW world \in Worlds, NEW args,
           Among(args, Len(s.proxies)), args # <<>>, InWorld(s, args, world),
           NEW shape \in Shapes, NEW support,
           world = "fast" => support # "slow_mixed"
    PROVE  /\ Moved(s, Run(s, args, shape, support, world))
           /\ Run(s, args, shape, support, world).raised = s.raised
           /\ MadeLast(Run(s, args, shape, support, world).objects, shape)
<1>1. PICK u : u = Run(s, args, shape, support, world)  OBVIOUS
<1>2. PICK os : os = Wrapped(s, args)  OBVIOUS
<1>3. PICK more : more = Execute(s.objects, os, shape, support, world)
  OBVIOUS
<1>4. /\ s = [objects |-> s.objects, proxies |-> s.proxies,
              raised |-> s.raised]
      /\ s.proxies \in Seq(Proxies) /\ s.raised \in {"no", "mixed", "other"}
  BY DEF IsState, States
<1>5. /\ u.objects = more /\ u.proxies = s.proxies /\ u.raised = s.raised
      /\ u = [objects |-> more, proxies |-> s.proxies, raised |-> s.raised]
  <2>1. u = [s EXCEPT !.objects = more]
    BY <1>1, <1>2, <1>3 DEF Run
  <2>. QED  BY <1>4, <2>1
<1>6. /\ os \in Seq(Nat) /\ os # <<>>
      /\ \A i \in DOMAIN os : /\ os[i] \in DOMAIN s.objects
                              /\ s.objects[os[i]].world = world
  BY <1>2, WrappedFacts DEF InWorld
<1>7. IsObjects(s.objects) /\ ObjectsGood(s.objects)
  BY StateFields DEF IsState, Good, IsObjects
<1>8. /\ Extends(s.objects, more)
      /\ shape \in {"compute", "derive"}
           => /\ Len(more) = Len(s.objects) + 1
              /\ more[Len(s.objects) + 1].looksAt
                   = IF shape = "derive" THEN os ELSE <<>>
  BY <1>3, <1>6, <1>7, Executed
<1>9. PICK logs : more \in Seq(Objects(logs))
  BY <1>8 DEF Extends, IsObjects
<1>10. /\ Len(s.objects) \in Nat /\ DOMAIN s.objects = 1..Len(s.objects)
       /\ Len(more) \in Nat /\ DOMAIN more = 1..Len(more)
       /\ Len(s.objects) <= Len(more)
  BY <1>8, <1>9, StateFields DEF IsState, Extends
<1>11. MadeLast(more, shape)
  <2>. SUFFICES ASSUME shape \in {"compute", "derive"}
                PROVE  /\ Len(more) \in DOMAIN more
                       /\ more[Len(more)].looksAt = <<>> <=> shape = "compute"
    BY DEF MadeLast
  <2>1. Len(more) = Len(s.objects) + 1
        /\ more[Len(more)].looksAt = IF shape = "derive" THEN os ELSE <<>>
    BY <1>8
  <2>2. Len(more) \in DOMAIN more  BY <1>10, <2>1
  <2>. QED  BY <1>6, <2>1, <2>2
<1>12. u \in States(logs)
  BY <1>4, <1>5, <1>9 DEF States
<1>13. Good(u)
  <2>1. DOMAIN s.objects \subseteq DOMAIN more  BY <1>10
  <2>2. \A p \in DOMAIN s.proxies : ProxyGood(more, p, s.proxies[p])
    BY <1>8, <2>1, ProxyStays DEF IsState, Good, Extends
  <2>. QED  BY <1>5, <1>8, <2>2 DEF Good, Extends
<1>14. IsState(u)  BY <1>12, <1>13, OwnLogs DEF IsState
<1>15. \A p \in DOMAIN s.proxies : World(u, p) = World(s, p)
  BY <1>5, <1>8 DEF World, IsState, Good, ProxyGood, Extends
<1>16. Moved(s, u)
  BY <1>5, <1>8, <1>10, <1>14, <1>15 DEF Moved, Extends
<1>. QED  BY <1>1, <1>5, <1>11, <1>16

\* The attempt in the fast library.
LEMMA FastAttempted ==
    ASSUME IsState(Begin), NEW args, Among(args, Len(proxies)), args # <<>>,
           NEW shape \in Shapes, NEW support, NEW block
    PROVE  /\ Moved(Begin, FastAttempt(args, shape, support, block))
           /\ FastAttempt(args, shape, support, block).raised = "no"
                => MadeLast(FastAttempt(args, shape, support, block).objects,
                            shape)
<1>1. PICK s : s = Begin  OBVIOUS
<1>2. PICK c : c = IF block = "to_fast" THEN Raise(s, "other")
                   ELSE ConvertAll(s, args, "fast")
  OBVIOUS
<1>3. PICK u : u = FastAttempt(args, shape, support, block)  OBVIOUS
<1>4. IsState(s) /\ s.proxies = proxies /\ s.raised = "no"
  BY <1>1 DEF Begin
<1>5. /\ Moved(s, c)
      /\ c.raised = "no" => InWorld(c, args, "fast")
  <2>1. CASE block = "to_fast"
    BY <1>2, <1>4, <2>1, RaiseMoves
  <2>2. CASE block # "to_fast"
    <3>1. c = ConvertAll(s, args, "fast") /\ "fast" \in Worlds
      BY <1>2, <2>2 DEF Worlds
    <3>2. /\ Converted(Logs(s), s, c, "fast", {})
          /\ c.raised = "no" => InWorld(c, args, "fast")
      BY <1>4, <3>1, AllConverted
    <3>. QED  BY <3>1, <3>2, ConvertedMoves
  <2>. QED  BY <2>1, <2>2
<1>6. IsState(c) /\ Len(c.proxies) = Len(proxies)
  <2>1. IsState(c) /\ DOMAIN c.proxies = DOMAIN s.proxies
    BY <1>5 DEF Moved
  <2>. QED  BY <1>4, <2>1, SameNumber
<1>7. CASE c.raised # "no"
  <2>1. u = c  BY <1>1, <1>2, <1>3, <1>7 DEF FastAttempt
  <2>. QED  BY <1>1, <1>3, <1>5, <1>7, <2>1
<1>8. CASE c.raised = "no" /\ support = "both"
  <2>1. u = Run(c, args, shape, support, "fast") /\ "fast" \in Worlds
    BY <1>1, <1>2, <1>3, <1>8 DEF FastAttempt, Worlds
  <2>2. Among(args, Len(c.proxies)) /\ InWorld(c, args, "fast")
        /\ support # "slow_mixed"
    BY <1>5, <1>6, <1>8
  <2>3. Moved(c, u) /\ MadeLast(u.objects, shape)
    BY <1>6, <2>1, <2>2, RunMoves
  <2>4. Moved(s, u)  BY <1>4, <1>5, <2>3, MovedTwice
  <2>. QED  BY <1>1, <1>3, <2>3, <2>4
<1>9. CASE c.raised = "no" /\ support # "both"
  <2>1. PICK e \in {"mixed", "other"} : u = Raise(c, e)
    BY <1>1, <1>2, <1>3, <1>9 DEF FastAttempt
  <2>2. Moved(c, u) /\ u.raised # "no"  BY <1>6, <2>1, RaiseMoves
  <2>3. Moved(s, u)  BY <1>4, <1>5, <2>2, MovedTwice
  <2>. QED  BY <1>1, <1>3, <2>2, <2>3
<1>. QED  BY <1>7, <1>8, <1>9

\* The attempt in the slow library: it converts all the arguments.
LEMMA SlowAttempted ==
    ASSUME NEW s, IsState(s), NEW args, Among(args, Len(s.proxies)),
           args # <<>>, NEW shape \in Shapes, NEW support
    PROVE  /\ Moved(s, SlowAttempt(s, args, shape, support))
           /\ SlowAttempt(s, args, shape, support).raised = "no"
                => MadeLast(SlowAttempt(s, args, shape, support).objects,
                            shape)
<1>1. PICK r : r = Raise(s, "no")  OBVIOUS
<1>2. PICK c : c = ConvertAll(r, args, "slow")  OBVIOUS
<1>3. PICK u : u = SlowAttempt(s, args, shape, support)  OBVIOUS
<1>4. Moved(s, r) /\ r.raised = "no"  BY <1>1, RaiseMoves
<1>5. IsState(r) /\ Len(r.proxies) = Len(s.proxies)
  BY <1>1, RaiseFacts, <1>4 DEF Moved, IsState
<1>6. "slow" \in Worlds /\ Among(args, Len(r.proxies))  BY <1>5 DEF Worlds
<1>7. /\ Converted(Logs(r), r, c, "slow", {})
      /\ c.raised = "no" => InWorld(c, args, "slow")
  BY <1>2, <1>5, <1>6, AllConverted
<1>8. Moved(r, c) /\ c.raised = "no" /\ InWorld(c, args, "slow")
  BY <1>4, <1>6, <1>7, ConvertedMoves DEF Converted
<1>9. IsState(c) /\ Moved(s, c)
  BY <1>4, <1>8, MovedTwice DEF Moved
<1>10. Among(args, Len(c.proxies))
  <2>1. DOMAIN c.proxies = DOMAIN r.proxies  BY <1>8 DEF Moved
  <2>2. Len(c.proxies) = Len(r.proxies)  BY <1>5, <1>9, <2>1, SameNumber
  <2>. QED  BY <1>6, <2>2
<1>11. CASE support = "none"
  <2>1. u = Raise(c, "other")
    BY <1>1, <1>2, <1>3, <1>11 DEF SlowAttempt
  <2>2. Moved(c, u) /\ u.raised # "no"  BY <1>9, <2>1, RaiseMoves
  <2>. QED  BY <1>3, <1>9, <2>2, MovedTwice
<1>12. CASE support # "none"
  <2>1. u = Run(c, args, shape, support, "slow")
    BY <1>1, <1>2, <1>3, <1>12 DEF SlowAttempt
  <2>2. Moved(c, u) /\ MadeLast(u.objects, shape)
    BY <1>6, <1>8, <1>9, <1>10, <2>1, RunMoves
  <2>. QED  BY <1>3, <1>9, <2>2, MovedTwice
<1>. QED  BY <1>11, <1>12

\* A result is wrapped.
LEMMA ResultWrapped ==
    ASSUME NEW s, IsState(s), NEW args, Among(args, Len(s.proxies)),
           args # <<>>, Len(args) <= 2, NEW shape \in Shapes, NEW support,
           NEW forced,
           NEW result,
           shape \in {"compute", "derive"}
             => /\ result \in DOMAIN s.objects
                /\ s.objects[result].looksAt = <<>> <=> shape = "compute"
    PROVE  IsState([objects |-> s.objects,
                    proxies |-> WrapResult(s, args, shape, support, result,
                                           forced),
                    raised |-> "no"])
<1>1. PICK u : u = [objects |-> s.objects,
                    proxies |-> WrapResult(s, args, shape, support, result,
                                           forced),
                    raised |-> "no"]
  OBVIOUS
<1>2. /\ s.objects \in Seq(Objects(Logs(s))) /\ s.proxies \in Seq(Proxies)
      /\ Len(s.proxies) \in Nat /\ DOMAIN s.proxies = 1..Len(s.proxies)
      /\ Len(s.objects) \in Nat /\ DOMAIN s.objects = 1..Len(s.objects)
  BY StateFields DEF IsState
<1>3. CASE shape \in {"read", "write"}
  <2>1. /\ u.objects = s.objects /\ u.proxies = s.proxies
        /\ u = [objects |-> s.objects, proxies |-> s.proxies, raised |-> "no"]
    BY <1>1, <1>3 DEF WrapResult
  <2>2. u \in States(Logs(s))  BY <1>2, <2>1 DEF States
  <2>3. Good(u)  BY <2>1 DEF IsState, Good
  <2>. QED  BY <1>1, <2>2, <2>3, OwnLogs DEF IsState
<1>4. CASE shape \in {"compute", "derive"}
  <2>1. PICK block : block = IF forced THEN "to_fast" ELSE "none"  OBVIOUS
  <2>2. PICK par : par = IF shape = "derive" THEN args ELSE <<>>  OBVIOUS
  <2>3. PICK ids : ids = IF shape = "derive"
                         THEN [i \in DOMAIN args |-> Id(Wrapped(s, args)[i])]
                         ELSE <<>>
    OBVIOUS
  <2>4. PICK onFast : onFast = (shape # "derive" \/ support = "both")  OBVIOUS
  <2>5. PICK x : x = [wrapped |-> result, block |-> block, parents |-> par,
                      ids |-> ids, onFast |-> onFast]
    OBVIOUS
  <2>6. u.proxies = Append(s.proxies, x) /\ u.objects = s.objects
        /\ u = [objects |-> s.objects, proxies |-> Append(s.proxies, x),
                raised |-> "no"]
    <3>1. shape \notin {"read", "write"}  BY <1>4
    <3>2. WrapResult(s, args, shape, support, result, forced)
            = Append(s.proxies, x)
      BY <3>1, <2>1, <2>2, <2>3, <2>4, <2>5 DEF WrapResult
    <3>. QED  BY <1>1, <3>2
  <2>7. /\ par \in Seq(Nat) /\ ids \in Seq(Nat) /\ DOMAIN ids = DOMAIN par
        /\ Len(par) <= 2
        /\ \A i \in DOMAIN par : par[i] \in 1..Len(s.proxies)
        /\ par = <<>> <=> shape = "compute"
    <3>1. CASE shape = "derive"
      <4>1. par = args
            /\ ids = [i \in DOMAIN args |-> Id(Wrapped(s, args)[i])]
        BY <2>2, <2>3, <3>1
      <4>2. ids \in Seq(Nat) /\ DOMAIN ids = DOMAIN args
        BY <4>1, WrappedFacts, IdsOf
      <4>. QED  BY <3>1, <4>1, <4>2 DEF Among
    <3>2. CASE shape = "compute"
      <4>1. par = <<>> /\ ids = <<>>  BY <2>2, <2>3, <3>2
      <4>. QED  BY <3>2, <4>1
    <3>. QED  BY <1>4, <3>1, <3>2
  <2>8. /\ block \in Blocks /\ onFast \in BOOLEAN /\ result \in Nat
    BY <1>2, <1>4, <2>1, <2>4 DEF Blocks
  <2>9. x \in Proxies  BY <2>5, <2>7, <2>8 DEF Proxies
  <2>10. PICK more : more = Append(s.proxies, x)  OBVIOUS
  <2>11. /\ more \in Seq(Proxies) /\ DOMAIN more = 1..(Len(s.proxies) + 1)
         /\ \A p \in DOMAIN s.proxies : more[p] = s.proxies[p]
         /\ more[Len(s.proxies) + 1] = x
    BY <1>2, <2>9, <2>10
  <2>12. u \in States(Logs(s))
    BY <1>2, <2>6, <2>10, <2>11 DEF States
  <2>13. ProxyGood(s.objects, Len(s.proxies) + 1, x)
    <3>1. /\ x.wrapped = result /\ x.parents = par /\ x.ids = ids
      BY <2>5
    <3>2. (Len(s.proxies) + 1) - 1 = Len(s.proxies)  BY <1>2
    <3>. QED  BY <1>4, <2>7, <3>1, <3>2 DEF ProxyGood
  <2>14. Good(u)
    <3>1. \A p \in DOMAIN more : p \in DOMAIN s.proxies
                                 \/ p = Len(s.proxies) + 1
      BY <1>2, <2>11
    <3>2. \A p \in DOMAIN more : ProxyGood(s.objects, p, more[p])
      BY <2>11, <2>13, <3>1 DEF IsState, Good
    <3>. QED  BY <2>6, <2>10, <3>2 DEF IsState, Good
  <2>. QED  BY <1>1, <2>12, <2>14, OwnLogs DEF IsState
<1>. QED  BY <1>3, <1>4 DEF Shapes

\* The invariant: objects and proxies are good between calls.
IInv ==
    /\ IsState(Begin)
    /\ methodBlock \in [MethodShapes -> Blocks \cup {"unset"}]
    /\ calls \in 0..MaxCalls

\* The forced proxies stay slow in this step.
StaySlow ==
    \A p \in DOMAIN proxies :
        World(Begin, p) = "slow"
        /\ proxies[p].block = "to_fast" /\ proxies'[p].block = "to_fast"
        => objects'[proxies'[p].wrapped].world = "slow"

\* What a program may pass to a call.
Passed(args) ==
    /\ Among(args, Len(proxies)) /\ args # <<>> /\ Len(args) <= 2

\* A state without an exception is what the next call begins with.
LEMMA NextBegins ==
    Begin' = [objects |-> objects', proxies |-> proxies', raised |-> "no"]
BY DEF Begin

\* The state has its fields.
LEMMA BeginFields ==
    /\ Begin.objects = objects /\ Begin.proxies = proxies
    /\ Begin.raised = "no"
BY DEF Begin

\* Every argument list that Next enumerates is one.
LEMMA ArgumentsPassed ==
    ASSUME IsState(Begin)
    PROVE  /\ \A args \in Arguments : Passed(args)
           /\ \A p \in DOMAIN proxies : Passed(<<p>>)
<1>1. /\ Len(proxies) \in Nat /\ DOMAIN proxies = 1..Len(proxies)
  BY StateFields, BeginFields DEF IsState
<1>2. ASSUME NEW p \in DOMAIN proxies PROVE Passed(<<p>>)
  <2>1. PICK args : args = <<p>>  OBVIOUS
  <2>2. /\ args \in Seq(Nat) /\ Len(args) = 1 /\ DOMAIN args = {1}
        /\ args[1] = p
    BY <1>1, <2>1
  <2>. QED  BY <1>1, <2>1, <2>2 DEF Passed, Among
<1>3. ASSUME NEW args \in [1..2 -> DOMAIN proxies] PROVE Passed(args)
  <2>1. args \in [1..2 -> Nat]  BY <1>1
  <2>2. args \in Seq(Nat) /\ Len(args) = 2 /\ DOMAIN args = 1..2
    BY <2>1, FunctionIsSequence
  <2>3. args # <<>>  BY <2>2
  <2>. QED  BY <1>1, <2>2, <2>3 DEF Passed, Among
<1>. QED  BY <1>2, <1>3 DEF Arguments

\* A call leaves good objects and proxies, and the forced proxies slow.
LEMMA CallKeeps ==
    ASSUME IsState(Begin), NEW shape \in Shapes, NEW args, Passed(args),
           NEW support, Call(shape, args, support)
    PROVE  IsState(Begin') /\ StaySlow
<1>1. PICK block : block = IF shape \in MethodShapes
                           THEN MethodBlock(shape, args[1]) ELSE "none"
  OBVIOUS
<1>2. PICK fast : fast = FastAttempt(args, shape, support, block)  OBVIOUS
<1>3. PICK ran : ran = IF fast.raised = "no" THEN fast
                       ELSE SlowAttempt(fast, args, shape, support)
  OBVIOUS
<1>4. PICK after : after = IF fast.raised = "no" /\ Debugging
                           THEN SlowAttempt(fast, args, shape, support)
                           ELSE ran
  OBVIOUS
<1>5. /\ objects' = after.objects
      /\ proxies' = IF ran.raised = "no"
                    THEN WrapResult(after, args, shape, support,
                                    Len(ran.objects), fast.raised = "mixed")
                    ELSE after.proxies
  BY <1>1, <1>2, <1>3, <1>4 DEF Call
<1>6. /\ Among(args, Len(proxies)) /\ args # <<>> /\ Len(args) <= 2
  BY DEF Passed
<1>7. /\ Moved(Begin, fast)
      /\ fast.raised = "no" => MadeLast(fast.objects, shape)
  BY <1>2, <1>6, FastAttempted
<1>8. IsState(fast) /\ Len(fast.proxies) = Len(proxies)
  BY <1>7, BeginFields, SameNumber DEF Moved
<1>9. PICK slow : slow = SlowAttempt(fast, args, shape, support)  OBVIOUS
<1>10. /\ Moved(fast, slow)
       /\ slow.raised = "no" => MadeLast(slow.objects, shape)
  BY <1>6, <1>8, <1>9, SlowAttempted
<1>11. IsState(slow) /\ Moved(Begin, slow)
  BY <1>7, <1>10, MovedTwice DEF Moved
<1>12. /\ Moved(Begin, after) /\ IsState(after)
  BY <1>3, <1>4, <1>7, <1>8, <1>9, <1>11
<1>13. ran.raised = "no" =>
         (shape \in {"compute", "derive"}
           => /\ Len(ran.objects) \in DOMAIN after.objects
              /\ after.objects[Len(ran.objects)].looksAt = <<>>
                    <=> shape = "compute")
  <2>1. CASE fast.raised # "no"
    BY <1>3, <1>4, <1>9, <1>10, <2>1 DEF MadeLast
  <2>2. CASE fast.raised = "no" /\ ~Debugging
    BY <1>3, <1>4, <1>7, <2>2 DEF MadeLast
  <2>3. CASE fast.raised = "no" /\ Debugging
    <3>1. ran = fast /\ after = slow  BY <1>3, <1>4, <1>9, <2>3
    <3>2. \A o \in DOMAIN fast.objects :
             /\ o \in DOMAIN slow.objects
             /\ slow.objects[o].looksAt = fast.objects[o].looksAt
      <4>1. /\ DOMAIN fast.objects = 1..Len(fast.objects)
            /\ DOMAIN slow.objects = 1..Len(slow.objects)
            /\ Len(fast.objects) \in Nat /\ Len(slow.objects) \in Nat
        BY <1>8, <1>11, StateFields DEF IsState
      <4>2. Len(fast.objects) <= Len(slow.objects)  BY <1>10 DEF Moved
      <4>. QED  BY <1>10, <4>1, <4>2 DEF Moved
    <3>. QED  BY <1>7, <2>3, <3>1, <3>2 DEF MadeLast
  <2>. QED  BY <2>1, <2>2, <2>3
<1>14. Len(after.proxies) = Len(proxies) /\ DOMAIN after.proxies = DOMAIN proxies
  BY <1>12, BeginFields, SameNumber DEF Moved
<1>15. IsState(Begin')
  <2>1. CASE ran.raised = "no"
    <3>1. IsState([objects |-> after.objects,
                   proxies |-> WrapResult(after, args, shape, support,
                                  Len(ran.objects), fast.raised = "mixed"),
                   raised |-> "no"])
      BY <1>6, <1>12, <1>13, <1>14, <2>1, ResultWrapped
    <3>. QED  BY <1>5, <2>1, <3>1, NextBegins
  <2>2. CASE ran.raised # "no"
    <3>1. PICK u : u = Raise(after, "no")  OBVIOUS
    <3>2. IsState(u)  BY <1>12, <3>1, RaiseMoves DEF Moved
    <3>3. u = [objects |-> after.objects, proxies |-> after.proxies,
               raised |-> "no"]
      BY <1>12, <3>1 DEF Raise, IsState, States
    <3>. QED  BY <1>5, <2>2, <3>2, <3>3, NextBegins
  <2>. QED  BY <2>1, <2>2
<1>16. \A p \in DOMAIN proxies : proxies'[p] = after.proxies[p]
  <2>1. after.proxies \in Seq(Proxies)  BY <1>12, StateFields DEF IsState
  <2>2. \A x : \A p \in DOMAIN after.proxies :
            Append(after.proxies, x)[p] = after.proxies[p]
    BY <2>1
  <2>. QED  BY <1>5, <1>14, <2>2 DEF WrapResult
<1>17. StaySlow
  BY <1>5, <1>12, <1>16, BeginFields DEF StaySlow, Moved, World
<1>. QED  BY <1>15, <1>17

\* A method's cached transfer block stays one.
LEMMA CallKeepsMethodBlock ==
    ASSUME IInv, NEW shape \in Shapes, NEW args, Passed(args),
           NEW support, Call(shape, args, support)
    PROVE  methodBlock' \in [MethodShapes -> Blocks \cup {"unset"}]
<1>1. 1 \in DOMAIN args /\ args[1] \in DOMAIN proxies
  <2>1. args \in Seq(Nat) /\ args # <<>>  BY DEF Passed, Among
  <2>2. 1 \in DOMAIN args  BY <2>1
  <2>3. DOMAIN proxies = 1..Len(proxies)
    BY StateFields, BeginFields DEF IInv, IsState
  <2>. QED  BY <2>2, <2>3 DEF Passed, Among
<1>2. proxies[args[1]].block \in Blocks
  <2>1. proxies[args[1]] \in Proxies
    BY <1>1, StateFields, BeginFields DEF IInv, IsState
  <2>. QED  BY <2>1 DEF Proxies
<1>3. CASE shape \in MethodShapes
  <2>1. MethodBlock(shape, args[1]) \in Blocks \cup {"unset"}
    BY <1>2, <1>3 DEF MethodBlock, IInv
  <2>2. methodBlock' = [methodBlock EXCEPT
                            ![shape] = MethodBlock(shape, args[1])]
    BY <1>3 DEF Call
  <2>. QED  BY <1>3, <2>1, <2>2 DEF IInv
<1>4. CASE shape \notin MethodShapes
  BY <1>4 DEF Call, IInv
<1>. QED  BY <1>3, <1>4

\* A proxy gets another transfer block.
LEMMA BlockSet ==
    ASSUME NEW s, IsState(s), s.raised = "no", NEW p \in DOMAIN s.proxies,
           NEW block \in Blocks
    PROVE  /\ IsState([objects |-> s.objects,
                       proxies |-> [s.proxies EXCEPT ![p].block = block],
                       raised |-> "no"])
           /\ [s.proxies EXCEPT ![p].block = block][p].block = block
           /\ [s.proxies EXCEPT ![p].block = block][p].wrapped
                = s.proxies[p].wrapped
           /\ \A q \in DOMAIN s.proxies \ {p} :
                [s.proxies EXCEPT ![p].block = block][q] = s.proxies[q]
<1>1. PICK x : x = [s.proxies[p] EXCEPT !.block = block]  OBVIOUS
<1>2. PICK more : more = [s.proxies EXCEPT ![p] = x]  OBVIOUS
<1>3. [s.proxies EXCEPT ![p].block = block] = more  BY <1>1, <1>2
<1>4. /\ s.proxies \in Seq(Proxies) /\ p \in 1..Len(s.proxies)
      /\ s.proxies[p] \in Proxies /\ s.objects \in Seq(Objects(Logs(s)))
  BY StateFields DEF IsState
<1>5. /\ x \in Proxies /\ x.block = block /\ x.wrapped = s.proxies[p].wrapped
      /\ x.parents = s.proxies[p].parents /\ x.ids = s.proxies[p].ids
  BY <1>1, <1>4 DEF Proxies
<1>6. /\ more \in Seq(Proxies) /\ DOMAIN more = DOMAIN s.proxies
      /\ more[p] = x /\ \A q \in DOMAIN s.proxies \ {p} : more[q] = s.proxies[q]
  BY <1>2, <1>4, <1>5, EntryReplaced
<1>7. PICK u : u = [objects |-> s.objects, proxies |-> more, raised |-> "no"]
  OBVIOUS
<1>8. u \in States(Logs(s))  BY <1>4, <1>6, <1>7 DEF States
<1>9. Good(u)
  <2>1. ProxyGood(s.objects, p, x)
    BY <1>5 DEF IsState, Good, ProxyGood
  <2>2. u.objects = s.objects /\ u.proxies = more  BY <1>7
  <2>. QED  BY <1>6, <2>1, <2>2 DEF IsState, Good
<1>10. IsState(u)  BY <1>8, <1>9, OwnLogs DEF IsState
<1>. QED  BY <1>3, <1>5, <1>6, <1>7, <1>10

\* The program sets a block.
LEMMA SetTransferBlockStateKeeps ==
    ASSUME IsState(Begin), NEW p \in DOMAIN proxies, NEW block \in Blocks,
           SetTransferBlockState(p, block)
    PROVE  IsState(Begin') /\ StaySlow
<1>1. PICK s : s = Begin  OBVIOUS
<1>2. /\ IsState(s) /\ s.raised = "no" /\ s.proxies = proxies
      /\ s.objects = objects /\ p \in DOMAIN s.proxies
  BY <1>1, BeginFields
<1>3. /\ proxies' = [s.proxies EXCEPT ![p].block = block]
      /\ objects' = s.objects
  BY <1>2 DEF SetTransferBlockState
<1>4. IsState([objects |-> objects', proxies |-> proxies', raised |-> "no"])
  BY <1>2, <1>3, BlockSet
<1>5. \A q \in DOMAIN proxies : proxies'[q].wrapped = proxies[q].wrapped
  BY <1>2, <1>3, BlockSet
<1>. QED  BY <1>2, <1>3, <1>4, <1>5, NextBegins, BeginFields
          DEF StaySlow, World

\* The program forces a proxy to a library.
LEMMA ForceStateKeeps ==
    ASSUME IsState(Begin), NEW p \in DOMAIN proxies, NEW world \in Worlds,
           ForceState(p, world)
    PROVE  IsState(Begin') /\ StaySlow
<1>1. PICK s : s = Begin  OBVIOUS
<1>2. /\ IsState(s) /\ s.raised = "no" /\ s.proxies = proxies
      /\ s.objects = objects /\ p \in DOMAIN s.proxies
  BY <1>1, BeginFields
<1>3. PICK c : c = Convert(s, p, world)  OBVIOUS
<1>4. ConvertedOne(Logs(s), s, c, p, world) /\ IsState(c)
  BY <1>2, <1>3, OneProxyConverted
<1>5. /\ DOMAIN c.proxies = DOMAIN s.proxies
      /\ \A q \in DOMAIN s.proxies \ {p} : 
            World(s, q) = "slow" /\ s.proxies[q].block = "to_fast"
                => World(c, q) = "slow"
  <2>1. CASE world = "fast"
    BY <1>4, <2>1 DEF ConvertedOne, Converted, KeepsBlocked, Blocked, Keeps
  <2>2. CASE world = "slow"
    BY <1>4, <2>2 DEF ConvertedOne, Converted, Keeps
  <2>. QED  BY <2>1, <2>2 DEF Worlds
<1>6. CASE c.raised = "no"
  <2>1. PICK block : block = IF world = "fast" THEN "to_slow" ELSE "to_fast"
    OBVIOUS
  <2>2. block \in Blocks  BY <2>1 DEF Blocks
  <2>3. /\ objects' = c.objects
        /\ proxies' = [c.proxies EXCEPT ![p].block = block]
    BY <1>1, <1>3, <1>6, <2>1 DEF ForceState
  <2>4. p \in DOMAIN c.proxies  BY <1>2, <1>5
  <2>5. /\ IsState([objects |-> objects', proxies |-> proxies',
                    raised |-> "no"])
        /\ proxies'[p].block = block
        /\ proxies'[p].wrapped = c.proxies[p].wrapped
        /\ \A q \in DOMAIN c.proxies \ {p} : proxies'[q] = c.proxies[q]
    BY <1>4, <1>6, <2>2, <2>3, <2>4, BlockSet
  <2>6. World(c, p) = world  BY <1>4, <1>6 DEF ConvertedOne
  <2>7. block = "to_fast" => world = "slow"  BY <2>1 DEF Worlds
  <2>8. StaySlow
    BY <1>1, <1>2, <1>5, <2>3, <2>5, <2>6, <2>7 DEF StaySlow, World
  <2>. QED  BY <2>5, <2>8, NextBegins
<1>7. CASE c.raised # "no"
  <2>1. objects' = c.objects /\ proxies' = c.proxies
    BY <1>1, <1>3, <1>7 DEF ForceState
  <2>2. Moved(s, c)
    BY <1>4, <1>7, ConvertedMoves DEF ConvertedOne
  <2>3. PICK u : u = Raise(c, "no")  OBVIOUS
  <2>4. IsState(u)  BY <1>4, <2>3, RaiseMoves DEF Moved
  <2>5. u = [objects |-> c.objects, proxies |-> c.proxies, raised |-> "no"]
    BY <1>4, <2>3 DEF Raise, IsState, States
  <2>6. StaySlow
    BY <1>1, <1>2, <2>1, <2>2 DEF StaySlow, Moved, World
  <2>. QED  BY <2>1, <2>4, <2>5, <2>6, NextBegins
<1>. QED  BY <1>6, <1>7

\* A proxy is copied through pickle.
LEMMA PickleKeeps ==
    ASSUME IsState(Begin), NEW p \in DOMAIN proxies, Pickle(p)
    PROVE  IsState(Begin') /\ StaySlow
<1>1. PICK s : s = Begin  OBVIOUS
<1>2. /\ IsState(s) /\ s.raised = "no" /\ s.proxies = proxies
      /\ s.objects = objects /\ p \in DOMAIN s.proxies
  BY <1>1, BeginFields
<1>3. PICK logs : logs = Logs(s)  OBVIOUS
<1>4. /\ s \in States(logs) /\ Good(s)
      /\ objects \in Seq(Objects(logs)) /\ proxies \in Seq(Proxies)
      /\ Len(proxies) \in Nat /\ DOMAIN proxies = 1..Len(proxies)
      /\ Len(objects) \in Nat /\ DOMAIN objects = 1..Len(objects)
      /\ \A o \in DOMAIN objects : objects[o] \in Objects(logs)
      /\ proxies[p] \in Proxies
  BY <1>2, <1>3, StateFields DEF IsState
<1>5. PICK o : o = objects[proxies[p].wrapped]  OBVIOUS
<1>6. PICK x : x = [proxies[p] EXCEPT !.wrapped = Len(objects) + 1,
                                      !.block = "none"]
  OBVIOUS
<1>7. proxies[p].wrapped \in DOMAIN objects /\ proxies[p].parents = <<>>
      /\ o.looksAt = <<>> /\ DOMAIN proxies[p].ids = DOMAIN proxies[p].parents
  BY <1>2, <1>4, <1>5 DEF Pickle, Final, Good, ProxyGood
<1>8. o \in Objects(logs) /\ NewGood(objects, o)
  <2>1. o \in Objects(logs)  BY <1>4, <1>5, <1>7
  <2>2. o.mixed => o.world = "slow"
    BY <1>2, <1>4, <1>5, <1>7 DEF Good, ObjectsGood
  <2>. QED  BY <1>7, <2>1, <2>2 DEF NewGood
<1>9. objects' = Append(objects, o) /\ proxies' = Append(proxies, x)
  BY <1>5, <1>6 DEF Pickle
<1>10. /\ objects' \in Seq(Objects(logs))
       /\ DOMAIN objects' = 1..(Len(objects) + 1)
       /\ \A i \in DOMAIN objects : objects'[i] = objects[i]
       /\ objects'[Len(objects) + 1] = o
       /\ ObjectsGood(objects')
  BY <1>2, <1>4, <1>8, <1>9, AddObject DEF Good
<1>11. /\ x \in Proxies /\ x.wrapped = Len(objects) + 1 /\ x.parents = <<>>
       /\ DOMAIN x.ids = DOMAIN x.parents
  <2>1. Len(objects) + 1 \in Nat /\ "none" \in Blocks  BY <1>4 DEF Blocks
  <2>. QED  BY <1>4, <1>6, <1>7, <2>1 DEF Proxies
<1>12. /\ proxies' \in Seq(Proxies) /\ DOMAIN proxies' = 1..(Len(proxies) + 1)
       /\ \A q \in DOMAIN proxies : proxies'[q] = proxies[q]
       /\ proxies'[Len(proxies) + 1] = x
  BY <1>4, <1>9, <1>11
<1>13. PICK u : u = [objects |-> objects', proxies |-> proxies',
                     raised |-> "no"]
  OBVIOUS
<1>14. u \in States(logs) /\ u.objects = objects' /\ u.proxies = proxies'
  BY <1>10, <1>12, <1>13 DEF States
<1>15. Good(u)
  <2>1. DOMAIN objects \subseteq DOMAIN objects'  BY <1>4, <1>10
  <2>2. \A q \in DOMAIN proxies : ProxyGood(objects', q, proxies[q])
    BY <1>2, <1>4, <1>10, <2>1, ProxyStays DEF Good
  <2>3. ProxyGood(objects', Len(proxies) + 1, x)
    <3>1. Len(objects) + 1 \in DOMAIN objects'  BY <1>4, <1>10
    <3>2. Len(x.parents) = 0 /\ DOMAIN x.parents = {}  BY <1>11
    <3>. QED  BY <1>7, <1>10, <1>11, <3>1, <3>2 DEF ProxyGood
  <2>4. \A q \in DOMAIN proxies' : q \in DOMAIN proxies \/ q = Len(proxies) + 1
    BY <1>4, <1>12
  <2>5. \A q \in DOMAIN proxies' : ProxyGood(objects', q, proxies'[q])
    BY <1>12, <2>2, <2>3, <2>4
  <2>. QED  BY <1>10, <1>14, <2>5 DEF Good
<1>16. IsState(u)  BY <1>14, <1>15, OwnLogs DEF IsState
<1>17. StaySlow
  BY <1>1, <1>2, <1>4, <1>10, <1>12 DEF StaySlow, World, Good, ProxyGood
<1>. QED  BY <1>13, <1>16, <1>17, NextBegins

-----------------------------------------------------------------------------
(* The theorems for every program *)

\* The frames that were read.
LEMMA InitGood == Init => IInv
<1>. SUFFICES ASSUME Init PROVE IInv  OBVIOUS
<1>1. PICK n \in 1..InitialFrames :
        /\ objects = [f \in 1..n |-> Frame("fast", <<>>, FALSE)]
        /\ proxies = [f \in 1..n |->
                         [wrapped |-> f, block |-> "none", parents |-> <<>>,
                          ids |-> <<>>, onFast |-> TRUE]]
  BY DEF Init
<1>2. n \in Nat  BY FastSlowAssumption
<1>3. PICK o : o = [world |-> "fast", log |-> <<>>, mixed |-> FALSE,
                    looksAt |-> <<>>]
  OBVIOUS
<1>4. o \in Objects({<<>>})  BY <1>3 DEF Objects, Worlds
<1>5. objects = [f \in 1..n |-> o]  BY <1>1, <1>3 DEF Frame
<1>6. objects \in Seq(Objects({<<>>})) /\ DOMAIN objects = 1..n
  <2>1. objects \in [1..n -> Objects({<<>>})]  BY <1>4, <1>5
  <2>. QED  BY <1>2, <2>1, FunctionIsSequence
<1>7. \A f \in 1..n :
        /\ proxies[f] \in Proxies /\ proxies[f].wrapped = f
        /\ proxies[f].parents = <<>> /\ proxies[f].ids = <<>>
  <2>. SUFFICES ASSUME NEW f \in 1..n
                PROVE  /\ proxies[f] \in Proxies /\ proxies[f].wrapped = f
                       /\ proxies[f].parents = <<>> /\ proxies[f].ids = <<>>
    OBVIOUS
  <2>1. proxies[f] = [wrapped |-> f, block |-> "none", parents |-> <<>>,
                      ids |-> <<>>, onFast |-> TRUE]
    BY <1>1
  <2>. QED  BY <1>2, <2>1 DEF Proxies, Blocks
<1>8. proxies \in Seq(Proxies) /\ DOMAIN proxies = 1..n
  <2>1. proxies = [f \in 1..n |-> proxies[f]]  BY <1>1
  <2>2. proxies \in [1..n -> Proxies]  BY <1>7, <2>1
  <2>. QED  BY <1>2, <2>2, FunctionIsSequence
<1>9. PICK s : s = Begin  OBVIOUS
<1>10. /\ s.objects = objects /\ s.proxies = proxies
       /\ s = [objects |-> objects, proxies |-> proxies, raised |-> "no"]
  BY <1>9 DEF Begin
<1>11. s \in States({<<>>})  BY <1>6, <1>8, <1>10 DEF States
<1>12. Good(s)
  <2>1. ObjectsGood(objects)
    BY <1>3, <1>5, <1>6 DEF ObjectsGood
  <2>2. \A p \in DOMAIN proxies : ProxyGood(objects, p, proxies[p])
    <3>1. Len(<<>>) = 0 /\ DOMAIN <<>> = {}  OBVIOUS
    <3>. QED  BY <1>3, <1>5, <1>6, <1>7, <1>8, <3>1 DEF ProxyGood
  <2>. QED  BY <1>10, <2>1, <2>2 DEF Good
<1>13. IsState(s)  BY <1>11, <1>12, OwnLogs DEF IsState
<1>14. methodBlock \in [MethodShapes -> Blocks \cup {"unset"}]
  BY DEF Init
<1>15. calls \in 0..MaxCalls  BY FastSlowAssumption DEF Init
<1>. QED  BY <1>9, <1>13, <1>14, <1>15 DEF IInv

\* Every step counts a call.
LEMMA NextCounts ==
    ASSUME IInv, Next
    PROVE  calls' \in 0..MaxCalls
<1>a. \A shape, args, support :
        Call(shape, args, support) => calls' = calls + 1
  BY DEF Call
<1>b. /\ \A p, block : SetTransferBlockState(p, block) => calls' = calls + 1
      /\ \A p, world : ForceState(p, world) => calls' = calls + 1
      /\ \A p : Pickle(p) => calls' = calls + 1
  BY DEF SetTransferBlockState, ForceState, Pickle
<1>1. calls' = calls + 1 /\ calls < MaxCalls
  BY <1>a, <1>b DEF Next, Read, Write, Compute, Derive
<1>. QED  BY <1>1, FastSlowAssumption DEF IInv

\* Every step is one of the operations.
LEMMA NextKeeps ==
    ASSUME IInv, [Next]_vars
    PROVE  IInv' /\ [StaySlow]_vars
<1>1. CASE UNCHANGED vars
  <2>1. Begin' = Begin  BY <1>1 DEF vars, Begin
  <2>. QED  BY <1>1, <2>1 DEF vars, IInv
<1>2. CASE Next
  <2>0. calls' \in 0..MaxCalls  BY <1>2, NextCounts
  <2>1. /\ \A args \in Arguments : Passed(args)
        /\ \A p \in DOMAIN proxies : Passed(<<p>>)
    BY ArgumentsPassed DEF IInv
  <2>. SUFFICES /\ IsState(Begin') /\ StaySlow
                /\ methodBlock' \in [MethodShapes -> Blocks \cup {"unset"}]
    BY <2>0 DEF IInv
  <2>2. ASSUME NEW shape \in Shapes, NEW args, Passed(args), NEW support,
               Call(shape, args, support)
        PROVE  /\ IsState(Begin') /\ StaySlow
               /\ methodBlock' \in [MethodShapes -> Blocks \cup {"unset"}]
    BY <2>2, CallKeeps, CallKeepsMethodBlock DEF IInv
  <2>3. ASSUME NEW p \in DOMAIN proxies, NEW support, Read(<<p>>, support)
        PROVE  /\ IsState(Begin') /\ StaySlow
               /\ methodBlock' \in [MethodShapes -> Blocks \cup {"unset"}]
    <3>1. Call("read", <<p>>, support)  BY <2>3 DEF Read
    <3>. QED  BY <2>1, <2>2, <3>1 DEF Shapes
  <2>4. ASSUME NEW args \in Arguments, NEW support,
               \/ Write(args, support) \/ Compute(args, support)
               \/ Derive(args, support)
        PROVE  /\ IsState(Begin') /\ StaySlow
               /\ methodBlock' \in [MethodShapes -> Blocks \cup {"unset"}]
    <3>1. \E shape \in Shapes : Call(shape, args, support)
      BY <2>4 DEF Shapes, Write, Compute, Derive
    <3>. QED  BY <2>1, <2>2, <3>1
  <2>5. ASSUME NEW p \in DOMAIN proxies, NEW block \in UserBlocks,
               SetTransferBlockState(p, block)
        PROVE  /\ IsState(Begin') /\ StaySlow
               /\ methodBlock' \in [MethodShapes -> Blocks \cup {"unset"}]
    BY <2>5, SetTransferBlockStateKeeps, FastSlowAssumption
       DEF IInv, SetTransferBlockState, Untouched
  <2>6. ASSUME NEW p \in DOMAIN proxies, NEW world \in Worlds,
               ForceState(p, world)
        PROVE  /\ IsState(Begin') /\ StaySlow
               /\ methodBlock' \in [MethodShapes -> Blocks \cup {"unset"}]
    BY <2>6, ForceStateKeeps DEF IInv, ForceState, Untouched
  <2>7. ASSUME NEW p \in DOMAIN proxies, Pickle(p)
        PROVE  /\ IsState(Begin') /\ StaySlow
               /\ methodBlock' \in [MethodShapes -> Blocks \cup {"unset"}]
    BY <2>7, PickleKeeps DEF IInv, Pickle
  <2>. QED  BY <1>2, <2>3, <2>4, <2>5, <2>6, <2>7 DEF Next
<1>. QED  BY <1>1, <1>2

\* The invariant holds throughout, whatever the program does.
LEMMA Invariance == Spec => []IInv
<1>1. Init => IInv  BY InitGood
<1>2. IInv /\ [Next]_vars => IInv'  BY NextKeeps
<1>. QED  BY <1>1, <1>2, PTL DEF Spec

\* Every proxy wraps an object that exists, a final one a frame and an
\* intermediate one a view with one recorded identity for each of its parents,
\* which are older: no conversion, however deeply intermediates are nested,
\* and no attempt that fails half way leaves a proxy in between
\* (fast_slow_proxy.py:1104-1131).
THEOREM TypeCorrect == Spec => []TypeOK
<1>1. IInv => TypeOK
  <2>. SUFFICES ASSUME IInv PROVE TypeOK  OBVIOUS
  <2>1. PICK s : s = Begin  OBVIOUS
  <2>2. /\ s.objects = objects /\ s.proxies = proxies
        /\ s \in States(Logs(s)) /\ Good(s)
    BY <2>1, BeginFields DEF IInv, IsState
  <2>3. /\ \A o \in DOMAIN objects : objects[o] \in Objects(Logs(s))
        /\ \A p \in DOMAIN proxies : proxies[p] \in Proxies
    BY <2>2, StateFields
  <2>4. ASSUME NEW o \in DOMAIN objects
        PROVE  /\ objects[o].world \in Worlds
               /\ objects[o].mixed \in BOOLEAN
               /\ Range(objects[o].looksAt) \subseteq 1..(o - 1)
    <3>1. objects[o].world \in Worlds /\ objects[o].mixed \in BOOLEAN
      BY <2>3 DEF Objects
    <3>2. \A i \in DOMAIN objects[o].looksAt :
            objects[o].looksAt[i] \in 1..(o - 1)
      BY <2>2 DEF Good, ObjectsGood
    <3>. QED  BY <3>1, <3>2 DEF Range
  <2>5. ASSUME NEW p \in DOMAIN proxies
        PROVE  /\ proxies[p].wrapped \in DOMAIN objects
               /\ proxies[p].block \in Blocks
               /\ Final(proxies[p])
                     <=> objects[proxies[p].wrapped].looksAt = <<>>
               /\ Range(proxies[p].parents) \subseteq 1..(p - 1)
               /\ DOMAIN proxies[p].ids = DOMAIN proxies[p].parents
    <3>1. proxies[p].block \in Blocks  BY <2>3 DEF Proxies
    <3>2. ProxyGood(objects, p, proxies[p])  BY <2>2 DEF Good
    <3>. QED  BY <3>1, <3>2 DEF ProxyGood, Final, Range
  <2>. QED  BY <2>4, <2>5 DEF TypeOK, IInv
<1>. QED  BY <1>1, Invariance, PTL

\* An object of one library never refers to one of the other, for any nesting
\* of intermediates: an attempt that converted some of its arguments to fast
\* and then failed is followed by one that finds them all in slow, because a
\* conversion to slow never raises - the fast library holds no mixed data
\* (_transform_arg, fast_slow_proxy.py:1592-1787).
THEOREM WorldsApartCorrect == Spec => []WorldsApart
<1>1. IInv => WorldsApart
  <2>. SUFFICES ASSUME IInv PROVE WorldsApart  OBVIOUS
  <2>1. ObjectsGood(objects)  BY BeginFields DEF IInv, IsState, Good
  <2>. QED  BY <2>1 DEF WorldsApart, ObjectsGood, Range
<1>. QED  BY <1>1, Invariance, PTL

\* A proxy that was forced to the slow library stays there as long as the block
\* is not lifted, whatever calls use it or something derived from it: the
\* conversion of another proxy, a replay of its call and a failed attempt leave
\* it alone (force_state, fast_slow_proxy.py:893-906).
THEOREM ForcedCorrect == Spec => ForcedStaysSlow
<1>1. IInv /\ [Next]_vars => [StaySlow]_vars  BY NextKeeps
<1>. QED  BY <1>1, Invariance, PTL DEF Spec, ForcedStaysSlow, StaySlow

-----------------------------------------------------------------------------
(* Programs that do not chain intermediates, without the debugging mode *)

\* The parents of every intermediate are final.
Flat(s) ==
    \A p \in DOMAIN s.proxies : \A i \in DOMAIN s.proxies[p].parents :
        Final(s.proxies[s.proxies[p].parents[i]])

\* Every object has an id() of its own, for good: as if the identities that
\* intermediates record were never given again.
NeverReused == DOMAIN Reused = {}

\* The identities a proxy x has recorded are no newer than the objects it looks
\* at, and these no newer than the objects its parents wrap: an object is never
\* wrapped again.
ProxyInOrder(s, x) ==
    /\ DOMAIN s.objects[x.wrapped].looksAt = DOMAIN x.parents
    /\ \A i \in DOMAIN x.parents :
        /\ x.ids[i] <= s.objects[x.wrapped].looksAt[i]
        /\ s.objects[x.wrapped].looksAt[i] <= s.proxies[x.parents[i]].wrapped

\* No two final proxies share their data.
Distinct(s) ==
    \A p, q \in DOMAIN s.proxies :
        /\ Final(s.proxies[p]) /\ Final(s.proxies[q])
        /\ s.proxies[p].wrapped = s.proxies[q].wrapped
        => p = q

\* What conversions keep between them.
Tidy(s) ==
    /\ Flat(s)
    /\ \A p \in DOMAIN s.proxies : ProxyInOrder(s, s.proxies[p])
    /\ Distinct(s)

\* An intermediate looks at the objects that its parents wrap.
Fresh(s, p) ==
    Final(s.proxies[p])
    \/ s.objects[s.proxies[p].wrapped].looksAt = ParentObjects(s, p)

\* The data that a proxy wraps.
Data(s, p) == s.objects[s.proxies[p].wrapped].log

\* What plain pandas holds: for each proxy an object with the same data, or one
\* that looks at the same parents.
Matches(objs, s) ==
    /\ IsObjects(objs) /\ ObjectsGood(objs)
    /\ DOMAIN objs = DOMAIN s.proxies
    /\ \A p \in DOMAIN s.proxies :
        /\ objs[p].world = "slow"
        /\ objs[p].looksAt = s.proxies[p].parents
        /\ Final(s.proxies[p]) => objs[p].log = Data(s, p)

\* The invariant of these programs.
MatchInv == Tidy(Begin) /\ Matches(plain, Begin)

\* What a conversion to a world preserves: the data of the final proxies, and
\* in that world the objects they wrap and the intermediates that look at them.
Preserves(s, u, world) ==
    /\ Tidy(u)
    /\ \A p \in DOMAIN s.proxies :
        /\ Final(s.proxies[p]) => Data(u, p) = Data(s, p)
        /\ Final(s.proxies[p]) /\ World(s, p) = world
             => u.proxies[p].wrapped = s.proxies[p].wrapped
        /\ Fresh(s, p) /\ World(s, p) = world => Fresh(u, p)

\* What is known of a proxy.
LEMMA ProxyFacts ==
    ASSUME NEW logs, NEW s \in States(logs), Good(s),
           NEW p \in DOMAIN s.proxies
    PROVE  /\ s.proxies[p].wrapped \in DOMAIN s.objects
           /\ s.proxies[p].wrapped \in 1..Len(s.objects)
           /\ s.proxies[p].parents \in Seq(Nat)
           /\ s.objects[s.proxies[p].wrapped].looksAt \in Seq(Nat)
           /\ \A i \in DOMAIN s.proxies[p].parents :
                /\ s.proxies[p].parents[i] \in DOMAIN s.proxies
                /\ s.proxies[p].parents[i] # p
                /\ s.proxies[p].ids[i] \in Nat
                /\ s.proxies[s.proxies[p].parents[i]].wrapped \in Nat
           /\ ParentObjects(s, p) = [i \in DOMAIN s.proxies[p].parents |->
                                    s.proxies[s.proxies[p].parents[i]].wrapped]
<1>1. /\ DOMAIN s.proxies = 1..Len(s.proxies) /\ Len(s.proxies) \in Nat
      /\ DOMAIN s.objects = 1..Len(s.objects) /\ Len(s.objects) \in Nat
      /\ \A q \in DOMAIN s.proxies : s.proxies[q] \in Proxies
      /\ \A o \in DOMAIN s.objects : s.objects[o] \in Objects(logs)
  BY StateFields
<1>2. /\ s.proxies[p].wrapped \in DOMAIN s.objects
      /\ DOMAIN s.proxies[p].ids = DOMAIN s.proxies[p].parents
      /\ \A i \in DOMAIN s.proxies[p].parents :
            s.proxies[p].parents[i] \in 1..(p - 1)
  BY DEF Good, ProxyGood
<1>3. s.proxies[p].parents \in Seq(Nat) /\ s.proxies[p].ids \in Seq(Nat)
  BY <1>1 DEF Proxies
<1>4. s.objects[s.proxies[p].wrapped].looksAt \in Seq(Nat)
  BY <1>1, <1>2 DEF Objects
<1>5. \A i \in DOMAIN s.proxies[p].parents : s.proxies[p].ids[i] \in Nat
  BY <1>2, <1>3
<1>6. \A i \in DOMAIN s.proxies[p].parents :
         /\ s.proxies[p].parents[i] \in DOMAIN s.proxies
         /\ s.proxies[p].parents[i] # p
  BY <1>1, <1>2
<1>7. \A q \in DOMAIN s.proxies : s.proxies[q].wrapped \in Nat
  BY <1>1 DEF Proxies
<1>8. ParentObjects(s, p) = [i \in DOMAIN s.proxies[p].parents |->
                            s.proxies[s.proxies[p].parents[i]].wrapped]
  BY DEF ParentObjects, Wrapped
<1>. QED  BY <1>1, <1>2, <1>3, <1>4, <1>5, <1>6, <1>7, <1>8

\* A proxy wraps a new object: a copy in the other library, or a view of what
\* its parents wrap.
LEMMA RewrapPreserves ==
    ASSUME NEW logs, NEW s \in States(logs), Good(s), Tidy(s),
           NEW p \in DOMAIN s.proxies, NEW o \in Objects(logs),
           NewGood(s.objects, o),
           s.proxies[p].parents = <<>> <=> o.looksAt = <<>>,
           Final(s.proxies[p]) => o.log = Data(s, p) /\ World(s, p) # o.world,
           ~Final(s.proxies[p]) => o.looksAt = ParentObjects(s, p)
    PROVE  Preserves(s, Rewrap(s, p, o), o.world) /\ Fresh(Rewrap(s, p, o), p)
<1>1. PICK u : u = Rewrap(s, p, o)  OBVIOUS
<1>2. PICK n : n = Len(s.objects)  OBVIOUS
<1>3. /\ u \in States(logs) /\ u.objects = Append(s.objects, o)
      /\ DOMAIN u.proxies = DOMAIN s.proxies
      /\ Rewrapped(s.proxies[p], u.proxies[p], n + 1)
      /\ \A q \in DOMAIN s.proxies \ {p} : u.proxies[q] = s.proxies[q]
  BY <1>1, <1>2, RewrapFacts
<1>4. /\ n \in Nat /\ DOMAIN s.objects = 1..n
      /\ \A i \in DOMAIN s.objects : u.objects[i] = s.objects[i]
      /\ u.objects[n + 1] = o
  BY <1>2, <1>3, StateFields, AddObject DEF Good
<1>5. /\ u.proxies[p].wrapped = n + 1
      /\ u.proxies[p].parents = s.proxies[p].parents
      /\ u.proxies[p].ids = s.proxies[p].ids
  BY <1>3 DEF Rewrapped
<1>6. \A q \in DOMAIN s.proxies :
        /\ u.proxies[q].parents = s.proxies[q].parents
        /\ Final(u.proxies[q]) <=> Final(s.proxies[q])
        /\ s.proxies[q].wrapped \in 1..n
        /\ s.proxies[q].wrapped \in DOMAIN s.objects
  BY <1>2, <1>3, <1>5, ProxyFacts DEF Final
<1>7. Flat(u)
  <2>1. \A q \in DOMAIN s.proxies : \A i \in DOMAIN s.proxies[q].parents :
          s.proxies[q].parents[i] \in DOMAIN s.proxies
    BY ProxyFacts
  <2>2. \A q \in DOMAIN s.proxies : \A i \in DOMAIN s.proxies[q].parents :
          Final(s.proxies[s.proxies[q].parents[i]])
    BY DEF Tidy, Flat
  <2>. QED  BY <1>3, <1>6, <2>1, <2>2 DEF Flat
<1>8. ASSUME NEW q \in DOMAIN s.proxies PROVE ProxyInOrder(u, u.proxies[q])
  <2>1. PICK par : par = s.proxies[q].parents  OBVIOUS
  <2>2. \A i \in DOMAIN par : /\ par[i] \in DOMAIN s.proxies /\ par[i] # q
                              /\ s.proxies[q].ids[i] \in Nat
                              /\ s.proxies[par[i]].wrapped \in Nat
    BY <2>1, ProxyFacts
  <2>3. PICK old : old = s.objects[s.proxies[q].wrapped].looksAt  OBVIOUS
  <2>4. /\ DOMAIN old = DOMAIN par /\ old \in Seq(Nat)
        /\ \A i \in DOMAIN par : /\ s.proxies[q].ids[i] <= old[i]
                                 /\ old[i] <= s.proxies[par[i]].wrapped
    BY <2>1, <2>3, ProxyFacts DEF Tidy, ProxyInOrder
  <2>5. \A i \in DOMAIN par : old[i] \in Nat  BY <2>4
  <2>6. CASE q # p
    <3>1. u.proxies[q] = s.proxies[q]  BY <1>3, <2>6
    <3>2. u.objects[u.proxies[q].wrapped].looksAt = old
      BY <1>4, <1>6, <2>3, <3>1
    <3>3. ASSUME NEW i \in DOMAIN par
          PROVE  old[i] <= u.proxies[par[i]].wrapped
      <4>1. CASE par[i] # p  BY <1>3, <2>2, <2>4, <4>1
      <4>2. CASE par[i] = p
        <5>1. old[i] <= s.proxies[p].wrapped /\ s.proxies[p].wrapped \in 1..n
          BY <1>6, <2>4, <4>2
        <5>2. old[i] <= n + 1  BY <1>4, <2>5, <5>1
        <5>. QED  BY <1>5, <4>2, <5>2
      <4>. QED  BY <4>1, <4>2
    <3>. QED  BY <2>1, <2>4, <3>1, <3>2, <3>3 DEF ProxyInOrder
  <2>7. CASE q = p /\ Final(s.proxies[p])
    <3>1. par = <<>> /\ o.looksAt = <<>>  BY <2>1, <2>7 DEF Final
    <3>2. u.objects[u.proxies[q].wrapped].looksAt = <<>>
          /\ u.proxies[q].parents = <<>>
      BY <1>4, <1>5, <2>1, <2>7, <3>1
    <3>. QED  BY <3>2 DEF ProxyInOrder
  <2>8. CASE q = p /\ ~Final(s.proxies[p])
    <3>1. /\ u.objects[u.proxies[q].wrapped].looksAt = ParentObjects(s, q)
          /\ u.proxies[q].parents = par /\ u.proxies[q].ids = s.proxies[q].ids
      BY <1>4, <1>5, <2>1, <2>8
    <3>2. ParentObjects(s, q) = [i \in DOMAIN par |-> s.proxies[par[i]].wrapped]
      BY <2>1, ProxyFacts
    <3>3. \A i \in DOMAIN par :
            u.proxies[par[i]].wrapped = s.proxies[par[i]].wrapped
      BY <1>3, <2>2, <2>8
    <3>4. \A i \in DOMAIN par : s.proxies[q].ids[i] <= s.proxies[par[i]].wrapped
      BY <2>2, <2>4, <2>5
    <3>5. \A i \in DOMAIN par :
            s.proxies[par[i]].wrapped <= s.proxies[par[i]].wrapped
      BY <2>2
    <3>. QED  BY <3>1, <3>2, <3>3, <3>4, <3>5 DEF ProxyInOrder
  <2>. QED  BY <2>6, <2>7, <2>8
<1>9. Distinct(u)
  <2>. SUFFICES ASSUME NEW a \in DOMAIN s.proxies, NEW b \in DOMAIN s.proxies,
                       Final(s.proxies[a]), Final(s.proxies[b]),
                       u.proxies[a].wrapped = u.proxies[b].wrapped
                PROVE  a = b
    BY <1>3, <1>6 DEF Distinct
  <2>1. n + 1 \notin 1..n  BY <1>4
  <2>2. CASE a # p /\ b # p
    BY <1>3, <2>2 DEF Tidy, Distinct
  <2>3. CASE a = p /\ b # p  BY <1>3, <1>5, <1>6, <2>1, <2>3
  <2>4. CASE a # p /\ b = p  BY <1>3, <1>5, <1>6, <2>1, <2>4
  <2>. QED  BY <2>2, <2>3, <2>4
<1>10. Tidy(u)  BY <1>3, <1>7, <1>8, <1>9 DEF Tidy
<1>11. Fresh(u, p)
  <2>1. CASE Final(s.proxies[p])  BY <1>6, <2>1 DEF Fresh
  <2>2. CASE ~Final(s.proxies[p])
    <3>1. u.objects[u.proxies[p].wrapped].looksAt = ParentObjects(s, p)
      BY <1>4, <1>5, <2>2
    <3>2. \A i \in DOMAIN s.proxies[p].parents :
            u.proxies[s.proxies[p].parents[i]].wrapped
                = s.proxies[s.proxies[p].parents[i]].wrapped
      BY <1>3, ProxyFacts
    <3>3. ParentObjects(u, p) = ParentObjects(s, p)
      BY <1>5, <3>2 DEF ParentObjects, Wrapped
    <3>. QED  BY <3>1, <3>3 DEF Fresh
  <2>. QED  BY <2>1, <2>2
<1>12. ASSUME NEW q \in DOMAIN s.proxies
       PROVE  /\ Final(s.proxies[q]) => Data(u, q) = Data(s, q)
              /\ Final(s.proxies[q]) /\ World(s, q) = o.world
                   => u.proxies[q].wrapped = s.proxies[q].wrapped
              /\ Fresh(s, q) /\ World(s, q) = o.world => Fresh(u, q)
  <2>1. CASE q = p
    <3>1. Final(s.proxies[q]) => Data(u, q) = Data(s, q)
      BY <1>4, <1>5, <2>1 DEF Data
    <3>. QED  BY <1>11, <2>1, <3>1
  <2>2. CASE q # p
    <3>1. /\ u.proxies[q] = s.proxies[q]
          /\ u.objects[s.proxies[q].wrapped] = s.objects[s.proxies[q].wrapped]
      BY <1>3, <1>4, <1>6, <2>2
    <3>2. ASSUME Fresh(s, q), World(s, q) = o.world, ~Final(s.proxies[q])
          PROVE  Fresh(u, q)
      <4>1. PICK par : par = s.proxies[q].parents  OBVIOUS
      <4>2. PICK w : w = s.proxies[q].wrapped  OBVIOUS
      <4>3. /\ s.objects[w].looksAt = [i \in DOMAIN par |->
                                          s.proxies[par[i]].wrapped]
            /\ w \in DOMAIN s.objects
            /\ \A i \in DOMAIN par : par[i] \in DOMAIN s.proxies
        <5>1. s.objects[w].looksAt = ParentObjects(s, q)
          BY <3>2, <4>2 DEF Fresh
        <5>2. ParentObjects(s, q) = [i \in DOMAIN par |-> s.proxies[par[i]].wrapped]
          BY <4>1, ProxyFacts
        <5>3. /\ w \in DOMAIN s.objects
              /\ \A i \in DOMAIN par : par[i] \in DOMAIN s.proxies
          BY <4>1, <4>2, ProxyFacts
        <5>. QED  BY <5>1, <5>2, <5>3
      <4>4. ASSUME NEW i \in DOMAIN par PROVE par[i] # p
        <5>1. Final(s.proxies[par[i]])  BY <4>1 DEF Tidy, Flat
        <5>2. s.objects[s.objects[w].looksAt[i]].world = s.objects[w].world
          BY <4>3 DEF Good, ObjectsGood
        <5>3. World(s, par[i]) = o.world
          BY <3>2, <4>2, <4>3, <5>2 DEF World
        <5>. QED  BY <5>1, <5>3
      <4>5. \A i \in DOMAIN par :
              u.proxies[par[i]].wrapped = s.proxies[par[i]].wrapped
        BY <1>3, <4>3, <4>4
      <4>6. ParentObjects(u, q) = ParentObjects(s, q)
        BY <3>1, <4>1, <4>5 DEF ParentObjects, Wrapped
      <4>. QED  BY <3>1, <3>2, <4>6 DEF Fresh
    <3>3. Final(s.proxies[q]) => Fresh(u, q)  BY <3>1 DEF Fresh
    <3>. QED  BY <3>1, <3>2, <3>3 DEF Data
  <2>. QED  BY <2>1, <2>2
<1>. QED  BY <1>1, <1>10, <1>11, <1>12 DEF Preserves

\* An exception changes no object and no proxy.
LEMMA SameProxiesPreserve ==
    ASSUME NEW s, Tidy(s), NEW u, u.objects = s.objects,
           u.proxies = s.proxies, NEW world
    PROVE  Preserves(s, u, world)
<1>1. Tidy(u)  BY DEF Tidy, Flat, ProxyInOrder, Distinct
<1>2. \A p : Data(u, p) = Data(s, p) /\ (Fresh(s, p) => Fresh(u, p))
  BY DEF Data, Fresh, ParentObjects, Wrapped
<1>. QED  BY <1>1, <1>2 DEF Preserves

\* One conversion after the other.
LEMMA PreservedTwice ==
    ASSUME NEW s, NEW u, NEW v, NEW world, Keeps(s, u, world),
           Preserves(s, u, world), Preserves(u, v, world)
    PROVE  Preserves(s, v, world)
<1>1. /\ DOMAIN u.proxies = DOMAIN s.proxies
      /\ \A p \in DOMAIN s.proxies :
            /\ u.proxies[p].parents = s.proxies[p].parents
            /\ World(s, p) = world => World(u, p) = world
  BY DEF Keeps
<1>2. \A p \in DOMAIN s.proxies :
        Final(s.proxies[p]) => Final(u.proxies[p])
  BY <1>1 DEF Final
<1>. QED  BY <1>1, <1>2 DEF Preserves

\* The identities of the parents are noted when the view is new.
LEMMA RecordPreserves ==
    ASSUME NEW logs, NEW s \in States(logs), Good(s), Tidy(s),
           NEW p \in DOMAIN s.proxies, Fresh(s, p), ~Final(s.proxies[p]),
           NEW world
    PROVE  /\ Preserves(s, RecordParentIds(s, p), world)
           /\ Fresh(RecordParentIds(s, p), p)
<1>1. PICK ids : ids = ParentIds(s, p)  OBVIOUS
<1>2. PICK u : u = RecordParentIds(s, p)  OBVIOUS
<1>3. PICK x : x = [s.proxies[p] EXCEPT !.ids = ids]  OBVIOUS
<1>4. /\ s.proxies \in Seq(Proxies) /\ s.proxies[p] \in Proxies
      /\ p \in 1..Len(s.proxies) /\ Len(s.proxies) \in Nat
  BY StateFields
<1>5. /\ x.wrapped = s.proxies[p].wrapped /\ x.ids = ids
      /\ x.parents = s.proxies[p].parents
  BY <1>3, <1>4 DEF Proxies
<1>6. /\ u.objects = s.objects /\ u.proxies = [s.proxies EXCEPT ![p] = x]
  <2>1. s = [objects |-> s.objects, proxies |-> s.proxies,
             raised |-> s.raised]
    BY DEF States
  <2>2. u = [s EXCEPT !.proxies = [s.proxies EXCEPT ![p] = x]]
    BY <1>1, <1>2, <1>3 DEF RecordParentIds
  <2>. QED  BY <2>1, <2>2
<1>7. /\ DOMAIN u.proxies = DOMAIN s.proxies /\ u.proxies[p] = x
      /\ \A q \in DOMAIN s.proxies \ {p} : u.proxies[q] = s.proxies[q]
  BY <1>4, <1>6
<1>8. \A q \in DOMAIN s.proxies :
        /\ u.proxies[q].wrapped = s.proxies[q].wrapped
        /\ u.proxies[q].parents = s.proxies[q].parents
        /\ Final(u.proxies[q]) <=> Final(s.proxies[q])
  BY <1>5, <1>7 DEF Final
<1>9. \A q \in DOMAIN s.proxies : \A i \in DOMAIN s.proxies[q].parents :
        s.proxies[q].parents[i] \in DOMAIN s.proxies
  BY ProxyFacts
<1>10. Flat(u)
  <2>1. \A q \in DOMAIN s.proxies : \A i \in DOMAIN s.proxies[q].parents :
          Final(s.proxies[s.proxies[q].parents[i]])
    BY DEF Tidy, Flat
  <2>. QED  BY <1>7, <1>8, <1>9, <2>1 DEF Flat
<1>11. Distinct(u)
  BY <1>7, <1>8 DEF Tidy, Distinct
<1>12. ASSUME NEW q \in DOMAIN s.proxies PROVE ProxyInOrder(u, u.proxies[q])
  <2>1. PICK par : par = s.proxies[q].parents  OBVIOUS
  <2>2. PICK old : old = s.objects[s.proxies[q].wrapped].looksAt  OBVIOUS
  <2>3. /\ DOMAIN old = DOMAIN par
        /\ \A i \in DOMAIN par : /\ s.proxies[q].ids[i] <= old[i]
                                 /\ old[i] <= s.proxies[par[i]].wrapped
    BY <2>1, <2>2 DEF Tidy, ProxyInOrder
  <2>4. /\ u.objects[u.proxies[q].wrapped].looksAt = old
        /\ u.proxies[q].parents = par
        /\ \A i \in DOMAIN par :
              u.proxies[par[i]].wrapped = s.proxies[par[i]].wrapped
    BY <1>6, <1>8, <1>9, <2>1, <2>2
  <2>5. \A i \in DOMAIN par : u.proxies[q].ids[i] <= old[i]
    <3>1. CASE q # p  BY <1>7, <2>3, <3>1
    <3>2. CASE q = p
      <4>1. old = ParentObjects(s, p)  BY <2>2, <3>2 DEF Fresh
      <4>2. ids = [i \in DOMAIN par |-> Id(old[i])]
        BY <1>1, <2>1, <3>2, <4>1 DEF ParentIds
      <4>3. old \in Seq(Nat)  BY <2>2, ProxyFacts
      <4>4. \A i \in DOMAIN par : ids[i] <= old[i]
        BY <2>3, <4>2, <4>3, IdsOf
      <4>. QED  BY <1>5, <1>7, <3>2, <4>4
    <3>. QED  BY <3>1, <3>2
  <2>. QED  BY <2>3, <2>4, <2>5 DEF ProxyInOrder
<1>13. \A q \in DOMAIN s.proxies : ParentObjects(u, q) = ParentObjects(s, q)
  BY <1>8, <1>9 DEF ParentObjects, Wrapped
<1>14. \A q \in DOMAIN s.proxies :
         Data(u, q) = Data(s, q) /\ (Fresh(s, q) => Fresh(u, q))
  BY <1>6, <1>8, <1>13 DEF Data, Fresh
<1>15. Tidy(u)  BY <1>7, <1>10, <1>11, <1>12 DEF Tidy
<1>. QED  BY <1>2, <1>8, <1>14, <1>15 DEF Preserves

\* A final proxy gets a copy of its data.
LEMMA FinalPreserves ==
    ASSUME NEW logs, NEW s \in States(logs), Good(s), Tidy(s),
           s.raised = "no",
           NEW p \in DOMAIN s.proxies, Final(s.proxies[p]),
           NEW world \in Worlds
    PROVE  /\ Preserves(s, ConvertFinal(s, p, world), world)
           /\ Fresh(ConvertFinal(s, p, world), p)
<1>1. PICK o : o = s.objects[s.proxies[p].wrapped]  OBVIOUS
<1>2. /\ s.proxies[p].wrapped \in DOMAIN s.objects
      /\ s.proxies[p].parents = <<>> /\ o.looksAt = <<>>
  BY <1>1 DEF Good, ProxyGood, Final
<1>3. o \in Objects(logs) /\ (o.mixed => o.world = "slow")
  BY <1>1, <1>2, StateFields DEF Good, ObjectsGood
<1>4. PICK u : u = ConvertFinal(s, p, world)  OBVIOUS
<1>5. CASE o.world = world
  <2>1. u = s  BY <1>1, <1>4, <1>5 DEF ConvertFinal
  <2>. QED  BY <1>4, <2>1, SameProxiesPreserve DEF Fresh
<1>6. CASE o.world # world /\ o.mixed
  <2>1. u = Raise(s, "mixed")  BY <1>1, <1>4, <1>6 DEF ConvertFinal
  <2>2. u.objects = s.objects /\ u.proxies = s.proxies
    BY <2>1, RaiseFacts
  <2>. QED  BY <1>4, <2>2, SameProxiesPreserve DEF Fresh
<1>7. CASE o.world # world /\ ~o.mixed
  <2>1. PICK c : c = [o EXCEPT !.world = world]  OBVIOUS
  <2>2. u = Rewrap(s, p, c)
    BY <1>1, <1>4, <1>7, <2>1 DEF ConvertFinal
  <2>3. /\ c \in Objects(logs) /\ c.world = world /\ c.looksAt = <<>>
        /\ c.mixed = o.mixed /\ c.log = o.log
    BY <1>2, <1>3, <2>1 DEF Objects
  <2>4. NewGood(s.objects, c)  BY <1>7, <2>3 DEF NewGood
  <2>5. c.log = Data(s, p) /\ World(s, p) # c.world
    BY <1>1, <1>7, <2>3 DEF Data, World
  <2>6. Preserves(s, Rewrap(s, p, c), c.world) /\ Fresh(Rewrap(s, p, c), p)
    BY <1>2, <2>3, <2>4, <2>5, RewrapPreserves
  <2>. QED  BY <1>4, <2>2, <2>3, <2>6
<1>. QED  BY <1>5, <1>6, <1>7

\* An intermediate is derived again from its converted parents.
LEMMA ReplayPreserves ==
    ASSUME NEW logs, <<>> \in logs, NEW s \in States(logs), Good(s), Tidy(s),
           NEW p \in DOMAIN s.proxies, ~Final(s.proxies[p]),
           NEW world \in Worlds,
           s.raised = "no" => InWorld(s, s.proxies[p].parents, world)
    PROVE  /\ Preserves(s, Replay(s, p, world), world)
           /\ Replay(s, p, world).raised = "no"
                => Fresh(Replay(s, p, world), p)
<1>0. PICK u : u = Replay(s, p, world)  OBVIOUS
<1>1. CASE s.raised # "no"
  <2>1. u = s  BY <1>0, <1>1 DEF Replay
  <2>. QED  BY <1>0, <1>1, <2>1, SameProxiesPreserve
<1>2. CASE s.raised = "no" /\ world = "fast" /\ ~s.proxies[p].onFast
  <2>1. u = Raise(s, "other")  BY <1>0, <1>2 DEF Replay
  <2>2. u.objects = s.objects /\ u.proxies = s.proxies /\ u.raised # "no"
    BY <2>1, RaiseFacts
  <2>. QED  BY <1>0, <2>2, SameProxiesPreserve
<1>3. CASE s.raised = "no" /\ ~(world = "fast" /\ ~s.proxies[p].onFast)
  <2>1. PICK ids : ids = ParentObjects(s, p)  OBVIOUS
  <2>2. PICK o : o = [world |-> world, log |-> <<>>, mixed |-> FALSE,
                      looksAt |-> ids]
    OBVIOUS
  <2>3. u = Rewrap(s, p, o)
    BY <1>0, <1>3, <2>1, <2>2 DEF Replay, View
  <2>4. PICK par : par = s.proxies[p].parents  OBVIOUS
  <2>5. /\ par \in Seq(Nat) /\ par # <<>> /\ Len(par) \in Nat
        /\ DOMAIN par = 1..Len(par)
        /\ ids = [i \in DOMAIN par |-> s.proxies[par[i]].wrapped]
        /\ \A i \in DOMAIN par : /\ par[i] \in DOMAIN s.proxies
                                 /\ s.proxies[par[i]].wrapped \in Nat
    BY <2>1, <2>4, ProxyFacts DEF Final
  <2>6. ids \in Seq(Nat) /\ ids # <<>>
    <3>1. ids \in [1..Len(par) -> Nat]  BY <2>5
    <3>2. ids \in Seq(Nat) /\ Len(ids) = Len(par)
      BY <2>5, <3>1, FunctionIsSequence
    <3>. QED  BY <2>5, <3>2
  <2>7. o \in Objects(logs) /\ o.world = world /\ o.looksAt = ids
        /\ o.mixed = FALSE
    BY <2>2, <2>6 DEF Objects
  <2>8. NewGood(s.objects, o)
    <3>1. \A i \in DOMAIN par : /\ ids[i] \in 1..Len(s.objects)
                                /\ s.objects[ids[i]].world = world
      BY <1>3, <2>4, <2>5, ProxyFacts DEF InWorld, World
    <3>. QED  BY <2>5, <2>7, <3>1 DEF NewGood
  <2>9. s.proxies[p].parents = <<>> <=> o.looksAt = <<>>
    BY <2>4, <2>5, <2>6, <2>7
  <2>10. o.looksAt = ParentObjects(s, p)  BY <2>1, <2>7
  <2>11. Preserves(s, Rewrap(s, p, o), o.world) /\ Fresh(Rewrap(s, p, o), p)
    BY <2>7, <2>8, <2>9, <2>10, RewrapPreserves
  <2>. QED  BY <1>0, <2>3, <2>7, <2>11
<1>. QED  BY <1>1, <1>2, <1>3

\* The arguments are new enough.
AllFresh(s, args) == \A i \in DOMAIN args : Fresh(s, args[i])

\* before preserves the data, if n steps are enough for the arguments.
Faithful(before, logs, world, n) ==
    \A s \in States(logs), args \in Seq(Nat), m \in Nat :
        /\ Good(s) /\ Tidy(s) /\ m <= Len(s.proxies) /\ Among(args, m)
        /\ Len(args) + 2 * m <= n
        => /\ Preserves(s, before[<<s, args>>], world)
           /\ before[<<s, args>>].raised = "no"
                => AllFresh(before[<<s, args>>], args)

\* An intermediate whose recorded identities are those of its parents needs no
\* new view.
LEMMA UpToDate ==
    ASSUME NeverReused, NEW logs, NEW s \in States(logs), Good(s), Tidy(s),
           NEW p \in DOMAIN s.proxies, ~ParentsChanged(s, p)
    PROVE  Fresh(s, p)
<1>1. PICK par : par = s.proxies[p].parents  OBVIOUS
<1>2. PICK old : old = s.objects[s.proxies[p].wrapped].looksAt  OBVIOUS
<1>3. /\ old \in Seq(Nat)
      /\ ParentObjects(s, p) = [i \in DOMAIN par |-> s.proxies[par[i]].wrapped]
      /\ \A i \in DOMAIN par : s.proxies[par[i]].wrapped \in Nat
  BY <1>1, <1>2, ProxyFacts
<1>4. /\ DOMAIN old = DOMAIN par
      /\ \A i \in DOMAIN par : /\ s.proxies[p].ids[i] <= old[i]
                               /\ old[i] <= s.proxies[par[i]].wrapped
  BY <1>1, <1>2 DEF Tidy, ProxyInOrder
<1>5. s.proxies[p].ids = ParentObjects(s, p)
  <2>1. s.proxies[p].ids = [i \in DOMAIN par |-> Id(ParentObjects(s, p)[i])]
    BY <1>1 DEF ParentsChanged, ParentIds
  <2>2. \A o : Id(o) = o  BY DEF Id, NeverReused
  <2>3. s.proxies[p].ids = [i \in DOMAIN par |-> ParentObjects(s, p)[i]]
    BY <2>1, <2>2
  <2>. QED  BY <1>3, <2>3
<1>6. \A i \in DOMAIN par : s.proxies[p].ids[i] = s.proxies[par[i]].wrapped
  BY <1>3, <1>5
<1>7. \A i \in DOMAIN par : old[i] \in Nat  BY <1>3, <1>4
<1>8. \A i \in DOMAIN par : old[i] = s.proxies[par[i]].wrapped
  <2>. SUFFICES ASSUME NEW i \in DOMAIN par
                PROVE  old[i] = s.proxies[par[i]].wrapped
    OBVIOUS
  <2>1. PICK k : k = s.proxies[par[i]].wrapped  OBVIOUS
  <2>2. PICK o : o = old[i]  OBVIOUS
  <2>3. k \in Nat /\ o \in Nat  BY <1>3, <1>7, <2>1, <2>2
  <2>4. k <= o /\ o <= k  BY <1>4, <1>6, <2>1, <2>2
  <2>5. k = o  BY <2>3, <2>4
  <2>. QED  BY <2>1, <2>2, <2>5
<1>9. old = [i \in DOMAIN par |-> s.proxies[par[i]].wrapped]
  <2>1. old = [i \in DOMAIN old |-> old[i]]  BY <1>3
  <2>. QED  BY <1>4, <1>8, <2>1
<1>. QED  BY <1>2, <1>3, <1>9 DEF Fresh

\* An intermediate is derived again, unless it is up to date.
LEMMA IntermediatePreserves ==
    ASSUME NeverReused,
           NEW logs, <<>> \in logs, NEW s \in States(logs), Good(s), Tidy(s),
           s.raised = "no", NEW p \in DOMAIN s.proxies, ~Final(s.proxies[p]),
           NEW world \in Worlds, NEW before, NEW n \in Nat,
           Sound(before, logs, world, n), Faithful(before, logs, world, n),
           2 * p <= n
    PROVE  /\ Preserves(s, ConvertIntermediate(before, s, p, world), world)
           /\ ConvertIntermediate(before, s, p, world).raised = "no"
                => Fresh(ConvertIntermediate(before, s, p, world), p)
<1>0. PICK t : t = ConvertIntermediate(before, s, p, world)  OBVIOUS
<1>1. PICK par : par = s.proxies[p].parents  OBVIOUS
<1>2. PICK u : u = before[<<s, par>>]  OBVIOUS
<1>3. PICK v : v = Replay(u, p, world)  OBVIOUS
<1>4. /\ p \in 1..Len(s.proxies) /\ Len(s.proxies) \in Nat
      /\ par \in Seq(Nat) /\ Len(par) \in Nat /\ Len(par) <= 2
      /\ \A i \in DOMAIN par : par[i] \in 1..(p - 1)
  <2>1. p \in 1..Len(s.proxies) /\ Len(s.proxies) \in Nat  BY StateFields
  <2>2. par \in Seq(Nat)  BY <1>1, ProxyFacts
  <2>3. Len(par) <= 2 /\ \A i \in DOMAIN par : par[i] \in 1..(p - 1)
    BY <1>1 DEF Good, ProxyGood
  <2>. QED  BY <2>1, <2>2, <2>3
<1>5. /\ Among(par, p - 1) /\ p - 1 \in Nat /\ p - 1 <= Len(s.proxies)
      /\ Len(par) + 2 * (p - 1) <= n
  BY <1>4 DEF Among
<1>6. /\ Converted(logs, s, u, world, {})
      /\ u.raised = "no" => InWorld(u, par, world)
  BY <1>2, <1>4, <1>5 DEF Sound
<1>7. Preserves(s, u, world)
  BY <1>2, <1>4, <1>5 DEF Faithful
<1>8. /\ u \in States(logs) /\ Good(u) /\ Tidy(u) /\ p \in DOMAIN u.proxies
      /\ u.proxies[p].parents = par /\ ~Final(u.proxies[p])
      /\ world = "slow" => u.raised = "no"
      /\ Keeps(s, u, world)
  BY <1>1, <1>6, <1>7 DEF Converted, Keeps, Final, Preserves
<1>9. /\ Preserves(u, v, world)
      /\ v.raised = "no" => Fresh(v, p)
  BY <1>3, <1>6, <1>8, ReplayPreserves
<1>10. Preserves(s, v, world)  BY <1>7, <1>8, <1>9, PreservedTwice
<1>11. CASE t = v  BY <1>0, <1>9, <1>10, <1>11
<1>12. CASE t = s /\ ~ParentsChanged(s, p)
  BY <1>0, <1>12, UpToDate, SameProxiesPreserve
<1>13. CASE t = RecordParentIds(v, p) /\ v.raised = "no"
  <2>1. ConvertedOne(logs, u, v, p, world)
    BY <1>3, <1>6, <1>8, Replayed
  <2>2. /\ v \in States(logs) /\ Good(v) /\ p \in DOMAIN v.proxies
        /\ ~Final(v.proxies[p]) /\ Tidy(v)
        /\ Keeps(u, v, world)
    BY <1>8, <1>9, <2>1 DEF ConvertedOne, Converted, Keeps, Final, Preserves
  <2>3. Preserves(v, t, world) /\ Fresh(t, p)
    BY <1>9, <1>13, <2>2, RecordPreserves
  <2>4. Preserves(u, t, world)  BY <1>9, <2>2, <2>3, PreservedTwice
  <2>5. Preserves(s, t, world)  BY <1>7, <1>8, <2>4, PreservedTwice
  <2>. QED  BY <1>0, <2>3, <2>5
<1>14. \/ t = v
       \/ t = s /\ ~ParentsChanged(s, p)
       \/ t = RecordParentIds(v, p) /\ v.raised = "no"
  <2>1. CASE World(s, p) # world
    <3>1. t = v
      BY <1>0, <1>1, <1>2, <1>3, <2>1 DEF ConvertIntermediate
    <3>. QED  BY <3>1
  <2>2. CASE World(s, p) = world /\ ~ParentsChanged(s, p)
    <3>1. t = s  BY <1>0, <2>2 DEF ConvertIntermediate
    <3>. QED  BY <2>2, <3>1
  <2>3. CASE World(s, p) = world /\ ParentsChanged(s, p) /\ v.raised # "no"
    <3>1. t = v
      BY <1>0, <1>1, <1>2, <1>3, <2>3 DEF ConvertIntermediate
    <3>. QED  BY <3>1
  <2>4. CASE World(s, p) = world /\ ParentsChanged(s, p) /\ v.raised = "no"
    <3>1. t = RecordParentIds(v, p)
      BY <1>0, <1>1, <1>2, <1>3, <2>4 DEF ConvertIntermediate
    <3>. QED  BY <2>4, <3>1
  <2>. QED  BY <2>1, <2>2, <2>3, <2>4
<1>. QED  BY <1>11, <1>12, <1>13, <1>14

\* Either kind of proxy.
LEMMA OnePreserves ==
    ASSUME NeverReused,
           NEW logs, <<>> \in logs, NEW s \in States(logs), Good(s), Tidy(s),
           s.raised = "no", NEW p \in DOMAIN s.proxies,
           NEW world \in Worlds, NEW before, NEW n \in Nat,
           Sound(before, logs, world, n), Faithful(before, logs, world, n),
           2 * p <= n
    PROVE  /\ Preserves(s, ConvertOne(before, s, p, world), world)
           /\ ConvertOne(before, s, p, world).raised = "no"
                => Fresh(ConvertOne(before, s, p, world), p)
<1>1. CASE Final(s.proxies[p])
  <2>1. PICK u : u = ConvertFinal(s, p, world)  OBVIOUS
  <2>2. Preserves(s, u, world) /\ Fresh(u, p)
    BY <1>1, <2>1, FinalPreserves
  <2>3. ConvertOne(before, s, p, world) = u  BY <1>1, <2>1 DEF ConvertOne
  <2>. QED  BY <2>2, <2>3
<1>2. CASE ~Final(s.proxies[p])
  <2>1. PICK u : u = ConvertIntermediate(before, s, p, world)  OBVIOUS
  <2>2. Preserves(s, u, world) /\ (u.raised = "no" => Fresh(u, p))
    BY <1>2, <2>1, IntermediatePreserves
  <2>3. ConvertOne(before, s, p, world) = u  BY <1>2, <2>1 DEF ConvertOne
  <2>. QED  BY <2>2, <2>3
<1>. QED  BY <1>1, <1>2

\* The arguments in order.
LEMMA ArgsPreserve ==
    ASSUME NeverReused,
           NEW logs, <<>> \in logs, NEW s \in States(logs), Good(s), Tidy(s),
           NEW args \in Seq(Nat), NEW m \in Nat, m <= Len(s.proxies),
           Among(args, m), NEW world \in Worlds, NEW before, NEW n \in Nat,
           Sound(before, logs, world, n), Faithful(before, logs, world, n),
           Len(args) + 2 * m <= n + 1
    PROVE  /\ Preserves(s, TransformArgs(before, s, args, world), world)
           /\ TransformArgs(before, s, args, world).raised = "no"
                => AllFresh(TransformArgs(before, s, args, world), args)
<1>0. PICK t : t = TransformArgs(before, s, args, world)  OBVIOUS
<1>1. CASE args = <<>> \/ s.raised # "no"
  <2>1. t = s  BY <1>0, <1>1 DEF TransformArgs
  <2>2. args = <<>> => AllFresh(s, args)  BY DEF AllFresh
  <2>. QED  BY <1>0, <1>1, <2>1, <2>2, SameProxiesPreserve
<1>2. CASE args # <<>> /\ s.raised = "no" /\ Blocked(s, args[1], world)
  <2>1. t = Raise(s, "other")  BY <1>0, <1>2 DEF TransformArgs
  <2>2. t.objects = s.objects /\ t.proxies = s.proxies /\ t.raised # "no"
    BY <2>1, RaiseFacts
  <2>. QED  BY <1>0, <2>2, SameProxiesPreserve
<1>3. CASE args # <<>> /\ s.raised = "no" /\ ~Blocked(s, args[1], world)
  <2>1. PICK p : p = args[1]  OBVIOUS
  <2>2. PICK rest : rest = Tail(args)  OBVIOUS
  <2>3. PICK u : u = ConvertOne(before, s, p, world)  OBVIOUS
  <2>4. t = before[<<u, rest>>]
    BY <1>0, <1>3, <2>1, <2>2, <2>3 DEF TransformArgs
  <2>5. /\ p \in 1..m /\ rest \in Seq(Nat) /\ Len(rest) = Len(args) - 1
        /\ Len(args) \in Nat
        /\ \A i \in DOMAIN rest : /\ i + 1 \in DOMAIN args
                                  /\ rest[i] = args[i + 1]
        /\ \A i \in DOMAIN args : i # 1 => /\ i - 1 \in DOMAIN rest
                                           /\ args[i] = rest[i - 1]
    <3>1. 1 \in DOMAIN args  BY <1>3
    <3>2. p \in 1..m  BY <2>1, <3>1 DEF Among
    <3>3. /\ rest \in Seq(Nat) /\ Len(rest) = Len(args) - 1
          /\ Len(args) \in Nat /\ DOMAIN args = 1..Len(args)
          /\ DOMAIN rest = 1..Len(rest)
          /\ \A i \in DOMAIN rest : /\ i + 1 \in DOMAIN args
                                    /\ rest[i] = args[i + 1]
          /\ \A i \in DOMAIN args : i # 1 => /\ i - 1 \in DOMAIN rest
                                             /\ args[i] = rest[i - 1]
      <4>1. args \in Seq(Nat) /\ args # <<>>  BY <1>3
      <4>. QED  BY <2>2, <4>1, TailFacts
    <3>. QED  BY <3>2, <3>3
  <2>6. Among(rest, m)  BY <2>5 DEF Among
  <2>7. /\ p \in DOMAIN s.proxies /\ Len(s.proxies) \in Nat
        /\ DOMAIN s.proxies = 1..Len(s.proxies)
    BY <2>5, StateFields
  <2>8. 2 * p <= n /\ Len(rest) + 2 * m <= n  BY <2>5
  <2>9. /\ ConvertedOne(logs, s, u, p, world)
    BY <1>3, <2>3, <2>7, <2>8, OneConverted
  <2>10. Preserves(s, u, world) /\ (u.raised = "no" => Fresh(u, p))
    BY <1>3, <2>3, <2>7, <2>8, OnePreserves
  <2>11. /\ u \in States(logs) /\ Good(u) /\ Tidy(u) /\ Keeps(s, u, world)
         /\ Len(u.proxies) = Len(s.proxies)
    <3>1. /\ u \in States(logs) /\ Good(u) /\ Tidy(u) /\ Keeps(s, u, world)
          /\ DOMAIN u.proxies = DOMAIN s.proxies
      BY <2>9, <2>10 DEF ConvertedOne, Converted, Keeps, Preserves
    <3>2. DOMAIN u.proxies = 1..Len(u.proxies) /\ Len(u.proxies) \in Nat
      BY <3>1, StateFields
    <3>. QED  BY <2>7, <3>1, <3>2
  <2>12. /\ Converted(logs, u, t, world, {})
         /\ t.raised = "no" => u.raised = "no" /\ InWorld(t, rest, world)
    BY <2>4, <2>5, <2>6, <2>8, <2>11 DEF Sound
  <2>13. Preserves(u, t, world) /\ (t.raised = "no" => AllFresh(t, rest))
    BY <2>4, <2>5, <2>6, <2>8, <2>11 DEF Faithful
  <2>14. Preserves(s, t, world)
    BY <2>10, <2>11, <2>13, PreservedTwice
  <2>15. ASSUME t.raised = "no" PROVE AllFresh(t, args)
    <3>1. World(u, p) = world /\ Fresh(u, p) /\ p \in DOMAIN u.proxies
      BY <2>7, <2>9, <2>10, <2>11, <2>12, <2>15 DEF ConvertedOne, Keeps
    <3>2. Fresh(t, p)  BY <2>13, <3>1 DEF Preserves
    <3>. QED  BY <2>1, <2>5, <2>13, <2>15, <3>2 DEF AllFresh
  <2>. QED  BY <1>0, <2>14, <2>15
<1>. QED  BY <1>1, <1>2, <1>3

\* The conversion is faithful.
LEMMA ConversionFaithful ==
    ASSUME NeverReused,
           NEW st, NEW world \in Worlds, NEW k \in Nat
    PROVE  Faithful(Conversion(st, world, k), Logs(st), world, k)
<1>1. PICK D : D = States(Logs(st)) \X Seq(Nat)  OBVIOUS
<1>2. PICK f : f = CHOOSE g : Converts(g, k, D, world)  OBVIOUS
<1>3. Converts(f, k, D, world)
  BY <1>2, ConversionExists
<1>4. Conversion(st, world, k) = f[k]
  BY <1>1, <1>2 DEF Conversion, Converts
<1>5. PICK logs : logs = Logs(st)  OBVIOUS
<1>6. <<>> \in logs  BY <1>5 DEF Logs
<1>. DEFINE S == {n \in Nat : n <= k => /\ Sound(f[n], logs, world, n)
                                        /\ Faithful(f[n], logs, world, n)}
<1>7. 0 \in S
  <2>1. f[0] = [x \in D |-> x[1]]
    BY <1>3 DEF Converts
  <2>2. ASSUME NEW s \in States(logs), NEW args \in Seq(Nat), NEW m \in Nat,
               Good(s), Len(args) + 2 * m <= 0
        PROVE  /\ Converted(logs, s, f[0][<<s, args>>], world, {})
               /\ f[0][<<s, args>>].raised = "no"
                    => /\ s.raised = "no"
                       /\ InWorld(f[0][<<s, args>>], args, world)
               /\ Tidy(s) => /\ Preserves(s, f[0][<<s, args>>], world)
                             /\ AllFresh(f[0][<<s, args>>], args)
    <3>1. f[0][<<s, args>>] = s  BY <1>1, <1>5, <2>1
    <3>2. Len(args) = 0 /\ DOMAIN args = {}  BY <2>2
    <3>3. Converted(logs, s, s, world, {})  BY <2>2, NothingConverted
    <3>4. InWorld(s, args, world) /\ AllFresh(s, args)
      BY <3>2 DEF InWorld, AllFresh
    <3>5. Tidy(s) => Preserves(s, s, world)  BY SameProxiesPreserve
    <3>. QED  BY <3>1, <3>3, <3>4, <3>5
  <2>3. Sound(f[0], logs, world, 0)  BY <2>2 DEF Sound
  <2>4. Faithful(f[0], logs, world, 0)  BY <2>2 DEF Faithful
  <2>. QED  BY <2>3, <2>4
<1>8. ASSUME NEW n \in S PROVE n + 1 \in S
  <2>0. n \in Nat  OBVIOUS
  <2>. SUFFICES ASSUME n + 1 <= k
                PROVE  /\ Sound(f[n + 1], logs, world, n + 1)
                       /\ Faithful(f[n + 1], logs, world, n + 1)
    OBVIOUS
  <2>1. Sound(f[n], logs, world, n) /\ Faithful(f[n], logs, world, n)
    BY <2>0
  <2>2. f[n + 1] = [x \in D |-> TransformArgs(f[n], x[1], x[2], world)]
    <3>1. n + 1 \in 0..k /\ n + 1 # 0 /\ (n + 1) - 1 = n  BY <2>0
    <3>. QED  BY <1>3, <3>1 DEF Converts
  <2>3. ASSUME NEW s \in States(logs), NEW args \in Seq(Nat), NEW m \in Nat,
               Good(s), m <= Len(s.proxies), Among(args, m),
               Len(args) + 2 * m <= n + 1
        PROVE  /\ Converted(logs, s, f[n + 1][<<s, args>>], world, {})
               /\ f[n + 1][<<s, args>>].raised = "no"
                    => /\ s.raised = "no"
                       /\ InWorld(f[n + 1][<<s, args>>], args, world)
    <3>1. f[n + 1][<<s, args>>] = TransformArgs(f[n], s, args, world)
      BY <1>1, <1>5, <2>2
    <3>. QED  BY <1>6, <2>0, <2>1, <2>3, <3>1, ArgsTransformed
  <2>4. ASSUME NEW s \in States(logs), NEW args \in Seq(Nat), NEW m \in Nat,
               Good(s), Tidy(s), m <= Len(s.proxies), Among(args, m),
               Len(args) + 2 * m <= n + 1
        PROVE  /\ Preserves(s, f[n + 1][<<s, args>>], world)
               /\ f[n + 1][<<s, args>>].raised = "no"
                    => AllFresh(f[n + 1][<<s, args>>], args)
    <3>1. f[n + 1][<<s, args>>] = TransformArgs(f[n], s, args, world)
      BY <1>1, <1>5, <2>2
    <3>. QED  BY <1>6, <2>0, <2>1, <2>4, <3>1, ArgsPreserve
  <2>5. Sound(f[n + 1], logs, world, n + 1)  BY <2>3 DEF Sound
  <2>6. Faithful(f[n + 1], logs, world, n + 1)  BY <2>4 DEF Faithful
  <2>. QED  BY <2>5, <2>6
<1>9. S \in SUBSET Nat  OBVIOUS
<1>. HIDE DEF S
<1>10. S = Nat
  BY <1>7, <1>8, <1>9, Induction
<1>11. Faithful(f[k], logs, world, k)
  BY <1>10 DEF S
<1>. QED  BY <1>4, <1>5, <1>11

\* All the arguments are converted.
LEMMA AllPreserved ==
    ASSUME NeverReused,
           NEW s, IsState(s), Tidy(s), NEW world \in Worlds,
           NEW args, Among(args, Len(s.proxies))
    PROVE  /\ Preserves(s, ConvertAll(s, args, world), world)
           /\ ConvertAll(s, args, world).raised = "no"
                => AllFresh(ConvertAll(s, args, world), args)
<1>1. PICK k : k = Enough(s) + Len(args)  OBVIOUS
<1>2. args \in Seq(Nat) /\ Len(args) \in Nat /\ Len(s.proxies) \in Nat
  BY StateFields DEF Among, IsState
<1>3. k \in Nat /\ Len(args) + 2 * Len(s.proxies) <= k
  BY <1>1, <1>2 DEF Enough
<1>4. PICK before : before = Conversion(s, world, k)  OBVIOUS
<1>5. PICK logs : logs = Logs(s)  OBVIOUS
<1>6. Faithful(before, logs, world, k)
  BY <1>3, <1>4, <1>5, ConversionFaithful
<1>7. s \in States(logs) /\ Good(s)  BY <1>5 DEF IsState
<1>8. PICK m : m = Len(s.proxies)  OBVIOUS
<1>9. /\ m \in Nat /\ m <= Len(s.proxies) /\ Among(args, m)
      /\ Len(args) + 2 * m <= k
  BY <1>2, <1>3, <1>8
<1>10. /\ Preserves(s, before[<<s, args>>], world)
       /\ before[<<s, args>>].raised = "no"
            => AllFresh(before[<<s, args>>], args)
  BY <1>2, <1>6, <1>7, <1>9 DEF Faithful
<1>11. ConvertAll(s, args, world) = before[<<s, args>>]
  BY <1>1, <1>4 DEF ConvertAll
<1>. QED  BY <1>10, <1>11

\* One proxy is converted.
LEMMA OneProxyPreserved ==
    ASSUME NeverReused,
           NEW s, IsState(s), Tidy(s), s.raised = "no", NEW world \in Worlds,
           NEW p \in DOMAIN s.proxies
    PROVE  Preserves(s, Convert(s, p, world), world)
<1>1. PICK k : k = Enough(s)  OBVIOUS
<1>2. Len(s.proxies) \in Nat /\ p \in 1..Len(s.proxies)
  BY StateFields DEF IsState
<1>3. k \in Nat /\ 2 * p <= k
  BY <1>1, <1>2 DEF Enough
<1>4. PICK before : before = Conversion(s, world, k)  OBVIOUS
<1>5. PICK logs : logs = Logs(s)  OBVIOUS
<1>6. Sound(before, logs, world, k) /\ Faithful(before, logs, world, k)
  BY <1>3, <1>4, <1>5, ConversionSound, ConversionFaithful
<1>7. <<>> \in logs /\ s \in States(logs) /\ Good(s)
  BY <1>5 DEF Logs, IsState
<1>8. Convert(s, p, world) = ConvertOne(before, s, p, world)
  BY <1>1, <1>4 DEF Convert
<1>9. Preserves(s, ConvertOne(before, s, p, world), world)
  BY <1>2, <1>3, <1>6, <1>7, OnePreserves
<1>. QED  BY <1>8, <1>9

\* f gives what every object reads.
Readings(f, n, objs) ==
    f = [b \in 1..n |->
            IF objs[b].looksAt = <<>> THEN objs[b].log
            ELSE <<[call |-> 0, from |-> [i \in DOMAIN objs[b].looksAt |->
                                            f[objs[b].looksAt[i]]]]>>]

\* There is such a function.
LEMMA ReadingsExist ==
    ASSUME NEW objs, ObjectsGood(objs), IsObjects(objs)
    PROVE  \E f : Readings(f, Len(objs), objs)
<1>0. PICK logs : objs \in Seq(Objects(logs))  BY DEF IsObjects
<1>1. Len(objs) \in Nat /\ DOMAIN objs = 1..Len(objs)
  BY <1>0
<1>2. \A b \in DOMAIN objs : \A i \in DOMAIN objs[b].looksAt :
        objs[b].looksAt[i] \in 1..(b - 1)
  BY DEF ObjectsGood
<1>. DEFINE S == {n \in Nat : n <= Len(objs) => \E f : Readings(f, n, objs)}
<1>3. 0 \in S
  <2>1. PICK f : f = [b \in 1..0 |-> b]  OBVIOUS
  <2>2. Readings(f, 0, objs)  BY <2>1 DEF Readings
  <2>. QED  BY <2>2
<1>4. ASSUME NEW n \in S PROVE n + 1 \in S
  <2>0. n \in Nat  OBVIOUS
  <2>. SUFFICES ASSUME n + 1 <= Len(objs)
                PROVE  \E f : Readings(f, n + 1, objs)
    OBVIOUS
  <2>1. PICK f : Readings(f, n, objs)  BY <1>1, <2>0
  <2>2. PICK g : g = [b \in 1..(n + 1) |->
                        IF b <= n THEN f[b]
                        ELSE IF objs[b].looksAt = <<>> THEN objs[b].log
                        ELSE <<[call |-> 0,
                                from |-> [i \in DOMAIN objs[b].looksAt |->
                                            f[objs[b].looksAt[i]]]]>>]
    OBVIOUS
  <2>3. \A b \in 1..n : g[b] = f[b]  BY <2>0, <2>2
  <2>4. ASSUME NEW b \in 1..(n + 1)
        PROVE  g[b] = IF objs[b].looksAt = <<>> THEN objs[b].log
                      ELSE <<[call |-> 0,
                              from |-> [i \in DOMAIN objs[b].looksAt |->
                                            g[objs[b].looksAt[i]]]]>>
    <3>1. \A i \in DOMAIN objs[b].looksAt : objs[b].looksAt[i] \in 1..n
      <4>1. b \in DOMAIN objs  BY <1>1, <2>0
      <4>2. \A c \in 1..(b - 1) : c \in 1..n  BY <2>0
      <4>. QED  BY <1>2, <4>1, <4>2
    <3>2. [i \in DOMAIN objs[b].looksAt |-> g[objs[b].looksAt[i]]]
            = [i \in DOMAIN objs[b].looksAt |-> f[objs[b].looksAt[i]]]
      BY <2>3, <3>1
    <3>3. g[b] = IF objs[b].looksAt = <<>> THEN objs[b].log
                 ELSE <<[call |-> 0,
                         from |-> [i \in DOMAIN objs[b].looksAt |->
                                       f[objs[b].looksAt[i]]]]>>
      <4>1. CASE b \in 1..n
        BY <2>1, <2>3, <4>1 DEF Readings
      <4>2. CASE b = n + 1
        BY <2>0, <2>2, <4>2
      <4>. QED  BY <2>0, <4>1, <4>2
    <3>. QED  BY <3>2, <3>3
  <2>5. g = [b \in 1..(n + 1) |-> g[b]]  BY <2>2
  <2>6. Readings(g, n + 1, objs)
    BY <2>4, <2>5 DEF Readings
  <2>. QED  BY <2>6
<1>5. S \in SUBSET Nat  OBVIOUS
<1>. HIDE DEF S
<1>6. S = Nat  BY <1>3, <1>4, <1>5, Induction
<1>. QED  BY <1>1, <1>6 DEF S

\* What a frame and a view read.
LEMMA ContentsFacts ==
    ASSUME NEW objs, ObjectsGood(objs), IsObjects(objs), NEW o \in DOMAIN objs
    PROVE  Contents(objs, o) =
             IF objs[o].looksAt = <<>> THEN objs[o].log
             ELSE <<[call |-> 0,
                     from |-> [i \in DOMAIN objs[o].looksAt |->
                                  Contents(objs, objs[o].looksAt[i])]]>>
<1>0. PICK logs : objs \in Seq(Objects(logs))  BY DEF IsObjects
<1>1. Len(objs) \in Nat /\ DOMAIN objs = 1..Len(objs)
  BY <1>0
<1>2. PICK f : f = CHOOSE g : Readings(g, Len(objs), objs)  OBVIOUS
<1>3. Readings(f, Len(objs), objs)  BY <1>2, ReadingsExist
<1>4. \A b : Contents(objs, b) = f[b]
  BY <1>1, <1>2 DEF Contents, Readings
<1>5. f[o] = IF objs[o].looksAt = <<>> THEN objs[o].log
             ELSE <<[call |-> 0,
                     from |-> [i \in DOMAIN objs[o].looksAt |->
                                  f[objs[o].looksAt[i]]]]>>
  BY <1>1, <1>3 DEF Readings
<1>6. [i \in DOMAIN objs[o].looksAt |-> Contents(objs, objs[o].looksAt[i])]
        = [i \in DOMAIN objs[o].looksAt |-> f[objs[o].looksAt[i]]]
  BY <1>4
<1>7. Contents(objs, o) = f[o]  BY <1>4
<1>. QED  BY <1>5, <1>6, <1>7

\* Where a write to a frame, or to a view of frames, goes.
LEMMA TargetStep ==
    ASSUME NEW objs, ObjectsGood(objs), IsObjects(objs), NEW o \in DOMAIN objs
    PROVE  Target(objs, o) = IF objs[o].looksAt = <<>> THEN o
                             ELSE Target(objs, objs[o].looksAt[1])
<1>0. PICK logs : objs \in Seq(Objects(logs))  BY DEF IsObjects
<1>1. Len(objs) \in Nat /\ DOMAIN objs = 1..Len(objs)
  BY <1>0
<1>2. PICK f : f = CHOOSE g : Targets(g, Len(objs), objs)  OBVIOUS
<1>3. Targets(f, Len(objs), objs)  BY <1>2, TargetsExist
<1>4. \A b : Target(objs, b) = f[b]
  BY <1>1, <1>2 DEF Target, Targets
<1>5. f[o] = IF objs[o].looksAt = <<>> THEN o ELSE f[objs[o].looksAt[1]]
  BY <1>1, <1>3 DEF Targets
<1>. QED  BY <1>4, <1>5

\* The data agrees when the proxies are in the middle of a call.
Held(objs, s) == IsState(s) /\ Tidy(s) /\ Matches(objs, s)

\* What is known of a proxy and what plain pandas holds for it.
LEMMA HeldFacts ==
    ASSUME NEW objs, NEW s, Held(objs, s), NEW p \in DOMAIN s.proxies
    PROVE  /\ p \in DOMAIN objs
           /\ s.proxies[p].wrapped \in DOMAIN s.objects
           /\ IsObjects(s.objects) /\ ObjectsGood(s.objects)
           /\ IsObjects(objs) /\ ObjectsGood(objs)
           /\ objs[p].looksAt = s.proxies[p].parents
           /\ s.proxies[p].parents = <<>>
                <=> s.objects[s.proxies[p].wrapped].looksAt = <<>>
           /\ s.proxies[p].parents = <<>>
                => objs[p].log = s.objects[s.proxies[p].wrapped].log
           /\ \A i \in DOMAIN s.proxies[p].parents :
                /\ s.proxies[p].parents[i] \in DOMAIN s.proxies
                /\ s.proxies[s.proxies[p].parents[i]].parents = <<>>
<1>1. s \in States(Logs(s)) /\ Good(s)  BY DEF Held, IsState
<1>2. /\ s.proxies[p].wrapped \in DOMAIN s.objects
      /\ \A i \in DOMAIN s.proxies[p].parents :
            s.proxies[p].parents[i] \in DOMAIN s.proxies
  BY <1>1, ProxyFacts
<1>3. IsObjects(s.objects) /\ ObjectsGood(s.objects)
  BY <1>1, StateFields DEF Good, IsObjects
<1>4. /\ s.proxies[p].parents = <<>>
           <=> s.objects[s.proxies[p].wrapped].looksAt = <<>>
  BY <1>1 DEF Good, ProxyGood
<1>5. /\ p \in DOMAIN objs /\ IsObjects(objs) /\ ObjectsGood(objs)
      /\ objs[p].looksAt = s.proxies[p].parents
      /\ s.proxies[p].parents = <<>>
            => objs[p].log = s.objects[s.proxies[p].wrapped].log
  BY DEF Held, Matches, Final, Data
<1>6. \A i \in DOMAIN s.proxies[p].parents :
        s.proxies[s.proxies[p].parents[i]].parents = <<>>
  BY DEF Held, Tidy, Flat, Final
<1>. QED  BY <1>2, <1>3, <1>4, <1>5, <1>6

\* A proxy that is new enough reads what plain pandas reads.
LEMMA SameContents ==
    ASSUME NEW objs, NEW s, Held(objs, s), NEW p \in DOMAIN s.proxies,
           Fresh(s, p)
    PROVE  Contents(s.objects, s.proxies[p].wrapped) = Contents(objs, p)
<1>1. ASSUME NEW q \in DOMAIN s.proxies, s.proxies[q].parents = <<>>
      PROVE  Contents(s.objects, s.proxies[q].wrapped) = Contents(objs, q)
  <2>1. /\ q \in DOMAIN objs /\ s.proxies[q].wrapped \in DOMAIN s.objects
        /\ objs[q].looksAt = <<>>
        /\ s.objects[s.proxies[q].wrapped].looksAt = <<>>
        /\ objs[q].log = s.objects[s.proxies[q].wrapped].log
        /\ IsObjects(s.objects) /\ ObjectsGood(s.objects)
        /\ IsObjects(objs) /\ ObjectsGood(objs)
    BY <1>1, HeldFacts
  <2>2. Contents(objs, q) = objs[q].log  BY <2>1, ContentsFacts
  <2>3. Contents(s.objects, s.proxies[q].wrapped)
          = s.objects[s.proxies[q].wrapped].log
    BY <2>1, ContentsFacts
  <2>. QED  BY <2>1, <2>2, <2>3
<1>2. CASE s.proxies[p].parents # <<>>
  <2>1. PICK par : par = s.proxies[p].parents  OBVIOUS
  <2>2. PICK w : w = s.proxies[p].wrapped  OBVIOUS
  <2>3. /\ p \in DOMAIN objs /\ w \in DOMAIN s.objects
        /\ objs[p].looksAt = par /\ par # <<>>
        /\ s.objects[w].looksAt # <<>>
        /\ IsObjects(s.objects) /\ ObjectsGood(s.objects)
        /\ IsObjects(objs) /\ ObjectsGood(objs)
        /\ \A i \in DOMAIN par : /\ par[i] \in DOMAIN s.proxies
                                 /\ s.proxies[par[i]].parents = <<>>
    BY <1>2, <2>1, <2>2, HeldFacts
  <2>4. s.objects[w].looksAt = [i \in DOMAIN par |-> s.proxies[par[i]].wrapped]
    BY <1>2, <2>1, <2>2 DEF Fresh, Final, ParentObjects, Wrapped
  <2>5. PICK look : look = s.objects[w].looksAt  OBVIOUS
  <2>6. DOMAIN look = DOMAIN par
        /\ \A i \in DOMAIN par : look[i] = s.proxies[par[i]].wrapped
    BY <2>4, <2>5
  <2>7. \A i \in DOMAIN par : Contents(s.objects, look[i])
                                = Contents(objs, par[i])
    BY <1>1, <2>3, <2>6
  <2>8. [i \in DOMAIN look |-> Contents(s.objects, look[i])]
          = [i \in DOMAIN par |-> Contents(objs, par[i])]
    BY <2>6, <2>7
  <2>9. Contents(objs, p)
          = <<[call |-> 0, from |-> [i \in DOMAIN par |->
                                        Contents(objs, par[i])]]>>
    BY <2>3, ContentsFacts
  <2>10. Contents(s.objects, w)
          = <<[call |-> 0, from |-> [i \in DOMAIN look |->
                                        Contents(s.objects, look[i])]]>>
    BY <2>3, <2>5, ContentsFacts
  <2>. QED  BY <2>2, <2>8, <2>9, <2>10
<1>. QED  BY <1>1, <1>2

\* A write goes to the frame that plain pandas writes to.
LEMMA SameTarget ==
    ASSUME NEW objs, NEW s, Held(objs, s), NEW p \in DOMAIN s.proxies,
           Fresh(s, p)
    PROVE  \E q \in DOMAIN s.proxies :
             /\ s.proxies[q].parents = <<>>
             /\ Target(objs, p) = q
             /\ Target(s.objects, s.proxies[p].wrapped) = s.proxies[q].wrapped
<1>1. ASSUME NEW q \in DOMAIN s.proxies, s.proxies[q].parents = <<>>
      PROVE  /\ Target(objs, q) = q
             /\ Target(s.objects, s.proxies[q].wrapped) = s.proxies[q].wrapped
  <2>1. /\ q \in DOMAIN objs /\ s.proxies[q].wrapped \in DOMAIN s.objects
        /\ objs[q].looksAt = <<>>
        /\ s.objects[s.proxies[q].wrapped].looksAt = <<>>
        /\ IsObjects(s.objects) /\ ObjectsGood(s.objects)
        /\ IsObjects(objs) /\ ObjectsGood(objs)
    BY <1>1, HeldFacts
  <2>. QED  BY <2>1, TargetStep
<1>2. CASE s.proxies[p].parents # <<>>
  <2>1. PICK par : par = s.proxies[p].parents  OBVIOUS
  <2>2. PICK w : w = s.proxies[p].wrapped  OBVIOUS
  <2>3. /\ p \in DOMAIN objs /\ w \in DOMAIN s.objects
        /\ objs[p].looksAt = par /\ par # <<>>
        /\ s.objects[w].looksAt # <<>>
        /\ IsObjects(s.objects) /\ ObjectsGood(s.objects)
        /\ IsObjects(objs) /\ ObjectsGood(objs)
        /\ \A i \in DOMAIN par : /\ par[i] \in DOMAIN s.proxies
                                 /\ s.proxies[par[i]].parents = <<>>
    BY <1>2, <2>1, <2>2, HeldFacts
  <2>4. s.objects[w].looksAt = [i \in DOMAIN par |-> s.proxies[par[i]].wrapped]
    BY <1>2, <2>1, <2>2 DEF Fresh, Final, ParentObjects, Wrapped
  <2>5. 1 \in DOMAIN par
    <3>1. s \in States(Logs(s)) /\ Good(s)  BY DEF Held, IsState
    <3>2. par \in Seq(Nat)  BY <2>1, <3>1, ProxyFacts
    <3>. QED  BY <2>3, <3>2
  <2>6. s.objects[w].looksAt[1] = s.proxies[par[1]].wrapped
    BY <2>4, <2>5
  <2>7. /\ Target(objs, p) = Target(objs, par[1])
        /\ Target(s.objects, w) = Target(s.objects, s.proxies[par[1]].wrapped)
    BY <2>3, <2>6, TargetStep
  <2>8. /\ Target(objs, par[1]) = par[1]
        /\ Target(s.objects, s.proxies[par[1]].wrapped)
              = s.proxies[par[1]].wrapped
    BY <1>1, <2>3, <2>5
  <2>. QED  BY <2>2, <2>3, <2>5, <2>7, <2>8
<1>. QED  BY <1>1, <1>2

\* A conversion keeps the agreement.
LEMMA HeldConverts ==
    ASSUME NEW objs, NEW s, Held(objs, s), NEW logs, NEW u, NEW world, NEW X,
           Converted(logs, s, u, world, X), Preserves(s, u, world)
    PROVE  Held(objs, u)
<1>1. IsState(u) /\ Tidy(u)
  BY OwnLogs DEF Converted, IsState, Preserves
<1>2. /\ DOMAIN u.proxies = DOMAIN s.proxies
      /\ \A p \in DOMAIN s.proxies : u.proxies[p].parents = s.proxies[p].parents
  BY DEF Converted, Keeps
<1>3. \A p \in DOMAIN s.proxies :
        Final(s.proxies[p]) => Data(u, p) = Data(s, p)
  BY DEF Preserves
<1>4. Matches(objs, u)
  BY <1>2, <1>3 DEF Held, Matches, Final
<1>. QED  BY <1>1, <1>4 DEF Held

\* An exception does, too.
LEMMA HeldRaise ==
    ASSUME NEW objs, NEW s, Held(objs, s), NEW e \in {"no", "mixed", "other"}
    PROVE  Held(objs, Raise(s, e))
<1>1. PICK u : u = Raise(s, e)  OBVIOUS
<1>2. IsState(u)  BY <1>1, RaiseMoves DEF Held, Moved
<1>3. u.objects = s.objects /\ u.proxies = s.proxies
  BY <1>1, RaiseFacts DEF Held, IsState
<1>4. Tidy(u)  BY <1>3, SameProxiesPreserve DEF Held, Preserves
<1>5. Matches(objs, u)  BY <1>3 DEF Held, Matches, Data
<1>. QED  BY <1>1, <1>2, <1>4, <1>5 DEF Held

\* A call writes the same, if it reads the same.
LEMMA SameEntry ==
    ASSUME NEW X, NEW os, NEW Y, NEW as, DOMAIN os = DOMAIN as,
           \A i \in DOMAIN as : Contents(X, os[i]) = Contents(Y, as[i])
    PROVE  Entry(X, os) = Entry(Y, as)
<1>1. [i \in DOMAIN os |-> Contents(X, os[i])]
        = [i \in DOMAIN as |-> Contents(Y, as[i])]
  OBVIOUS
<1>. QED  BY <1>1 DEF Entry

\* What a longer sequence holds.
LEMMA Appended ==
    ASSUME NEW S, NEW q \in Seq(S), NEW e
    PROVE  /\ DOMAIN Append(q, e) = 1..(Len(q) + 1)
           /\ Append(q, e)[Len(q) + 1] = e
           /\ \A i \in 1..Len(q) : Append(q, e)[i] = q[i]
<1>1. PICK T : T = S \cup {e}  OBVIOUS
<1>2. q \in Seq(T) /\ e \in T  BY <1>1
<1>3. Len(q) \in Nat /\ Len(Append(q, e)) = Len(q) + 1  BY <1>2
<1>. QED  BY <1>2, <1>3

\* The new proxy z and its object x have only final parents, and look at what
\* these wrap.
LooksAtFinals(s, x, z) ==
    /\ DOMAIN x.looksAt = DOMAIN z.parents
    /\ \A i \in DOMAIN z.parents :
          /\ z.parents[i] \in DOMAIN s.proxies
          /\ Final(s.proxies[z.parents[i]])
          /\ z.ids[i] <= s.proxies[z.parents[i]].wrapped
          /\ x.looksAt[i] = s.proxies[z.parents[i]].wrapped

\* The same new proxy, with its object, on both sides.
LEMMA HeldAppend ==
    ASSUME NEW objs, NEW s, Held(objs, s), NEW w, IsState(w),
           NEW x, w.objects = Append(s.objects, x),
           NEW z, w.proxies = Append(s.proxies, z),
           z.wrapped = Len(s.objects) + 1,
           NEW y, IsObjects(Append(objs, y)), ObjectsGood(Append(objs, y)),
           y.world = "slow", y.looksAt = z.parents,
           z.parents = <<>> => y.log = x.log,
           LooksAtFinals(s, x, z)
    PROVE  Held(Append(objs, y), w)
<1>1. PICK n : n = Len(s.proxies)  OBVIOUS
<1>2. PICK k : k = Len(s.objects)  OBVIOUS
<1>3. s \in States(Logs(s)) /\ Good(s)  BY DEF Held, IsState
<1>4. /\ s.objects \in Seq(Objects(Logs(s))) /\ s.proxies \in Seq(Proxies)
      /\ n \in Nat /\ DOMAIN s.proxies = 1..n
      /\ k \in Nat /\ DOMAIN s.objects = 1..k
  BY <1>1, <1>2, <1>3, StateFields
<1>5. /\ DOMAIN w.proxies = 1..(n + 1) /\ w.proxies[n + 1] = z
      /\ \A p \in 1..n : w.proxies[p] = s.proxies[p]
  BY <1>1, <1>4, Appended
<1>6. /\ w.objects[k + 1] = x
      /\ \A o \in 1..k : w.objects[o] = s.objects[o]
  BY <1>2, <1>4, Appended
<1>7. /\ DOMAIN objs = 1..n
      /\ DOMAIN Append(objs, y) = 1..(n + 1) /\ Append(objs, y)[n + 1] = y
      /\ \A p \in 1..n : Append(objs, y)[p] = objs[p]
  <2>1. DOMAIN objs = 1..n  BY <1>4 DEF Held, Matches
  <2>2. PICK logs : objs \in Seq(Objects(logs))
    BY DEF Held, Matches, IsObjects
  <2>3. Len(objs) \in Nat /\ DOMAIN objs = 1..Len(objs)  BY <2>2
  <2>4. Len(objs) = n  BY <1>4, <2>1, <2>3
  <2>. QED  BY <2>1, <2>2, <2>4, Appended
<1>8. \A p \in 1..n : /\ s.proxies[p].wrapped \in 1..k
                      /\ \A i \in DOMAIN s.proxies[p].parents :
                            s.proxies[p].parents[i] \in 1..n
  BY <1>2, <1>3, <1>4, ProxyFacts
<1>9. \A i \in DOMAIN z.parents : z.parents[i] \in 1..n
  BY <1>4 DEF LooksAtFinals
<1>10. \A p \in DOMAIN w.proxies : p \in 1..n \/ p = n + 1  BY <1>4, <1>5
<1>11. Flat(w)
  <2>1. \A p \in 1..n : \A i \in DOMAIN s.proxies[p].parents :
          Final(s.proxies[s.proxies[p].parents[i]])
    BY <1>4 DEF Held, Tidy, Flat
  <2>2. ASSUME NEW p \in DOMAIN w.proxies, NEW i \in DOMAIN w.proxies[p].parents
        PROVE  Final(w.proxies[w.proxies[p].parents[i]])
    <3>1. CASE p \in 1..n  BY <1>5, <1>8, <2>1, <3>1
    <3>2. CASE p = n + 1  BY <1>5, <1>9, <3>2 DEF LooksAtFinals
    <3>. QED  BY <1>10, <3>1, <3>2
  <2>. QED  BY <2>2 DEF Flat
<1>12. ASSUME NEW p \in DOMAIN w.proxies PROVE ProxyInOrder(w, w.proxies[p])
  <2>1. CASE p \in 1..n
    <3>1. ProxyInOrder(s, s.proxies[p])  BY <1>4, <2>1 DEF Held, Tidy
    <3>2. /\ w.proxies[p] = s.proxies[p]
          /\ w.objects[s.proxies[p].wrapped] = s.objects[s.proxies[p].wrapped]
          /\ \A i \in DOMAIN s.proxies[p].parents :
                w.proxies[s.proxies[p].parents[i]]
                    = s.proxies[s.proxies[p].parents[i]]
      BY <1>5, <1>6, <1>8, <2>1
    <3>. QED  BY <3>1, <3>2 DEF ProxyInOrder
  <2>2. CASE p = n + 1
    <3>1. w.proxies[p] = z /\ w.objects[z.wrapped] = x
      BY <1>2, <1>5, <1>6, <2>2
    <3>2. ASSUME NEW i \in DOMAIN z.parents
          PROVE  /\ z.ids[i] <= x.looksAt[i]
                 /\ x.looksAt[i] <= w.proxies[z.parents[i]].wrapped
      <4>1. /\ w.proxies[z.parents[i]] = s.proxies[z.parents[i]]
            /\ s.proxies[z.parents[i]].wrapped \in 1..k
        BY <1>5, <1>8, <1>9
      <4>2. \A c \in 1..k : c <= c  BY <1>4
      <4>. QED  BY <4>1, <4>2 DEF LooksAtFinals
    <3>. QED  BY <3>1, <3>2 DEF ProxyInOrder, LooksAtFinals
  <2>. QED  BY <1>10, <2>1, <2>2
<1>13. Distinct(w)
  <2>. SUFFICES ASSUME NEW a \in DOMAIN w.proxies, NEW b \in DOMAIN w.proxies,
                       Final(w.proxies[a]), Final(w.proxies[b]),
                       w.proxies[a].wrapped = w.proxies[b].wrapped
                PROVE  a = b
    BY DEF Distinct
  <2>1. k + 1 \notin 1..k  BY <1>4
  <2>2. CASE a \in 1..n /\ b \in 1..n
    BY <1>4, <1>5, <2>2 DEF Held, Tidy, Distinct
  <2>3. CASE a = n + 1 /\ b \in 1..n  BY <1>2, <1>5, <1>8, <2>1, <2>3
  <2>4. CASE a \in 1..n /\ b = n + 1  BY <1>2, <1>5, <1>8, <2>1, <2>4
  <2>. QED  BY <1>10, <2>2, <2>3, <2>4
<1>14. Matches(Append(objs, y), w)
  <2>1. ASSUME NEW p \in DOMAIN w.proxies
        PROVE  /\ Append(objs, y)[p].world = "slow"
               /\ Append(objs, y)[p].looksAt = w.proxies[p].parents
               /\ Final(w.proxies[p]) => Append(objs, y)[p].log = Data(w, p)
    <3>1. CASE p \in 1..n
      <4>1. /\ objs[p].world = "slow" /\ objs[p].looksAt = s.proxies[p].parents
            /\ Final(s.proxies[p]) => objs[p].log = Data(s, p)
        BY <1>4, <3>1 DEF Held, Matches
      <4>2. Data(w, p) = Data(s, p)  BY <1>5, <1>6, <1>8, <3>1 DEF Data
      <4>. QED  BY <1>5, <1>7, <3>1, <4>1, <4>2
    <3>2. CASE p = n + 1
      <4>1. w.proxies[p] = z /\ Append(objs, y)[p] = y /\ Data(w, p) = x.log
        BY <1>2, <1>5, <1>6, <1>7, <3>2 DEF Data
      <4>. QED  BY <4>1 DEF Final
    <3>. QED  BY <1>10, <3>1, <3>2
  <2>. QED  BY <1>5, <1>7, <2>1 DEF Matches
<1>15. Tidy(w)  BY <1>11, <1>12, <1>13 DEF Tidy
<1>. QED  BY <1>14, <1>15 DEF Held

\* The same frame is written on both sides.
LEMMA HeldWrite ==
    ASSUME NEW objs, NEW s, Held(objs, s), NEW w, IsState(w),
           NEW q \in DOMAIN s.proxies, s.proxies[q].parents = <<>>,
           NEW x, w.objects = [s.objects EXCEPT ![s.proxies[q].wrapped] = x],
           w.proxies = s.proxies, x.looksAt = <<>>,
           NEW y, IsObjects([objs EXCEPT ![q] = y]),
           ObjectsGood([objs EXCEPT ![q] = y]),
           y.world = "slow", y.looksAt = <<>>, y.log = x.log
    PROVE  Held([objs EXCEPT ![q] = y], w)
<1>1. PICK t : t = s.proxies[q].wrapped  OBVIOUS
<1>2. PICK after : after = [objs EXCEPT ![q] = y]  OBVIOUS
<1>3. \A p \in DOMAIN s.proxies :
        /\ p \in DOMAIN objs /\ s.proxies[p].wrapped \in DOMAIN s.objects
        /\ objs[p].looksAt = s.proxies[p].parents
  BY HeldFacts
<1>4. s.objects[t].looksAt = <<>> /\ objs[q].looksAt = <<>>
  BY <1>1, HeldFacts
<1>5. /\ DOMAIN w.objects = DOMAIN s.objects
      /\ t \in DOMAIN s.objects /\ w.objects[t] = x
      /\ \A o \in DOMAIN s.objects : o # t => w.objects[o] = s.objects[o]
  <2>1. t \in DOMAIN s.objects  BY <1>1, <1>3
  <2>2. w.objects = [s.objects EXCEPT ![t] = x]  BY <1>1
  <2>. QED  BY <2>1, <2>2
<1>6. \A o \in DOMAIN s.objects : w.objects[o].looksAt = s.objects[o].looksAt
  BY <1>4, <1>5
<1>7. Tidy(w)
  <2>1. Flat(w) /\ Distinct(w)  BY DEF Held, Tidy, Flat, Distinct
  <2>2. \A p \in DOMAIN s.proxies : ProxyInOrder(w, s.proxies[p])
    BY <1>3, <1>6 DEF Held, Tidy, ProxyInOrder
  <2>. QED  BY <2>1, <2>2 DEF Tidy
<1>8. /\ DOMAIN after = DOMAIN objs /\ after[q] = y
      /\ \A p \in DOMAIN objs : p # q => after[p] = objs[p]
  BY <1>2, <1>3
<1>9. ASSUME NEW p \in DOMAIN s.proxies
      PROVE  /\ after[p].world = "slow"
             /\ after[p].looksAt = s.proxies[p].parents
             /\ Final(s.proxies[p]) => after[p].log = Data(w, p)
  <2>1. CASE p = q
    BY <1>1, <1>5, <1>8, <2>1 DEF Data
  <2>2. CASE p # q
    <3>1. /\ after[p] = objs[p] /\ objs[p].world = "slow"
          /\ Final(s.proxies[p]) => objs[p].log = Data(s, p)
      BY <1>3, <1>8, <2>2 DEF Held, Matches
    <3>2. Final(s.proxies[p]) => s.proxies[p].wrapped # t
      BY <1>1, <2>2 DEF Held, Tidy, Distinct, Final
    <3>3. Final(s.proxies[p]) => Data(w, p) = Data(s, p)
      BY <1>3, <1>5, <3>2 DEF Data
    <3>. QED  BY <1>3, <3>1, <3>3
  <2>. QED  BY <2>1, <2>2
<1>10. Matches(after, w)
  <2>1. DOMAIN after = DOMAIN s.proxies  BY <1>8 DEF Held, Matches
  <2>2. IsObjects(after) /\ ObjectsGood(after)  BY <1>2
  <2>. QED  BY <1>9, <2>1, <2>2 DEF Matches
<1>. QED  BY <1>2, <1>7, <1>10 DEF Held

\* The same objects and proxies agree with the same data.
LEMMA HeldSame ==
    ASSUME NEW objs, NEW s, Held(objs, s), NEW u, IsState(u),
           u.objects = s.objects, u.proxies = s.proxies
    PROVE  Held(objs, u)
<1>1. Tidy(u)  BY SameProxiesPreserve DEF Held, Preserves
<1>2. Matches(objs, u)  BY DEF Held, Matches, Data
<1>. QED  BY <1>1, <1>2 DEF Held

\* A range gives its end.
LEMMA SameRange ==
    ASSUME NEW m \in Nat, NEW n \in Nat, 1..m = 1..n
    PROVE  m = n
OBVIOUS

\* A call that runs, with its result wrapped, does what plain pandas does.
LEMMA RunHeld ==
    ASSUME NEW objs, NEW s, Held(objs, s), NEW world \in Worlds, NEW args,
           Among(args, Len(s.proxies)), args # <<>>, Len(args) <= 2,
           InWorld(s, args, world), AllFresh(s, args),
           NEW shape \in Shapes, NEW support, NEW forced,
           world = "fast" => support # "slow_mixed",
           shape = "derive" => \A i \in DOMAIN args : Final(s.proxies[args[i]]),
           NEW u, u = Run(s, args, shape, support, world)
    PROVE  Held(Execute(objs, args, shape, support, "slow"),
                [objects |-> u.objects,
                 proxies |-> WrapResult(u, args, shape, support,
                                        Len(u.objects), forced),
                 raised |-> "no"])
<1>1. PICK os : os = Wrapped(s, args)  OBVIOUS
<1>2. PICK w : w = [objects |-> u.objects,
                    proxies |-> WrapResult(u, args, shape, support,
                                           Len(u.objects), forced),
                    raised |-> "no"]
  OBVIOUS
<1>3. PICK result : result = Execute(objs, args, shape, support, "slow")
  OBVIOUS
<1>4. IsState(s)  BY DEF Held
<1>5. /\ Moved(s, u) /\ IsState(u) /\ MadeLast(u.objects, shape)
  BY <1>4, RunMoves DEF Moved
<1>6. /\ u.objects = Execute(s.objects, os, shape, support, world)
      /\ u.proxies = s.proxies
  <2>1. s = [objects |-> s.objects, proxies |-> s.proxies, raised |-> s.raised]
    BY <1>4 DEF IsState, States
  <2>2. u = [s EXCEPT !.objects = Execute(s.objects, os, shape, support, world)]
    BY <1>1 DEF Run
  <2>. QED  BY <2>1, <2>2
<1>7. IsState(w)
  BY <1>2, <1>5, <1>6, ResultWrapped DEF MadeLast
<1>8. w.objects = u.objects
      /\ w.proxies = WrapResult(u, args, shape, support, Len(u.objects), forced)
  BY <1>2
<1>9. /\ os \in Seq(Nat) /\ os # <<>> /\ DOMAIN os = DOMAIN args
      /\ \A i \in DOMAIN args : /\ args[i] \in DOMAIN s.proxies
                                /\ os[i] = s.proxies[args[i]].wrapped
                                /\ os[i] \in DOMAIN s.objects
  BY <1>1, <1>4, WrappedFacts
<1>10. \A i \in DOMAIN args : Contents(s.objects, os[i]) = Contents(objs, args[i])
  BY <1>9, SameContents DEF AllFresh
<1>11. args \in Seq(Nat)  BY DEF Among
<1>12. IsObjects(result) /\ ObjectsGood(result)
  <2>1. /\ IsObjects(objs) /\ ObjectsGood(objs)
        /\ \A i \in DOMAIN args : /\ args[i] \in DOMAIN objs
                                  /\ objs[args[i]].world = "slow"
    BY <1>9 DEF Held, Matches
  <2>2. "slow" \in Worlds /\ "slow" # "fast"  BY DEF Worlds
  <2>3. Extends(objs, result)
    BY <1>3, <1>11, <2>1, <2>2, Executed
  <2>. QED  BY <2>3 DEF Extends
<1>13. CASE shape = "read"
  <2>1. result = objs /\ w.objects = s.objects /\ w.proxies = s.proxies
    BY <1>3, <1>6, <1>8, <1>13 DEF Execute, WrapResult
  <2>2. Held(objs, w)  BY <1>7, <2>1, HeldSame
  <2>. QED  BY <1>2, <1>3, <2>1, <2>2
<1>14. CASE shape = "write"
  <2>1. 1 \in DOMAIN args  BY <1>11
  <2>2. PICK q \in DOMAIN s.proxies :
          /\ s.proxies[q].parents = <<>>
          /\ Target(objs, args[1]) = q
          /\ Target(s.objects, os[1]) = s.proxies[q].wrapped
    BY <1>9, <2>1, SameTarget DEF AllFresh
  <2>3. PICK t : t = s.proxies[q].wrapped  OBVIOUS
  <2>4. PICK x : x = Frame(world, Append(s.objects[t].log,
                                         Entry(s.objects, Tail(os))),
                           \/ s.objects[t].mixed \/ support = "slow_mixed"
                           \/ Mixed(s.objects, Tail(os)))
    OBVIOUS
  <2>5. PICK y : y = Frame("slow", Append(objs[q].log, Entry(objs, Tail(args))),
                           \/ objs[q].mixed \/ support = "slow_mixed"
                           \/ Mixed(objs, Tail(args)))
    OBVIOUS
  <2>6. w.objects = [s.objects EXCEPT ![s.proxies[q].wrapped] = x]
    BY <1>6, <1>8, <1>14, <2>2, <2>3, <2>4 DEF Execute
  <2>7. result = [objs EXCEPT ![q] = y]
    BY <1>3, <1>14, <2>2, <2>5 DEF Execute
  <2>8. w.proxies = s.proxies  BY <1>6, <1>8, <1>14 DEF WrapResult
  <2>9. Entry(s.objects, Tail(os)) = Entry(objs, Tail(args))
    <3>1. Len(os) = Len(args)
      <4>1. /\ DOMAIN os = 1..Len(os) /\ Len(os) \in Nat
            /\ DOMAIN args = 1..Len(args) /\ Len(args) \in Nat
        BY <1>9, <1>11
      <4>. QED  BY <1>9, <4>1, SameRange
    <3>2. DOMAIN Tail(os) = DOMAIN Tail(args)
      BY <1>9, <1>11, <3>1, TailFacts
    <3>3. \A i \in DOMAIN Tail(args) :
            Contents(s.objects, Tail(os)[i]) = Contents(objs, Tail(args)[i])
      <4>1. \A i \in DOMAIN Tail(args) : /\ i + 1 \in DOMAIN args
                                          /\ Tail(args)[i] = args[i + 1]
        BY <1>11, TailFacts
      <4>2. \A i \in DOMAIN Tail(args) : Tail(os)[i] = os[i + 1]
        BY <1>9, <3>2, TailFacts
      <4>. QED  BY <1>10, <4>1, <4>2
    <3>4. PICK ot : ot = Tail(os)  OBVIOUS
    <3>5. PICK at : at = Tail(args)  OBVIOUS
    <3>6. PICK X : X = s.objects  OBVIOUS
    <3>7. DOMAIN ot = DOMAIN at  BY <3>2, <3>4, <3>5
    <3>8. \A i \in DOMAIN at : Contents(X, ot[i]) = Contents(objs, at[i])
      BY <3>3, <3>4, <3>5, <3>6
    <3>9. Entry(X, ot) = Entry(objs, at)  BY <3>7, <3>8, SameEntry
    <3>. QED  BY <3>4, <3>5, <3>6, <3>9
  <2>10. objs[q].log = s.objects[t].log  BY <2>2, <2>3, HeldFacts
  <2>11. /\ x.looksAt = <<>> /\ y.looksAt = <<>> /\ y.world = "slow"
         /\ y.log = x.log
    BY <2>4, <2>5, <2>9, <2>10 DEF Frame
  <2>12. Held(result, w)
    <3>1. IsObjects([objs EXCEPT ![q] = y]) /\ ObjectsGood([objs EXCEPT ![q] = y])
      BY <1>12, <2>7
    <3>2. Held([objs EXCEPT ![q] = y], w)
      BY <1>7, <2>2, <2>6, <2>8, <2>11, <3>1, HeldWrite
    <3>. QED  BY <2>7, <3>2
  <2>. QED  BY <1>2, <1>3, <2>12
<1>15. CASE shape = "compute"
  <2>1. PICK x : x = Frame(world, <<Entry(s.objects, os)>>,
                           support = "slow_mixed" \/ Mixed(s.objects, os))
    OBVIOUS
  <2>2. PICK y : y = Frame("slow", <<Entry(objs, args)>>,
                           support = "slow_mixed" \/ Mixed(objs, args))
    OBVIOUS
  <2>3. PICK z : z = [wrapped |-> Len(u.objects),
                      block |-> IF forced THEN "to_fast" ELSE "none",
                      parents |-> <<>>, ids |-> <<>>, onFast |-> TRUE]
    OBVIOUS
  <2>4. w.objects = Append(s.objects, x) /\ result = Append(objs, y)
    BY <1>3, <1>6, <1>8, <1>15, <2>1, <2>2 DEF Execute
  <2>5. w.proxies = Append(s.proxies, z)
    BY <1>6, <1>8, <1>15, <2>3 DEF WrapResult
  <2>6. /\ x.looksAt = <<>> /\ y.looksAt = <<>> /\ y.world = "slow"
        /\ y.log = x.log
    <3>1. Entry(s.objects, os) = Entry(objs, args)
      BY <1>9, <1>10, SameEntry
    <3>. QED  BY <2>1, <2>2, <3>1 DEF Frame
  <2>7. /\ z.wrapped = Len(s.objects) + 1 /\ z.parents = <<>>
    <3>1. s.objects \in Seq(Objects(Logs(s)))
      BY <1>4, StateFields DEF IsState
    <3>2. Len(Append(s.objects, x)) = Len(s.objects) + 1
      <4>1. PICK T : T = Objects(Logs(s)) \cup {x}  OBVIOUS
      <4>2. s.objects \in Seq(T) /\ x \in T  BY <3>1, <4>1
      <4>. QED  BY <4>2
    <3>. QED  BY <1>8, <2>3, <2>4, <3>2
  <2>8. LooksAtFinals(s, x, z)
    <3>1. DOMAIN x.looksAt = DOMAIN z.parents /\ DOMAIN z.parents = {}
      BY <2>6, <2>7
    <3>. QED  BY <3>1 DEF LooksAtFinals
  <2>9. Held(Append(objs, y), w)
    BY <1>7, <1>12, <2>4, <2>5, <2>6, <2>7, <2>8, HeldAppend
  <2>. QED  BY <1>2, <1>3, <2>4, <2>9
<1>16. CASE shape = "derive"
  <2>1. PICK x : x = View(world, os)  OBVIOUS
  <2>2. PICK y : y = View("slow", args)  OBVIOUS
  <2>3. PICK z : z = [wrapped |-> Len(u.objects),
                      block |-> IF forced THEN "to_fast" ELSE "none",
                      parents |-> args,
                      ids |-> [i \in DOMAIN args |-> Id(Wrapped(u, args)[i])],
                      onFast |-> support = "both"]
    OBVIOUS
  <2>4. w.objects = Append(s.objects, x) /\ result = Append(objs, y)
    BY <1>3, <1>6, <1>8, <1>16, <2>1, <2>2 DEF Execute
  <2>5. w.proxies = Append(s.proxies, z)
    BY <1>6, <1>8, <1>16, <2>3 DEF WrapResult
  <2>6. Wrapped(u, args) = os  BY <1>1, <1>6 DEF Wrapped
  <2>7. /\ x.looksAt = os /\ y.looksAt = args /\ y.world = "slow"
    BY <2>1, <2>2 DEF View
  <2>8. /\ z.wrapped = Len(s.objects) + 1 /\ z.parents = args
        /\ z.ids = [i \in DOMAIN args |-> Id(os[i])]
    <3>1. s.objects \in Seq(Objects(Logs(s)))
      BY <1>4, StateFields DEF IsState
    <3>2. Len(Append(s.objects, x)) = Len(s.objects) + 1
      <4>1. PICK T : T = Objects(Logs(s)) \cup {x}  OBVIOUS
      <4>2. s.objects \in Seq(T) /\ x \in T  BY <3>1, <4>1
      <4>. QED  BY <4>2
    <3>. QED  BY <1>8, <2>3, <2>4, <2>6, <3>2
  <2>9. z.parents # <<>> /\ LooksAtFinals(s, x, z)
    <3>1. /\ DOMAIN os = DOMAIN args
          /\ \A i \in DOMAIN os : z.ids[i] <= os[i]
      BY <1>9, <2>8, IdsOf
    <3>. QED  BY <1>9, <1>16, <2>7, <2>8, <3>1 DEF LooksAtFinals
  <2>a. /\ y.looksAt = z.parents /\ (z.parents = <<>> => y.log = x.log)
        /\ IsObjects(Append(objs, y)) /\ ObjectsGood(Append(objs, y))
    BY <1>12, <2>4, <2>7, <2>8, <2>9
  <2>10. Held(Append(objs, y), w)
    BY <1>7, <2>4, <2>5, <2>7, <2>8, <2>9, <2>a, HeldAppend
  <2>. QED  BY <1>2, <1>3, <2>4, <2>10
<1>. QED  BY <1>13, <1>14, <1>15, <1>16 DEF Shapes

\* The arguments are converted and up to date.
Ready(objs, c, args, world) ==
    /\ Held(objs, c) /\ c.raised = "no" /\ Among(args, Len(c.proxies))
    /\ InWorld(c, args, world) /\ AllFresh(c, args)

\* A conversion that does not raise makes them so.
LEMMA ConvertReady ==
    ASSUME NeverReused,
           NEW objs, NEW s, Held(objs, s), s.raised = "no",
           NEW args, Among(args, Len(s.proxies)), NEW world \in Worlds,
           NEW c, c = ConvertAll(s, args, world)
    PROVE  /\ Held(objs, c) /\ Len(c.proxies) = Len(s.proxies)
           /\ c.raised = "no" => Ready(objs, c, args, world)
           /\ world = "slow" => c.raised = "no"
<1>1. IsState(s) /\ Tidy(s)  BY DEF Held
<1>2. /\ Converted(Logs(s), s, c, world, {}) /\ IsState(c)
      /\ c.raised = "no" => InWorld(c, args, world)
  BY <1>1, AllConverted
<1>3. /\ Preserves(s, c, world)
      /\ c.raised = "no" => AllFresh(c, args)
  BY <1>1, AllPreserved
<1>4. Held(objs, c)  BY <1>2, <1>3, HeldConverts
<1>5. Len(c.proxies) = Len(s.proxies)
  <2>1. DOMAIN c.proxies = DOMAIN s.proxies  BY <1>2 DEF Converted, Keeps
  <2>. QED  BY <1>1, <1>2, <2>1, SameNumber
<1>6. world = "slow" => c.raised = "no"  BY <1>2 DEF Converted
<1>. QED  BY <1>2, <1>3, <1>4, <1>5, <1>6 DEF Ready

\* The call ran in a library, on arguments that were ready for it; or it
\* raised, and the data is what it was.
RanWell(objs, u, args, shape, support) ==
    \/ u.raised # "no" /\ Held(objs, u)
    \/ \E c : \E world \in Worlds :
        /\ Ready(objs, c, args, world)
        /\ world = "fast" => support # "slow_mixed"
        /\ u = Run(c, args, shape, support, world)

\* Running a call raises nothing.
LEMMA RunFields ==
    ASSUME NEW c, IsState(c), NEW args, NEW shape, NEW support, NEW world,
           NEW u, u = Run(c, args, shape, support, world)
    PROVE  /\ u.raised = c.raised /\ u.proxies = c.proxies
           /\ u.objects = Execute(c.objects, Wrapped(c, args), shape, support,
                                  world)
<1>1. c = [objects |-> c.objects, proxies |-> c.proxies, raised |-> c.raised]
  BY DEF IsState, States
<1>2. u = [c EXCEPT !.objects = Execute(c.objects, Wrapped(c, args), shape,
                                        support, world)]
  BY DEF Run
<1>. QED  BY <1>1, <1>2

\* The attempt in the fast library.
LEMMA FastRanWell ==
    ASSUME NeverReused,
           Held(plain, Begin), NEW args, Among(args, Len(proxies)),
           NEW shape, NEW support, NEW block,
           NEW u, u = FastAttempt(args, shape, support, block)
    PROVE  RanWell(plain, u, args, shape, support)
<1>1. PICK s : s = Begin  OBVIOUS
<1>2. Held(plain, s) /\ s.raised = "no" /\ s.proxies = proxies
  BY <1>1, BeginFields
<1>3. PICK c : c = IF block = "to_fast" THEN Raise(s, "other")
                   ELSE ConvertAll(s, args, "fast")
  OBVIOUS
<1>4. /\ Held(plain, c)
      /\ c.raised = "no" => Ready(plain, c, args, "fast")
  <2>1. CASE block = "to_fast"
    <3>1. c = Raise(s, "other")  BY <1>3, <2>1
    <3>2. c.raised # "no"  BY <1>2, <3>1, RaiseFacts DEF Held, IsState
    <3>. QED  BY <1>2, <3>1, <3>2, HeldRaise
  <2>2. CASE block # "to_fast"
    <3>1. c = ConvertAll(s, args, "fast") /\ "fast" \in Worlds
      BY <1>3, <2>2 DEF Worlds
    <3>2. Among(args, Len(s.proxies))  BY <1>2
    <3>. QED  BY <1>2, <3>1, <3>2, ConvertReady
  <2>. QED  BY <2>1, <2>2
<1>5. CASE c.raised # "no"
  <2>1. u = c  BY <1>1, <1>3, <1>5 DEF FastAttempt
  <2>. QED  BY <1>4, <1>5, <2>1 DEF RanWell
<1>6. CASE c.raised = "no" /\ support = "both"
  <2>1. u = Run(c, args, shape, support, "fast")
    BY <1>1, <1>3, <1>6 DEF FastAttempt
  <2>2. Ready(plain, c, args, "fast") /\ "fast" \in Worlds
        /\ support # "slow_mixed"
    BY <1>4, <1>6 DEF Worlds
  <2>. QED  BY <2>1, <2>2 DEF RanWell
<1>7. CASE c.raised = "no" /\ support # "both"
  <2>1. PICK e \in {"mixed", "other"} : u = Raise(c, e)
    BY <1>1, <1>3, <1>7 DEF FastAttempt
  <2>2. u.raised # "no"  BY <1>4, <2>1, RaiseFacts DEF Held, IsState
  <2>3. Held(plain, u)  BY <1>4, <2>1, HeldRaise
  <2>. QED  BY <2>2, <2>3 DEF RanWell
<1>. QED  BY <1>5, <1>6, <1>7

\* The attempt in the slow library, after the one in the fast library.
LEMMA SlowRanWell ==
    ASSUME NeverReused,
           NEW objs, NEW s, Held(objs, s), NEW args,
           Among(args, Len(s.proxies)), NEW shape, NEW support,
           NEW u, u = SlowAttempt(s, args, shape, support)
    PROVE  RanWell(objs, u, args, shape, support)
<1>1. PICK r : r = Raise(s, "no")  OBVIOUS
<1>2. PICK c : c = ConvertAll(r, args, "slow")  OBVIOUS
<1>3. Held(objs, r)  BY <1>1, HeldRaise
<1>4. r.raised = "no" /\ r.proxies = s.proxies
  BY <1>1, RaiseFacts DEF Held, IsState
<1>5. "slow" \in Worlds /\ Among(args, Len(r.proxies))  BY <1>4 DEF Worlds
<1>6. Held(objs, c) /\ Ready(objs, c, args, "slow")
  BY <1>2, <1>3, <1>4, <1>5, ConvertReady
<1>7. CASE support = "none"
  <2>1. u = Raise(c, "other")  BY <1>1, <1>2, <1>7 DEF SlowAttempt
  <2>2. u.raised # "no"  BY <1>6, <2>1, RaiseFacts DEF Held, IsState
  <2>3. Held(objs, u)  BY <1>6, <2>1, HeldRaise
  <2>. QED  BY <2>2, <2>3 DEF RanWell
<1>8. CASE support # "none"
  <2>1. u = Run(c, args, shape, support, "slow")
    BY <1>1, <1>2, <1>8 DEF SlowAttempt
  <2>2. "slow" # "fast"  OBVIOUS
  <2>. QED  BY <1>5, <1>6, <2>1, <2>2 DEF RanWell
<1>. QED  BY <1>7, <1>8

\* Where a call ran, it did what it does under plain pandas, and gives what it
\* gives there.
LEMMA DoneMatches ==
    ASSUME Held(plain, Begin), NEW args, Passed(args), NEW shape \in Shapes,
           NEW support, NEW forced,
           shape = "derive" => \A i \in DOMAIN args : Final(proxies[args[i]]),
           NEW u, RanWell(plain, u, args, shape, support), u.raised = "no"
    PROVE  /\ Held(Execute(plain, args, shape, support, "slow"),
                   [objects |-> u.objects,
                    proxies |-> WrapResult(u, args, shape, support,
                                           Len(u.objects), forced),
                    raised |-> "no"])
           /\ shape = "read" => Contents(u.objects, u.proxies[args[1]].wrapped)
                                  = Contents(plain, args[1])
<1>1. PICK c : \E world \in Worlds :
        /\ Ready(plain, c, args, world)
        /\ world = "fast" => support # "slow_mixed"
        /\ u = Run(c, args, shape, support, world)
  BY DEF RanWell
<1>2. PICK world \in Worlds :
        /\ Ready(plain, c, args, world)
        /\ world = "fast" => support # "slow_mixed"
        /\ u = Run(c, args, shape, support, world)
  BY <1>1
<1>3. /\ Held(plain, c) /\ IsState(c) /\ Among(args, Len(c.proxies))
      /\ InWorld(c, args, world) /\ AllFresh(c, args)
  BY <1>2 DEF Ready, Held
<1>4. args # <<>> /\ Len(args) <= 2 /\ args \in Seq(Nat)
  BY DEF Passed, Among
<1>5. \A i \in DOMAIN args : args[i] \in DOMAIN c.proxies
  <2>1. DOMAIN c.proxies = 1..Len(c.proxies)
    BY <1>3, StateFields DEF IsState
  <2>. QED  BY <1>3, <2>1 DEF Among
<1>6. \A p \in DOMAIN c.proxies : c.proxies[p].parents = proxies[p].parents
  <2>1. \A p \in DOMAIN c.proxies : /\ plain[p].looksAt = c.proxies[p].parents
                                    /\ p \in DOMAIN plain
    BY <1>3 DEF Held, Matches
  <2>2. \A p \in DOMAIN plain : plain[p].looksAt = proxies[p].parents
    BY BeginFields DEF Held, Matches
  <2>. QED  BY <2>1, <2>2
<1>7. shape = "derive" => \A i \in DOMAIN args : Final(c.proxies[args[i]])
  BY <1>5, <1>6 DEF Final
<1>8. Held(Execute(plain, args, shape, support, "slow"),
           [objects |-> u.objects,
            proxies |-> WrapResult(u, args, shape, support,
                                   Len(u.objects), forced),
            raised |-> "no"])
  BY <1>2, <1>3, <1>4, <1>7, RunHeld
<1>9. ASSUME shape = "read"
      PROVE  Contents(u.objects, u.proxies[args[1]].wrapped)
               = Contents(plain, args[1])
  <2>1. /\ u.proxies = c.proxies
        /\ u.objects = Execute(c.objects, Wrapped(c, args), shape, support,
                               world)
    BY <1>2, <1>3, RunFields
  <2>2. u.objects = c.objects  BY <1>9, <2>1 DEF Execute
  <2>3. PICK p : p = args[1]  OBVIOUS
  <2>4. 1 \in DOMAIN args  BY <1>4
  <2>5. p \in DOMAIN c.proxies /\ Fresh(c, p)
    BY <1>3, <1>5, <2>3, <2>4 DEF AllFresh
  <2>6. Contents(c.objects, c.proxies[p].wrapped) = Contents(plain, p)
    BY <1>3, <2>5, SameContents
  <2>. QED  BY <2>1, <2>2, <2>3, <2>6
<1>. QED  BY <1>8, <1>9

\* A state in which an exception ended a call or a conversion.
LEMMA HeldAfter ==
    ASSUME NEW objs, NEW s, Held(objs, s)
    PROVE  Held(objs, [objects |-> s.objects, proxies |-> s.proxies,
                       raised |-> "no"])
<1>1. PICK u : u = Raise(s, "no")  OBVIOUS
<1>2. Held(objs, u)  BY <1>1, HeldRaise
<1>3. u = [objects |-> s.objects, proxies |-> s.proxies, raised |-> "no"]
  BY <1>1 DEF Held, Raise, IsState, States
<1>. QED  BY <1>2, <1>3

\* A call matches plain pandas.
LEMMA CallMatches ==
    ASSUME NeverReused,
           Held(plain, Begin), ~Chaining, ~Debugging, NEW shape \in Shapes,
           NEW args, Passed(args), NEW support, Call(shape, args, support)
    PROVE  Held(plain', Begin') /\ AnswersMatchPandas'
<1>1. PICK block : block = IF shape \in MethodShapes
                           THEN MethodBlock(shape, args[1]) ELSE "none"
  OBVIOUS
<1>2. PICK fast : fast = FastAttempt(args, shape, support, block)  OBVIOUS
<1>3. PICK u : u = IF fast.raised = "no" THEN fast
                   ELSE SlowAttempt(fast, args, shape, support)
  OBVIOUS
<1>4. PICK forced : forced = (fast.raised = "mixed")  OBVIOUS
<1>5. /\ objects' = u.objects
      /\ proxies' = IF u.raised = "no"
                    THEN WrapResult(u, args, shape, support, Len(u.objects),
                                    forced)
                    ELSE u.proxies
      /\ plain' = IF u.raised = "no"
                  THEN Execute(plain, args, shape, support, "slow")
                  ELSE plain
      /\ answer' = IF u.raised = "no" /\ shape = "read"
                   THEN [got |-> Contents(u.objects,
                                          u.proxies[args[1]].wrapped),
                         expected |-> Contents(plain, args[1])]
                   ELSE NoAnswer
      /\ shape = "derive" => \A i \in DOMAIN args : Final(proxies[args[i]])
  BY <1>1, <1>2, <1>3, <1>4 DEF Call
<1>6. Among(args, Len(proxies)) /\ args # <<>>  BY DEF Passed
<1>7. IsState(Begin)  BY DEF Held
<1>8. RanWell(plain, fast, args, shape, support)
  BY <1>2, <1>6, FastRanWell
<1>9. RanWell(plain, u, args, shape, support)
  <2>1. CASE fast.raised = "no"  BY <1>3, <1>8, <2>1
  <2>2. CASE fast.raised # "no"
    <3>1. Held(plain, fast)
      <4>1. ASSUME NEW c, NEW world \in Worlds,
                   Ready(plain, c, args, world),
                   fast = Run(c, args, shape, support, world)
            PROVE  FALSE
        <5>1. IsState(c) /\ c.raised = "no"  BY <4>1 DEF Ready, Held
        <5>2. fast.raised = c.raised  BY <4>1, <5>1, RunFields
        <5>. QED  BY <2>2, <5>1, <5>2
      <4>. QED  BY <1>8, <4>1 DEF RanWell
    <3>2. Len(fast.proxies) = Len(proxies)
      <4>1. Moved(Begin, fast)  BY <1>2, <1>6, <1>7, FastAttempted
      <4>. QED  BY <1>7, <4>1, BeginFields, SameNumber DEF Moved
    <3>3. u = SlowAttempt(fast, args, shape, support)  BY <1>3, <2>2
    <3>4. Among(args, Len(fast.proxies))  BY <1>6, <3>2
    <3>. QED  BY <3>1, <3>3, <3>4, SlowRanWell
  <2>. QED  BY <2>1, <2>2
<1>10. CASE u.raised = "no"
  <2>1. PICK w : w = [objects |-> u.objects,
                      proxies |-> WrapResult(u, args, shape, support,
                                             Len(u.objects), forced),
                      raised |-> "no"]
    OBVIOUS
  <2>2. PICK result : result = Execute(plain, args, shape, support, "slow")
    OBVIOUS
  <2>3. /\ Held(Execute(plain, args, shape, support, "slow"),
                [objects |-> u.objects,
                 proxies |-> WrapResult(u, args, shape, support,
                                        Len(u.objects), forced),
                 raised |-> "no"])
        /\ shape = "read" => Contents(u.objects, u.proxies[args[1]].wrapped)
                               = Contents(plain, args[1])
    BY <1>5, <1>9, <1>10, DoneMatches
  <2>4. Held(result, w)  BY <2>1, <2>2, <2>3
  <2>5. plain' = result /\ Begin' = w
    BY <1>5, <1>10, <2>1, <2>2, NextBegins
  <2>6. answer'.got = answer'.expected  BY <1>5, <1>10, <2>3 DEF NoAnswer
  <2>. QED  BY <2>4, <2>5, <2>6 DEF AnswersMatchPandas
<1>11. CASE u.raised # "no"
  <2>1. Held(plain, u)
    <3>1. ASSUME NEW c, NEW world \in Worlds, Ready(plain, c, args, world),
                 u = Run(c, args, shape, support, world)
          PROVE  FALSE
      <4>1. IsState(c) /\ c.raised = "no"  BY <3>1 DEF Ready, Held
      <4>2. u.raised = c.raised  BY <3>1, <4>1, RunFields
      <4>. QED  BY <1>11, <4>1, <4>2
    <3>. QED  BY <1>9, <3>1 DEF RanWell
  <2>2. PICK w : w = [objects |-> u.objects, proxies |-> u.proxies,
                      raised |-> "no"]
    OBVIOUS
  <2>3. Held(plain, w)  BY <2>1, <2>2, HeldAfter
  <2>4. plain' = plain /\ Begin' = w
    BY <1>5, <1>11, <2>2, NextBegins
  <2>5. answer'.got = answer'.expected  BY <1>5, <1>11 DEF NoAnswer
  <2>. QED  BY <2>3, <2>4, <2>5 DEF AnswersMatchPandas
<1>. QED  BY <1>10, <1>11

\* The transfer blocks have nothing to do with the data.
LEMMA HeldBlocks ==
    ASSUME NEW objs, NEW s, Held(objs, s), NEW u, IsState(u),
           u.objects = s.objects, DOMAIN u.proxies = DOMAIN s.proxies,
           \A q \in DOMAIN s.proxies :
              /\ u.proxies[q].wrapped = s.proxies[q].wrapped
              /\ u.proxies[q].parents = s.proxies[q].parents
              /\ u.proxies[q].ids = s.proxies[q].ids
    PROVE  Held(objs, u)
<1>1. /\ Flat(s) /\ Distinct(s)
      /\ \A p \in DOMAIN s.proxies : ProxyInOrder(s, s.proxies[p])
  BY DEF Held, Tidy
<1>2. \A p \in DOMAIN s.proxies : \A i \in DOMAIN s.proxies[p].parents :
        s.proxies[p].parents[i] \in DOMAIN s.proxies
  BY HeldFacts
<1>3. Flat(u)  BY <1>1, <1>2 DEF Flat, Final
<1>4. Distinct(u)  BY <1>1 DEF Distinct, Final
<1>5. \A p \in DOMAIN u.proxies : ProxyInOrder(u, u.proxies[p])
  BY <1>1, <1>2 DEF ProxyInOrder
<1>6. Matches(objs, u)  BY DEF Held, Matches, Data, Final
<1>. QED  BY <1>3, <1>4, <1>5, <1>6 DEF Held, Tidy

\* A proxy gets another transfer block.
LEMMA HeldBlockSet ==
    ASSUME NEW objs, NEW s, Held(objs, s), s.raised = "no",
           NEW p \in DOMAIN s.proxies, NEW block \in Blocks
    PROVE  Held(objs, [objects |-> s.objects,
                       proxies |-> [s.proxies EXCEPT ![p].block = block],
                       raised |-> "no"])
<1>1. PICK more : more = [s.proxies EXCEPT ![p].block = block]  OBVIOUS
<1>2. PICK u : u = [objects |-> s.objects, proxies |-> more, raised |-> "no"]
  OBVIOUS
<1>3. /\ s.proxies[p] \in Proxies /\ s.proxies \in Seq(Proxies)
  BY StateFields DEF Held, IsState
<1>4. IsState(u)  BY <1>1, <1>2, BlockSet DEF Held
<1>5. u.objects = s.objects /\ u.proxies = more  BY <1>2
<1>6. PICK x : x = [s.proxies[p] EXCEPT !.block = block]  OBVIOUS
<1>7. /\ x.wrapped = s.proxies[p].wrapped /\ x.parents = s.proxies[p].parents
      /\ x.ids = s.proxies[p].ids
  BY <1>3, <1>6 DEF Proxies
<1>8. more = [s.proxies EXCEPT ![p] = x]  BY <1>1, <1>6
<1>9. /\ DOMAIN more = DOMAIN s.proxies
      /\ \A q \in DOMAIN s.proxies :
          more[q] = IF q = p THEN x ELSE s.proxies[q]
  BY <1>3, <1>8
<1>10. \A q \in DOMAIN s.proxies :
          /\ more[q].wrapped = s.proxies[q].wrapped
          /\ more[q].parents = s.proxies[q].parents
          /\ more[q].ids = s.proxies[q].ids
  BY <1>7, <1>9
<1>11. Held(objs, u)  BY <1>4, <1>5, <1>9, <1>10, HeldBlocks
<1>. QED  BY <1>1, <1>2, <1>11

\* The program sets a block.
LEMMA SetTransferBlockStateMatches ==
    ASSUME Held(plain, Begin), NEW p \in DOMAIN proxies, NEW block \in Blocks,
           SetTransferBlockState(p, block)
    PROVE  Held(plain', Begin') /\ AnswersMatchPandas'
<1>1. PICK s : s = Begin  OBVIOUS
<1>2. /\ Held(plain, s) /\ s.raised = "no" /\ s.proxies = proxies
      /\ s.objects = objects /\ p \in DOMAIN s.proxies
  BY <1>1, BeginFields
<1>3. PICK w : w = [objects |-> s.objects,
                    proxies |-> [s.proxies EXCEPT ![p].block = block],
                    raised |-> "no"]
  OBVIOUS
<1>4. Held(plain, w)  BY <1>2, <1>3, HeldBlockSet
<1>5. Begin' = w /\ plain' = plain /\ answer' = NoAnswer
  BY <1>2, <1>3, NextBegins DEF SetTransferBlockState, Untouched
<1>. QED  BY <1>4, <1>5 DEF AnswersMatchPandas, NoAnswer

\* The program forces a proxy to a library.
LEMMA ForceStateMatches ==
    ASSUME NeverReused,
           Held(plain, Begin), NEW p \in DOMAIN proxies, NEW world \in Worlds,
           ForceState(p, world)
    PROVE  Held(plain', Begin') /\ AnswersMatchPandas'
<1>1. PICK s : s = Begin  OBVIOUS
<1>2. /\ Held(plain, s) /\ s.raised = "no" /\ s.proxies = proxies
      /\ s.objects = objects /\ p \in DOMAIN s.proxies
      /\ IsState(s) /\ Tidy(s)
  BY <1>1, BeginFields DEF Held
<1>3. PICK c : c = Convert(s, p, world)  OBVIOUS
<1>4. Converted(Logs(s), s, c, world, {p})
  BY <1>2, <1>3, OneProxyConverted DEF ConvertedOne
<1>5. Preserves(s, c, world)  BY <1>2, <1>3, OneProxyPreserved
<1>6. Held(plain, c)  BY <1>2, <1>4, <1>5, HeldConverts
<1>7. p \in DOMAIN c.proxies  BY <1>2, <1>4 DEF Converted, Keeps
<1>8. plain' = plain /\ answer' = NoAnswer
  BY DEF ForceState, Untouched
<1>9. CASE c.raised = "no"
  <2>1. PICK block : block = IF world = "fast" THEN "to_slow" ELSE "to_fast"
    OBVIOUS
  <2>2. block \in Blocks  BY <2>1 DEF Blocks
  <2>3. PICK w : w = [objects |-> c.objects,
                      proxies |-> [c.proxies EXCEPT ![p].block = block],
                      raised |-> "no"]
    OBVIOUS
  <2>4. Held(plain, w)  BY <1>6, <1>7, <1>9, <2>2, <2>3, HeldBlockSet
  <2>5. Begin' = w
    BY <1>1, <1>3, <1>9, <2>1, <2>3, NextBegins DEF ForceState
  <2>. QED  BY <1>8, <2>4, <2>5 DEF AnswersMatchPandas, NoAnswer
<1>10. CASE c.raised # "no"
  <2>1. PICK w : w = [objects |-> c.objects, proxies |-> c.proxies,
                      raised |-> "no"]
    OBVIOUS
  <2>2. Held(plain, w)  BY <1>6, <2>1, HeldAfter
  <2>3. Begin' = w
    BY <1>1, <1>3, <1>10, <2>1, NextBegins DEF ForceState
  <2>. QED  BY <1>8, <2>2, <2>3 DEF AnswersMatchPandas, NoAnswer
<1>. QED  BY <1>9, <1>10

\* A proxy is copied through pickle.
LEMMA PickleMatches ==
    ASSUME Held(plain, Begin), NEW p \in DOMAIN proxies, Pickle(p)
    PROVE  Held(plain', Begin') /\ AnswersMatchPandas'
<1>1. PICK s : s = Begin  OBVIOUS
<1>2. /\ Held(plain, s) /\ s.raised = "no" /\ s.proxies = proxies
      /\ s.objects = objects /\ p \in DOMAIN s.proxies /\ IsState(s)
  BY <1>1, BeginFields DEF Held
<1>3. PICK w : w = Begin'  OBVIOUS
<1>4. PICK x : x = s.objects[s.proxies[p].wrapped]  OBVIOUS
<1>5. PICK y : y = plain[p]  OBVIOUS
<1>6. PICK z : z = [s.proxies[p] EXCEPT !.wrapped = Len(s.objects) + 1,
                                        !.block = "none"]
  OBVIOUS
<1>7. IsState(w)  BY <1>1, <1>2, <1>3, PickleKeeps
<1>8. /\ w.objects = Append(s.objects, x) /\ w.proxies = Append(s.proxies, z)
      /\ plain' = Append(plain, y) /\ answer' = NoAnswer
      /\ Final(s.proxies[p])
  BY <1>2, <1>3, <1>4, <1>5, <1>6, NextBegins DEF Pickle
<1>9. /\ p \in DOMAIN plain /\ y.looksAt = s.proxies[p].parents
      /\ s.proxies[p].parents = <<>> /\ x.looksAt = <<>> /\ y.log = x.log
      /\ IsObjects(plain) /\ ObjectsGood(plain)
  BY <1>2, <1>4, <1>5, <1>8, HeldFacts DEF Final
<1>10. y.world = "slow"  BY <1>2, <1>5 DEF Held, Matches
<1>11. /\ z.wrapped = Len(s.objects) + 1 /\ z.parents = <<>>
  <2>1. s.proxies[p] \in Proxies  BY <1>2, StateFields DEF IsState
  <2>. QED  BY <1>6, <1>9, <2>1 DEF Proxies
<1>12. LooksAtFinals(s, x, z)
  <2>1. DOMAIN x.looksAt = DOMAIN z.parents /\ DOMAIN z.parents = {}
    BY <1>9, <1>11
  <2>. QED  BY <2>1 DEF LooksAtFinals
<1>13. IsObjects(Append(plain, y)) /\ ObjectsGood(Append(plain, y))
  <2>1. PICK logs : plain \in Seq(Objects(logs))  BY <1>9 DEF IsObjects
  <2>2. y \in Objects(logs)  BY <1>5, <1>9, <2>1
  <2>3. NewGood(plain, y)
    <3>1. DOMAIN y.looksAt = {}  BY <1>9
    <3>. QED  BY <1>10, <3>1 DEF NewGood
  <2>4. /\ Append(plain, y) \in Seq(Objects(logs))
        /\ ObjectsGood(Append(plain, y))
    BY <1>9, <2>1, <2>2, <2>3, AddObject
  <2>. QED  BY <2>4 DEF IsObjects
<1>14. Held(Append(plain, y), w)
  BY <1>2, <1>7, <1>8, <1>9, <1>10, <1>11, <1>12, <1>13, HeldAppend
<1>. QED  BY <1>3, <1>8, <1>14 DEF AnswersMatchPandas, NoAnswer

\* At the start.
LEMMA InitMatches == Init => Held(plain, Begin) /\ AnswersMatchPandas
<1>. SUFFICES ASSUME Init PROVE Held(plain, Begin) /\ AnswersMatchPandas
  OBVIOUS
<1>1. PICK s : s = Begin  OBVIOUS
<1>2. IsState(s) /\ s.objects = objects /\ s.proxies = proxies
  BY <1>1, InitGood, BeginFields DEF IInv
<1>3. PICK n \in 1..InitialFrames :
        /\ objects = [f \in 1..n |-> Frame("fast", <<>>, FALSE)]
        /\ plain = [f \in 1..n |-> Frame("slow", <<>>, FALSE)]
        /\ proxies = [f \in 1..n |->
                         [wrapped |-> f, block |-> "none", parents |-> <<>>,
                          ids |-> <<>>, onFast |-> TRUE]]
  BY DEF Init
<1>4. n \in Nat  BY FastSlowAssumption
<1>5. PICK o : o = [world |-> "slow", log |-> <<>>, mixed |-> FALSE,
                    looksAt |-> <<>>]
  OBVIOUS
<1>6. plain = [f \in 1..n |-> o]  BY <1>3, <1>5 DEF Frame
<1>7. o \in Objects({<<>>})  BY <1>5 DEF Objects, Worlds
<1>8. plain \in Seq(Objects({<<>>})) /\ DOMAIN plain = 1..n
  <2>1. plain \in [1..n -> Objects({<<>>})]  BY <1>6, <1>7
  <2>. QED  BY <1>4, <2>1, FunctionIsSequence
<1>9. IsObjects(plain) /\ ObjectsGood(plain)
  <2>1. DOMAIN o.looksAt = {} /\ ~o.mixed  BY <1>5
  <2>2. \A f \in DOMAIN plain : plain[f] = o  BY <1>6
  <2>3. ObjectsGood(plain)  BY <2>1, <2>2 DEF ObjectsGood
  <2>. QED  BY <1>8, <2>3 DEF IsObjects
<1>10. /\ DOMAIN proxies = 1..n
       /\ \A p \in 1..n : /\ proxies[p].wrapped = p
                          /\ proxies[p].parents = <<>>
                          /\ objects[p].log = <<>> /\ objects[p].looksAt = <<>>
  BY <1>3 DEF Frame
<1>11. Tidy(s)
  <2>1. DOMAIN <<>> = {}  OBVIOUS
  <2>2. Flat(s)  BY <1>2, <1>10, <2>1 DEF Flat
  <2>3. Distinct(s)  BY <1>2, <1>10 DEF Distinct
  <2>4. \A p \in DOMAIN s.proxies : ProxyInOrder(s, s.proxies[p])
    BY <1>2, <1>10, <2>1 DEF ProxyInOrder
  <2>. QED  BY <2>2, <2>3, <2>4 DEF Tidy
<1>12. Matches(plain, s)
  BY <1>2, <1>5, <1>6, <1>8, <1>9, <1>10 DEF Matches, Data
<1>13. answer.got = answer.expected  BY DEF Init, NoAnswer
<1>. QED  BY <1>1, <1>2, <1>11, <1>12, <1>13 DEF Held, AnswersMatchPandas

\* The same.
LEMMA StutterMatches ==
    ASSUME Held(plain, Begin), AnswersMatchPandas, UNCHANGED vars
    PROVE  Held(plain', Begin') /\ AnswersMatchPandas'
<1>1. Begin' = Begin /\ plain' = plain /\ answer' = answer
  BY DEF vars, Begin
<1>. QED  BY <1>1 DEF AnswersMatchPandas

\* Every step matches plain pandas.
LEMMA NextMatches ==
    ASSUME NeverReused,
           Held(plain, Begin), ~Chaining, ~Debugging, Next
    PROVE  Held(plain', Begin') /\ AnswersMatchPandas'
<1>1. IsState(Begin)  BY DEF Held
<1>2. /\ \A args \in Arguments : Passed(args)
      /\ \A p \in DOMAIN proxies : Passed(<<p>>)
  BY <1>1, ArgumentsPassed
<1>3. ASSUME NEW p \in DOMAIN proxies, NEW support, Read(<<p>>, support)
      PROVE  Held(plain', Begin') /\ AnswersMatchPandas'
  <2>1. Call("read", <<p>>, support) /\ "read" \in Shapes
    BY <1>3 DEF Read, Shapes
  <2>2. Passed(<<p>>)  BY <1>2
  <2>. QED  BY <2>1, <2>2, CallMatches
<1>4. ASSUME NEW args \in Arguments, NEW support,
             \/ Write(args, support) \/ Compute(args, support)
             \/ Derive(args, support)
      PROVE  Held(plain', Begin') /\ AnswersMatchPandas'
  <2>1. PICK shape \in Shapes : Call(shape, args, support)
    BY <1>4 DEF Shapes, Write, Compute, Derive
  <2>2. Passed(args)  BY <1>2
  <2>. QED  BY <2>1, <2>2, CallMatches
<1>5. ASSUME NEW p \in DOMAIN proxies, NEW block \in UserBlocks,
             SetTransferBlockState(p, block)
      PROVE  Held(plain', Begin') /\ AnswersMatchPandas'
  BY <1>5, SetTransferBlockStateMatches, FastSlowAssumption
<1>6. ASSUME NEW p \in DOMAIN proxies, NEW world \in Worlds,
             ForceState(p, world)
      PROVE  Held(plain', Begin') /\ AnswersMatchPandas'
  BY <1>6, ForceStateMatches
<1>7. ASSUME NEW p \in DOMAIN proxies, Pickle(p)
      PROVE  Held(plain', Begin') /\ AnswersMatchPandas'
  BY <1>7, PickleMatches
<1>. QED  BY <1>3, <1>4, <1>5, <1>6, <1>7 DEF Next

\* The invariant of the programs that derive intermediates from final proxies
\* only, and the answers they get.
THEOREM MatchInvariance ==
    ASSUME NeverReused, ~Chaining, ~Debugging
    PROVE  Spec => [](IInv /\ MatchInv /\ AnswersMatchPandas)
<1>1. Init => Held(plain, Begin) /\ AnswersMatchPandas  BY InitMatches
<1>2. Held(plain, Begin) /\ AnswersMatchPandas /\ [Next]_vars
        => (Held(plain, Begin) /\ AnswersMatchPandas)'
  <2>1. Held(plain', Begin') = Held(plain, Begin)'  OBVIOUS
  <2>. QED  BY <2>1, NextMatches, StutterMatches
<1>3. Held(plain, Begin) => MatchInv  BY DEF Held, MatchInv
<1>. QED  BY <1>1, <1>2, <1>3, Invariance, PTL DEF Spec

\* If no id() is given twice, and cuDF raises before it writes, then whatever
\* such a program does, every frame holds exactly what it would hold under
\* pandas alone: the effect of every call that returned is there once and in
\* order, across transfers, fallbacks, failed calls and writes through indexers
\* (_fast_slow_function_call, fast_slow_proxy.py:1503-1589).
THEOREM FinalsCorrect ==
    ASSUME NeverReused, ~Chaining, ~Debugging
    PROVE  Spec => []FinalsMatchPandas
<1>1. IInv /\ MatchInv => FinalsMatchPandas
  <2>. SUFFICES ASSUME IInv, MatchInv PROVE FinalsMatchPandas  OBVIOUS
  <2>1. PICK s : s = Begin  OBVIOUS
  <2>2. Held(plain, s) /\ s.objects = objects /\ s.proxies = proxies
    BY <2>1, BeginFields DEF IInv, MatchInv, Held
  <2>3. ASSUME NEW p \in Finals
        PROVE  Contents(objects, proxies[p].wrapped) = Contents(plain, p)
    <3>1. p \in DOMAIN s.proxies /\ Fresh(s, p)
      BY <2>2 DEF Finals, Fresh
    <3>2. Contents(s.objects, s.proxies[p].wrapped) = Contents(plain, p)
      BY <2>2, <3>1, SameContents
    <3>. QED  BY <2>2, <3>2
  <2>. QED  BY <2>3 DEF FinalsMatchPandas
<1>. QED  BY <1>1, MatchInvariance, PTL

\* If no id() is given twice, and cuDF raises before it writes, every value
\* that such a program reads, from a frame or through an intermediate made long
\* before its parents were changed or transferred, is the one that pandas alone
\* would give at that point: an intermediate is repeated whenever it no longer
\* looks at what its parents wrap (_IntermediateProxy,
\* fast_slow_proxy.py:418-457).
THEOREM AnswersCorrect ==
    ASSUME NeverReused, ~Chaining, ~Debugging
    PROVE  Spec => []AnswersMatchPandas
BY MatchInvariance, PTL
=============================================================================
