------------------------ MODULE SpillableBufferProofs ------------------------
(***************************************************************************)
(* Proofs that the safety properties of SpillableBuffer hold for any       *)
(* number of threads, buffers and operations, any amount of device memory  *)
(* and any device limit, and that it implements DeviceStore: the locks,    *)
(* access contexts and spill loops amount to buffers that move between     *)
(* device and host in single steps, never while their pointer is lent.     *)
(***************************************************************************)
EXTENDS SpillableBuffer, TLAPS, FiniteSetTheorems

-----------------------------------------------------------------------------
(* The inductive invariant *)

Unspilling == {"ptr", "rawptr", "expose"}
SpillSteps == {"check", "copy", "clear", "mark"}
LoopSteps  == {"snapshot", "loop"} \cup SpillSteps
Moving     == {"copy", "clear", "mark"}

\* Which operation a thread can be in at which step.
StepsOfOps ==
    \A t \in Threads :
        /\ pc[t] \in {"ptr", "acquire", "touch"} => op[t] = "ptr"
        /\ pc[t] = "return" => op[t] = "rawptr"
        /\ pc[t] \in {"expose_lock", "expose_set"}
             => op[t] \in {"rawptr", "expose"}
        /\ pc[t] = "unspill" => op[t] \in Unspilling
        /\ pc[t] = "register" => op[t] = "new"
        /\ pc[t] = "alloc" => op[t] \in Unspilling \cup {"new"}
        /\ pc[t] \in LoopSteps /\ ret[t] = "oom"
             => op[t] \in Unspilling \cup {"new"}
        /\ pc[t] = "limit" => op[t] \in {"rawptr", "expose", "new"}
        /\ pc[t] = "idle" => op[t] = "none"

\* What the owner of an operation is.
OwnersOfOps ==
    \A t \in Threads :
        /\ op[t] \in Unspilling => cur[t] \in refs \cap buffers
        /\ op[t] = "new" => cur[t] \in Owners \ refs
        /\ op[t] = "new" /\ pc[t] \in {"limit", "end"} => cur[t] \in buffers
        /\ op[t] = "new" /\ pc[t] \in LoopSteps
             => (cur[t] \in buffers <=> ret[t] # "oom")
        /\ op[t] = "new" /\ pc[t] \in {"alloc", "register"}
             => cur[t] \notin buffers
        /\ op[t] = "new" => \A u \in Threads : cur[u] = cur[t] => u = t

\* References: the tuple of a loop and the contexts keep owners alive.
References ==
    /\ \A t \in Threads : \A i \in DOMAIN todo[t] : todo[t][i] \in buffers
    /\ \A t \in Threads : pc[t] \in SpillSteps => todo[t] # <<>>
    /\ \A o \in Owners : locks[o] # {} => o \in refs
    /\ refs \subseteq buffers

\* Who holds which lock.
LocksHeld ==
    \A t \in Threads :
        /\ pc[t] \in {"unspill", "expose_set"} => lock[cur[t]] = t
        /\ Carries(t, cur[t]) => lock[cur[t]] = t
        /\ pc[t] \in SpillSteps => lock[Victim(t)] = t

\* Where the data of each owner is.
Residency ==
    \A o \in Owners :
        /\ type[o] = "cpu" => ptr[o] = Null
        /\ type[o] = "gpu" /\ ptr[o] = Null
             => \E t \in Threads : pc[t] = "mark" /\ Victim(t) = o
        /\ type[o] = "gpu" /\ host[o]
             => \E t \in Threads : pc[t] \in {"clear", "mark"} /\ Victim(t) = o
        /\ exposed[o] => type[o] = "gpu"
        /\ o \notin buffers => ~host[o] /\ ~exposed[o]
        /\ o \notin buffers /\ type[o] = "gpu"
             => \E t \in Threads : pc[t] = "register" /\ cur[t] = o

\* What threads in the middle of a move rely on.
Moves ==
    \A t \in Threads :
        /\ pc[t] \in Moving => /\ locks[Victim(t)] = {}
                               /\ ~exposed[Victim(t)]
                               /\ type[Victim(t)] = "gpu"
        /\ pc[t] \in {"copy", "clear"} => ptr[Victim(t)] \in Slots
        /\ pc[t] = "mark" => ptr[Victim(t)] = Null
        /\ Carries(t, cur[t]) => type[cur[t]] = "cpu" /\ ~host[cur[t]]
        /\ pc[t] = "expose_set" => type[cur[t]] = "gpu"
        /\ pc[t] = "return" => exposed[cur[t]]
        /\ pc[t] = "touch" /\ t \in locks[cur[t]] => type[cur[t]] = "gpu"

\* Pointers in the hands of contexts.
Pinned ==
    \A t \in Threads, o \in Owners :
        got[t][o] # NoPtr => /\ t \in locks[o]
                             /\ got[t][o] = ptr[o]
                             /\ type[o] = "gpu"

\* The inductive invariant: the locking discipline, and where the data is at
\* every step of a move (spill, mark_exposed, ptr, spill_device_memory).
IInv ==
    /\ TypeOK
    /\ DeviceMemoryOwned
    /\ StepsOfOps
    /\ OwnersOfOps
    /\ References
    /\ LocksHeld
    /\ Residency
    /\ Moves
    /\ Pinned

-----------------------------------------------------------------------------
(* Lemmas about the operators of the model *)

\* Owners is finite, so the sets of buffers have a cardinality.
LEMMA UnspilledType ==
    ASSUME TypeOK
    PROVE  /\ Unspilled \in Nat
           /\ Cardinality(buffers) \in Nat
           /\ Cardinality(Owners) \in Nat
<1>1. /\ buffers \subseteq Owners
      /\ {o \in buffers : ~is_spilled(o)} \subseteq Owners
  BY DEF TypeOK
<1>2. /\ IsFiniteSet(buffers)
      /\ IsFiniteSet({o \in buffers : ~is_spilled(o)})
  BY <1>1, ConstantsAssumption, FS_Subset
<1>. QED  BY <1>2, ConstantsAssumption, FS_CardinalityType DEF Unspilled

\* Touching an owner reorders the access times.
LEMMA TouchedType ==
    ASSUME TypeOK, NEW o \in Owners
    PROVE  Touched(o) \in [Owners -> Int]
BY UnspilledType DEF TypeOK, Touched

\* The tuple the spill loop iterates over holds managed owners.
LEMMA ByAccessTimeType ==
    ASSUME TypeOK, NEW q \in ByAccessTime
    PROVE  /\ q \in Seq(Owners)
           /\ \A i \in DOMAIN q : q[i] \in buffers
<1>1. q \in [1..Cardinality(buffers) -> buffers] /\ buffers \subseteq Owners
  BY DEF ByAccessTime, TypeOK
<1>. QED  BY <1>1, UnspilledType

\* The head and the rest of a loop's tuple.
LEMMA VictimFacts ==
    ASSUME TypeOK, References, NEW t \in Threads, todo[t] # <<>>
    PROVE  /\ Victim(t) \in buffers
           /\ Victim(t) \in Owners
           /\ Tail(todo[t]) \in Seq(Owners)
           /\ \A i \in DOMAIN Tail(todo[t]) : Tail(todo[t])[i] \in buffers
<1>1. /\ todo[t] \in Seq(Owners)
      /\ \A i \in DOMAIN todo[t] : todo[t][i] \in buffers
      /\ buffers \subseteq Owners
  BY DEF TypeOK, References
<1>. QED  BY <1>1 DEF Victim

\* Residency depends on the threads in the middle of a move or a creation.
LEMMA ResidencyFrame ==
    ASSUME Residency,
           UNCHANGED <<type, ptr, host, exposed, buffers>>,
           \A u \in Threads : pc[u] \in {"clear", "mark", "register"}
             => pc'[u] = pc[u] /\ Victim(u)' = Victim(u) /\ cur'[u] = cur[u]
    PROVE  Residency'
BY DEF Residency

\* Thread t takes a step that is not part of a move, except perhaps that it
\* carries the data of a spilled buffer; the other threads stay where they are.
StepOutsideMoves(t) ==
    /\ UNCHANGED <<type, host, ptr, exposed, locks>>
    /\ \A u \in Threads \ {t} :
        /\ pc'[u] = pc[u] /\ op'[u] = op[u] /\ cur'[u] = cur[u]
        /\ todo'[u] = todo[u] /\ ret'[u] = ret[u]
    /\ pc'[t] \notin Moving \cup {"return"}
    /\ pc'[t] \in {"expose_set", "touch"} => type[cur'[t]] = "gpu"
    /\ Carries(t, cur[t])' => type[cur'[t]] = "cpu" /\ ~host[cur'[t]]

\* Such a step leaves the moves of the other threads alone.
LEMMA StepKeepsMoves ==
    ASSUME Moves, NEW t \in Threads, StepOutsideMoves(t)
    PROVE  Moves'
<1>1. \A u \in Threads \ {t} : /\ Victim(u)' = Victim(u)
                               /\ Carries(u, cur[u])' = Carries(u, cur[u])
  BY DEF StepOutsideMoves, Victim, Carries
<1>. QED  BY <1>1 DEF StepOutsideMoves, Moves, Moving

\* An operation that returns is such a step.
LEMMA FinishKeepsMoves ==
    ASSUME TypeOK, Moves, NEW t \in Threads, Finish(t),
           UNCHANGED <<type, host, ptr, exposed, locks>>
    PROVE  Moves'
<1>1. StepOutsideMoves(t)
  BY DEF Finish, Goto, TypeOK, StepOutsideMoves, Carries, Moving
<1>. QED  BY <1>1, StepKeepsMoves

-----------------------------------------------------------------------------
(* Every action keeps the invariant *)

\* Entering an access context keeps the invariant.
LEMMA EnterKeeps ==
    ASSUME IInv, NEW t \in Threads, NEW o \in Owners, Enter(t, o)
    PROVE  IInv'
<1>. USE DEF IInv, TypeOK, Steps, Ops, Enter, Idle, managerVars, callVars,
      loopVars, pointerVars
<1>1. TypeOK'  OBVIOUS
<1>2. DeviceMemoryOwned'  BY DEF DeviceMemoryOwned
<1>3. StepsOfOps'  BY DEF StepsOfOps, Unspilling, LoopSteps, SpillSteps
<1>4. OwnersOfOps'  BY DEF OwnersOfOps, Unspilling, LoopSteps, SpillSteps
<1>5. References'  BY DEF References, SpillSteps
<1>6. LocksHeld'  BY DEF LocksHeld, Carries, SpillSteps, Victim
<1>7. Residency'  BY DEF Residency, Victim
<1>8. Moves'
  BY ConstantsAssumption DEF Moves, Moving, Victim, Carries, OwnersOfOps,
       Unspilling, LoopSteps, SpillSteps, StepsOfOps, References, LocksHeld
<1>9. Pinned'  BY DEF Pinned
<1>. QED  BY <1>1, <1>2, <1>3, <1>4, <1>5, <1>6, <1>7, <1>8, <1>9

\* Serializing an unspilled buffer keeps the invariant.
LEMMA SerializeKeeps ==
    ASSUME IInv, NEW t \in Threads, NEW o \in Owners, Serialize(t, o)
    PROVE  IInv'
<1>. USE DEF IInv, TypeOK, Steps, Ops, Serialize, Idle, is_spilled,
      managerVars, callVars, loopVars
<1>1. TypeOK'  OBVIOUS
<1>2. DeviceMemoryOwned'  BY DEF DeviceMemoryOwned
<1>3. StepsOfOps'  BY DEF StepsOfOps, Unspilling, LoopSteps, SpillSteps
<1>4. OwnersOfOps'  BY DEF OwnersOfOps, Unspilling, LoopSteps, SpillSteps
<1>5. References'  BY DEF References, SpillSteps
<1>6. LocksHeld'  BY DEF LocksHeld, Carries, SpillSteps, Victim
<1>7. Residency'  BY DEF Residency, Victim
<1>8. Moves'
  BY ConstantsAssumption DEF Moves, Moving, Victim, Carries, OwnersOfOps,
       Unspilling, LoopSteps, SpillSteps, StepsOfOps, References, LocksHeld
<1>9. Pinned'  BY DEF Pinned
<1>. QED  BY <1>1, <1>2, <1>3, <1>4, <1>5, <1>6, <1>7, <1>8, <1>9

\* Leaving a context keeps the invariant.
LEMMA ExitKeeps ==
    ASSUME IInv, NEW t \in Threads, NEW o \in Owners, Exit(t, o)
    PROVE  IInv'
<1>. USE DEF IInv, TypeOK, Steps, Ops, Exit, Idle, managerVars, threadVars,
      callVars, loopVars
<1>1. TypeOK'  OBVIOUS
<1>2. DeviceMemoryOwned'  BY DEF DeviceMemoryOwned
<1>3. StepsOfOps'  BY DEF StepsOfOps, Unspilling, LoopSteps, SpillSteps
<1>4. OwnersOfOps'  BY DEF OwnersOfOps, Unspilling, LoopSteps, SpillSteps
<1>5. References'  BY DEF References, SpillSteps
<1>6. LocksHeld'  BY DEF LocksHeld, Carries, SpillSteps, Victim
<1>7. Residency'  BY DEF Residency, Victim
<1>8. Moves'  BY DEF Moves, Moving, Victim, Carries
<1>9. Pinned'  BY DEF Pinned
<1>. QED  BY <1>1, <1>2, <1>3, <1>4, <1>5, <1>6, <1>7, <1>8, <1>9

\* Calling ptr keeps the invariant.
LEMMA ReadPtrKeeps ==
    ASSUME IInv, NEW t \in Threads, NEW o \in Owners, ReadPtr(t, o)
    PROVE  IInv'
<1>. USE DEF IInv, TypeOK, Steps, Ops
<1>1. CASE locks[o] = {}
  <2>1. /\ Begin(t, o, "rawptr", "limit")
        /\ UNCHANGED <<ownerVars, managerVars, loopVars, pointerVars>>
        /\ o \in refs \cap buffers
    BY <1>1 DEF ReadPtr
  <2>. USE DEF Begin, ownerVars, managerVars, loopVars, pointerVars, Idle,
        Goto
  <2>2. TypeOK'  BY <2>1, <1>1
  <2>3. DeviceMemoryOwned'  BY <2>1, <1>1 DEF DeviceMemoryOwned
  <2>4. StepsOfOps'
    BY <2>1, <1>1 DEF StepsOfOps, Unspilling, LoopSteps, SpillSteps
  <2>5. OwnersOfOps'
    BY <2>1, <1>1 DEF OwnersOfOps, Unspilling, LoopSteps, SpillSteps
  <2>6. References'  BY <2>1, <1>1 DEF References, SpillSteps
  <2>7. LocksHeld'  BY <2>1, <1>1 DEF LocksHeld, Carries, SpillSteps, Victim
  <2>8. Residency'
    BY <2>1, <1>1 DEF Residency, Victim, Moves, Moving, Carries, LocksHeld,
         SpillSteps
  <2>9. Moves'
    <3>1. StepOutsideMoves(t)
      BY <2>1, <1>1 DEF StepOutsideMoves, Carries, Moving
    <3>. QED  BY <3>1, StepKeepsMoves
  <2>10. Pinned'  BY <2>1, <1>1 DEF Pinned
  <2>. QED  BY <2>2, <2>3, <2>4, <2>5, <2>6, <2>7, <2>8, <2>9, <2>10
<1>2. CASE locks[o] # {}
  <2>1. /\ Begin(t, o, "ptr", "ptr")
        /\ UNCHANGED <<ownerVars, managerVars, loopVars, pointerVars>>
        /\ o \in refs \cap buffers
    BY <1>2 DEF ReadPtr
  <2>. USE DEF Begin, ownerVars, managerVars, loopVars, pointerVars, Idle,
        Goto
  <2>2. TypeOK'  BY <2>1, <1>2
  <2>3. DeviceMemoryOwned'  BY <2>1, <1>2 DEF DeviceMemoryOwned
  <2>4. StepsOfOps'
    BY <2>1, <1>2 DEF StepsOfOps, Unspilling, LoopSteps, SpillSteps
  <2>5. OwnersOfOps'
    BY <2>1, <1>2 DEF OwnersOfOps, Unspilling, LoopSteps, SpillSteps
  <2>6. References'  BY <2>1, <1>2 DEF References, SpillSteps
  <2>7. LocksHeld'  BY <2>1, <1>2 DEF LocksHeld, Carries, SpillSteps, Victim
  <2>8. Residency'
    BY <2>1, <1>2 DEF Residency, Victim, Moves, Moving, Carries, LocksHeld,
         SpillSteps
  <2>9. Moves'
    <3>1. StepOutsideMoves(t)
      BY <2>1, <1>2 DEF StepOutsideMoves, Carries, Moving
    <3>. QED  BY <3>1, StepKeepsMoves
  <2>10. Pinned'  BY <2>1, <1>2 DEF Pinned
  <2>. QED  BY <2>2, <2>3, <2>4, <2>5, <2>6, <2>7, <2>8, <2>9, <2>10
<1>. QED  BY <1>1, <1>2

\* The second test of ptr keeps the invariant.
LEMMA PtrTestKeeps ==
    ASSUME IInv, NEW t \in Threads, PtrTest(t)
    PROVE  IInv'
<1>. USE DEF IInv, TypeOK, Steps, Ops, PtrTest, Goto, is_spilled, ownerVars,
      managerVars, callVars, loopVars, pointerVars
<1>1. TypeOK'  OBVIOUS
<1>2. DeviceMemoryOwned'  BY DEF DeviceMemoryOwned
<1>3. StepsOfOps'  BY DEF StepsOfOps, Unspilling, LoopSteps, SpillSteps
<1>4. OwnersOfOps'  BY DEF OwnersOfOps, Unspilling, LoopSteps, SpillSteps
<1>5. References'  BY DEF References, SpillSteps
<1>6. LocksHeld'  BY DEF LocksHeld, Carries, SpillSteps, Victim
<1>7. Residency'
  BY DEF Residency, Victim, Moves, Moving, Carries, LocksHeld, SpillSteps
<1>8. Moves'
  <2>1. StepOutsideMoves(t)  BY DEF StepOutsideMoves, Carries, Moving
  <2>. QED  BY <2>1, StepKeepsMoves
<1>9. Pinned'  BY DEF Pinned
<1>. QED  BY <1>1, <1>2, <1>3, <1>4, <1>5, <1>6, <1>7, <1>8, <1>9

\* Taking the lock to unspill keeps the invariant.
LEMMA AcquireKeeps ==
    ASSUME IInv, NEW t \in Threads, Acquire(t)
    PROVE  IInv'
<1>. USE DEF IInv, TypeOK, Steps, Ops, Acquire, Goto, managerVars, callVars,
      loopVars, pointerVars
<1>1. TypeOK'  OBVIOUS
<1>2. DeviceMemoryOwned'  BY DEF DeviceMemoryOwned
<1>3. StepsOfOps'  BY DEF StepsOfOps, Unspilling, LoopSteps, SpillSteps
<1>4. OwnersOfOps'  BY DEF OwnersOfOps, Unspilling, LoopSteps, SpillSteps
<1>5. References'  BY DEF References, SpillSteps
<1>6. LocksHeld'
  BY ConstantsAssumption DEF LocksHeld, Carries, SpillSteps, Victim,
       OwnersOfOps, Unspilling, LoopSteps, StepsOfOps
<1>7. Residency'
  BY DEF Residency, Victim, Moves, Moving, Carries, LocksHeld, SpillSteps
<1>8. Moves'
  <2>1. StepOutsideMoves(t)  BY DEF StepOutsideMoves, Carries, Moving
  <2>. QED  BY <2>1, StepKeepsMoves
<1>9. Pinned'  BY DEF Pinned
<1>. QED  BY <1>1, <1>2, <1>3, <1>4, <1>5, <1>6, <1>7, <1>8, <1>9

\* Returning from ptr with a spill lock around keeps the invariant.
LEMMA PtrTouchKeeps ==
    ASSUME IInv, NEW t \in Threads, PtrTouch(t)
    PROVE  IInv'
<1>1. Touched(cur[t]) \in [Owners -> Int]
  BY TouchedType DEF IInv, PtrTouch, StepsOfOps, OwnersOfOps, TypeOK, Unspilling
<1>. USE DEF IInv, TypeOK, Steps, Ops
<1>2. CASE t \in locks[cur[t]]
  <2>1. /\ pc[t] = "touch" /\ Finish(t)
        /\ last' = Touched(cur[t])
        /\ got' = [got EXCEPT ![t][cur[t]] = ptr[cur[t]]]
        /\ UNCHANGED <<lock, type, host, ptr, exposed, locks, managerVars,
                       nops, raw>>
    BY <1>2 DEF PtrTouch, Deliver
  <2>. USE DEF Finish, managerVars, Goto
  <2>2. TypeOK'
    BY <1>1, <2>1, <1>2 DEF OwnersOfOps, Unspilling, LoopSteps, SpillSteps,
         StepsOfOps
  <2>3. DeviceMemoryOwned'  BY <1>1, <2>1, <1>2 DEF DeviceMemoryOwned
  <2>4. StepsOfOps'
    BY <1>1, <2>1, <1>2 DEF StepsOfOps, Unspilling, LoopSteps, SpillSteps
  <2>5. OwnersOfOps'
    BY <1>1, <2>1, <1>2, ConstantsAssumption DEF OwnersOfOps, Unspilling,
         LoopSteps, SpillSteps
  <2>6. References'  BY <1>1, <2>1, <1>2 DEF References, SpillSteps
  <2>7. LocksHeld'
    BY <1>1, <2>1, <1>2 DEF LocksHeld, Carries, SpillSteps, Victim
  <2>8. Residency'  BY <1>1, <2>1, <1>2 DEF Residency, Victim
  <2>9. Moves'  BY <2>1, FinishKeepsMoves
  <2>10. Pinned'
    BY <1>1, <2>1, <1>2 DEF Pinned, Residency, Victim, Moves, Moving, Carries,
         LocksHeld, SpillSteps
  <2>. QED  BY <2>2, <2>3, <2>4, <2>5, <2>6, <2>7, <2>8, <2>9, <2>10
<1>3. CASE t \notin locks[cur[t]]
  <2>1. /\ pc[t] = "touch" /\ Finish(t)
        /\ last' = Touched(cur[t])
        /\ raw' = [raw EXCEPT ![cur[t]] = @ \cup {ptr[cur[t]]}]
        /\ UNCHANGED <<lock, type, host, ptr, exposed, locks, managerVars,
                       nops, got>>
    BY <1>3 DEF PtrTouch, Deliver
  <2>. USE DEF Finish, managerVars, Goto
  <2>2. TypeOK'
    BY <1>1, <2>1, <1>3 DEF OwnersOfOps, Unspilling, LoopSteps, SpillSteps,
         StepsOfOps
  <2>3. DeviceMemoryOwned'  BY <1>1, <2>1, <1>3 DEF DeviceMemoryOwned
  <2>4. StepsOfOps'
    BY <1>1, <2>1, <1>3 DEF StepsOfOps, Unspilling, LoopSteps, SpillSteps
  <2>5. OwnersOfOps'
    BY <1>1, <2>1, <1>3, ConstantsAssumption DEF OwnersOfOps, Unspilling,
         LoopSteps, SpillSteps
  <2>6. References'  BY <1>1, <2>1, <1>3 DEF References, SpillSteps
  <2>7. LocksHeld'
    BY <1>1, <2>1, <1>3 DEF LocksHeld, Carries, SpillSteps, Victim
  <2>8. Residency'  BY <1>1, <2>1, <1>3 DEF Residency, Victim
  <2>9. Moves'  BY <2>1, FinishKeepsMoves
  <2>10. Pinned'  BY <1>1, <2>1, <1>3 DEF Pinned
  <2>. QED  BY <2>2, <2>3, <2>4, <2>5, <2>6, <2>7, <2>8, <2>9, <2>10
<1>. QED  BY <1>2, <1>3

\* Calling mark_exposed keeps the invariant.
LEMMA MarkExposedKeeps ==
    ASSUME IInv, NEW t \in Threads, NEW o \in Owners, MarkExposed(t, o)
    PROVE  IInv'
<1>. USE DEF IInv, TypeOK, Steps, Ops, MarkExposed, Begin, ownerVars,
      managerVars, loopVars, pointerVars, Idle, Goto
<1>1. TypeOK'  OBVIOUS
<1>2. DeviceMemoryOwned'  BY DEF DeviceMemoryOwned
<1>3. StepsOfOps'  BY DEF StepsOfOps, Unspilling, LoopSteps, SpillSteps
<1>4. OwnersOfOps'  BY DEF OwnersOfOps, Unspilling, LoopSteps, SpillSteps
<1>5. References'  BY DEF References, SpillSteps
<1>6. LocksHeld'  BY DEF LocksHeld, Carries, SpillSteps, Victim
<1>7. Residency'
  BY DEF Residency, Victim, Moves, Moving, Carries, LocksHeld, SpillSteps
<1>8. Moves'
  <2>1. StepOutsideMoves(t)  BY DEF StepOutsideMoves, Carries, Moving
  <2>. QED  BY <2>1, StepKeepsMoves
<1>9. Pinned'  BY DEF Pinned
<1>. QED  BY <1>1, <1>2, <1>3, <1>4, <1>5, <1>6, <1>7, <1>8, <1>9

\* Taking the lock to expose keeps the invariant.
LEMMA ExposeLockKeeps ==
    ASSUME IInv, NEW t \in Threads, ExposeLock(t)
    PROVE  IInv'
<1>. USE DEF IInv, TypeOK, Steps, Ops, ExposeLock, Goto, managerVars,
      callVars, loopVars, pointerVars
<1>1. TypeOK'  OBVIOUS
<1>2. DeviceMemoryOwned'  BY DEF DeviceMemoryOwned
<1>3. StepsOfOps'  BY DEF StepsOfOps, Unspilling, LoopSteps, SpillSteps
<1>4. OwnersOfOps'  BY DEF OwnersOfOps, Unspilling, LoopSteps, SpillSteps
<1>5. References'  BY DEF References, SpillSteps
<1>6. LocksHeld'
  BY ConstantsAssumption DEF LocksHeld, Carries, SpillSteps, Victim,
       OwnersOfOps, Unspilling, LoopSteps, StepsOfOps
<1>7. Residency'
  BY DEF Residency, Victim, Moves, Moving, Carries, LocksHeld, SpillSteps
<1>8. Moves'
  <2>1. StepOutsideMoves(t)  BY DEF StepOutsideMoves, Carries, Moving
  <2>. QED  BY <2>1, StepKeepsMoves
<1>9. Pinned'  BY DEF Pinned
<1>. QED  BY <1>1, <1>2, <1>3, <1>4, <1>5, <1>6, <1>7, <1>8, <1>9

\* Setting _exposed keeps the invariant.
LEMMA ExposeSetKeeps ==
    ASSUME IInv, NEW t \in Threads, ExposeSet(t)
    PROVE  IInv'
<1>1. Touched(cur[t]) \in [Owners -> Int]
  BY TouchedType DEF IInv, ExposeSet, StepsOfOps, OwnersOfOps, TypeOK,
       Unspilling
<1>. USE DEF IInv, TypeOK, Steps, Ops
<1>2. CASE op[t] = "rawptr"
  <2>1. /\ pc[t] = "expose_set" /\ Goto(t, "return")
        /\ exposed' = [exposed EXCEPT ![cur[t]] = TRUE]
        /\ last' = Touched(cur[t])
        /\ lock' = [lock EXCEPT ![cur[t]] = Null]
        /\ UNCHANGED <<type, host, ptr, locks, managerVars, nops,
                       pointerVars, callVars, loopVars>>
    BY <1>2 DEF ExposeSet, Goto
  <2>. USE DEF Goto, managerVars, pointerVars, callVars, loopVars
  <2>2. TypeOK'  BY <1>1, <2>1, <1>2
  <2>3. DeviceMemoryOwned'  BY <1>1, <2>1, <1>2 DEF DeviceMemoryOwned
  <2>4. StepsOfOps'
    BY <1>1, <2>1, <1>2 DEF StepsOfOps, Unspilling, LoopSteps, SpillSteps
  <2>5. OwnersOfOps'
    BY <1>1, <2>1, <1>2 DEF OwnersOfOps, Unspilling, LoopSteps, SpillSteps
  <2>6. References'  BY <1>1, <2>1, <1>2 DEF References, SpillSteps
  <2>7. LocksHeld'
    BY <1>1, <2>1, <1>2 DEF LocksHeld, Carries, SpillSteps, Victim
  <2>8. Residency'
    BY <1>1, <2>1, <1>2 DEF Residency, Victim, DeviceMemoryOwned, StepsOfOps,
         Unspilling, LoopSteps, SpillSteps, OwnersOfOps, References,
         LocksHeld, Carries, Moves, Moving, Pinned
  <2>9. Moves'
    BY <1>1, <2>1, <1>2, SMTT(30) DEF Moves, Moving, Victim, Carries,
         OwnersOfOps, Unspilling, LoopSteps, SpillSteps, StepsOfOps,
         References, LocksHeld
  <2>10. Pinned'  BY <1>1, <2>1, <1>2 DEF Pinned
  <2>. QED  BY <2>2, <2>3, <2>4, <2>5, <2>6, <2>7, <2>8, <2>9, <2>10
<1>3. CASE op[t] # "rawptr"
  <2>1. /\ pc[t] = "expose_set" /\ Finish(t)
        /\ exposed' = [exposed EXCEPT ![cur[t]] = TRUE]
        /\ last' = Touched(cur[t])
        /\ lock' = [lock EXCEPT ![cur[t]] = Null]
        /\ UNCHANGED <<type, host, ptr, locks, managerVars, nops,
                       pointerVars>>
    BY <1>3 DEF ExposeSet, Goto
  <2>. USE DEF Finish, managerVars, pointerVars, Goto
  <2>2. TypeOK'
    BY <1>1, <2>1, <1>3 DEF OwnersOfOps, Unspilling, LoopSteps, SpillSteps,
         StepsOfOps
  <2>3. DeviceMemoryOwned'  BY <1>1, <2>1, <1>3 DEF DeviceMemoryOwned
  <2>4. StepsOfOps'
    BY <1>1, <2>1, <1>3 DEF StepsOfOps, Unspilling, LoopSteps, SpillSteps
  <2>5. OwnersOfOps'
    BY <1>1, <2>1, <1>3, ConstantsAssumption DEF OwnersOfOps, Unspilling,
         LoopSteps, SpillSteps
  <2>6. References'  BY <1>1, <2>1, <1>3 DEF References, SpillSteps
  <2>7. LocksHeld'
    BY <1>1, <2>1, <1>3 DEF LocksHeld, Carries, SpillSteps, Victim
  <2>8. Residency'
    BY <1>1, <2>1, <1>3 DEF Residency, Victim, DeviceMemoryOwned, StepsOfOps,
         Unspilling, LoopSteps, SpillSteps, OwnersOfOps, References,
         LocksHeld, Carries, Moves, Moving, Pinned
  <2>9. Moves'
    BY <1>1, <2>1, <1>3, SMTT(30) DEF Moves, Moving, Victim, Carries,
         OwnersOfOps, Unspilling, LoopSteps, SpillSteps, StepsOfOps,
         References, LocksHeld
  <2>10. Pinned'  BY <1>1, <2>1, <1>3 DEF Pinned
  <2>. QED  BY <2>2, <2>3, <2>4, <2>5, <2>6, <2>7, <2>8, <2>9, <2>10
<1>. QED  BY <1>2, <1>3

\* Returning the pointer of an exposed buffer keeps the invariant.
LEMMA PtrReturnKeeps ==
    ASSUME IInv, NEW t \in Threads, PtrReturn(t)
    PROVE  IInv'
<1>. USE DEF IInv, TypeOK, Steps, Ops
<1>1. CASE t \in locks[cur[t]]
  <2>1. /\ pc[t] = "return" /\ Finish(t)
        /\ got' = [got EXCEPT ![t][cur[t]] = ptr[cur[t]]]
        /\ UNCHANGED <<ownerVars, managerVars, nops, raw>>
    BY <1>1 DEF PtrReturn, Deliver
  <2>. USE DEF Finish, ownerVars, managerVars, Goto
  <2>2. TypeOK'
    BY <2>1, <1>1 DEF OwnersOfOps, Unspilling, LoopSteps, SpillSteps,
         StepsOfOps
  <2>3. DeviceMemoryOwned'  BY <2>1, <1>1 DEF DeviceMemoryOwned
  <2>4. StepsOfOps'
    BY <2>1, <1>1 DEF StepsOfOps, Unspilling, LoopSteps, SpillSteps
  <2>5. OwnersOfOps'
    BY <2>1, <1>1, ConstantsAssumption DEF OwnersOfOps, Unspilling, LoopSteps,
         SpillSteps
  <2>6. References'  BY <2>1, <1>1 DEF References, SpillSteps
  <2>7. LocksHeld'  BY <2>1, <1>1 DEF LocksHeld, Carries, SpillSteps, Victim
  <2>8. Residency'  BY <2>1, <1>1 DEF Residency, Victim
  <2>9. Moves'  BY <2>1, FinishKeepsMoves
  <2>10. Pinned'
    BY <2>1, <1>1 DEF Pinned, Residency, Victim, Moves, Moving, Carries,
         LocksHeld, SpillSteps
  <2>. QED  BY <2>2, <2>3, <2>4, <2>5, <2>6, <2>7, <2>8, <2>9, <2>10
<1>2. CASE t \notin locks[cur[t]]
  <2>1. /\ pc[t] = "return" /\ Finish(t)
        /\ raw' = [raw EXCEPT ![cur[t]] = @ \cup {ptr[cur[t]]}]
        /\ UNCHANGED <<ownerVars, managerVars, nops, got>>
    BY <1>2 DEF PtrReturn, Deliver
  <2>. USE DEF Finish, ownerVars, managerVars, Goto
  <2>2. TypeOK'
    BY <2>1, <1>2 DEF OwnersOfOps, Unspilling, LoopSteps, SpillSteps,
         StepsOfOps
  <2>3. DeviceMemoryOwned'  BY <2>1, <1>2 DEF DeviceMemoryOwned
  <2>4. StepsOfOps'
    BY <2>1, <1>2 DEF StepsOfOps, Unspilling, LoopSteps, SpillSteps
  <2>5. OwnersOfOps'
    BY <2>1, <1>2, ConstantsAssumption DEF OwnersOfOps, Unspilling, LoopSteps,
         SpillSteps
  <2>6. References'  BY <2>1, <1>2 DEF References, SpillSteps
  <2>7. LocksHeld'  BY <2>1, <1>2 DEF LocksHeld, Carries, SpillSteps, Victim
  <2>8. Residency'  BY <2>1, <1>2 DEF Residency, Victim
  <2>9. Moves'  BY <2>1, FinishKeepsMoves
  <2>10. Pinned'  BY <2>1, <1>2 DEF Pinned
  <2>. QED  BY <2>2, <2>3, <2>4, <2>5, <2>6, <2>7, <2>8, <2>9, <2>10
<1>. QED  BY <1>1, <1>2

\* Taking the host copy, or finding the buffer on the device, keeps the
\* invariant.
LEMMA UnspillKeeps ==
    ASSUME IInv, NEW t \in Threads, Unspill(t)
    PROVE  IInv'
<1>. USE DEF IInv, TypeOK, Steps, Ops
<1>1. CASE is_spilled(cur[t])
  <2>1. /\ pc[t] = "unspill" /\ Goto(t, "alloc")
        /\ host' = [host EXCEPT ![cur[t]] = FALSE]
        /\ UNCHANGED <<lock, type, ptr, exposed, locks, last, managerVars,
                       callVars, loopVars, nops, pointerVars>>
    BY <1>1 DEF Unspill, Goto
  <2>. USE DEF Goto, managerVars, callVars, loopVars, pointerVars, is_spilled
  <2>2. TypeOK'  BY <2>1, <1>1
  <2>3. DeviceMemoryOwned'  BY <2>1, <1>1 DEF DeviceMemoryOwned
  <2>4. StepsOfOps'
    BY <2>1, <1>1 DEF StepsOfOps, Unspilling, LoopSteps, SpillSteps
  <2>5. OwnersOfOps'
    BY <2>1, <1>1 DEF OwnersOfOps, Unspilling, LoopSteps, SpillSteps,
         StepsOfOps
  <2>6. References'  BY <2>1, <1>1 DEF References, SpillSteps
  <2>7. LocksHeld'  BY <2>1, <1>1 DEF LocksHeld, Carries, SpillSteps, Victim
  <2>8. Residency'  BY <2>1, <1>1 DEF Residency, Victim
  <2>9. Moves'
    BY <2>1, <1>1 DEF Moves, Moving, Victim, Carries, OwnersOfOps, Unspilling,
         LoopSteps, SpillSteps, StepsOfOps, References, LocksHeld
  <2>10. Pinned'  BY <2>1, <1>1 DEF Pinned
  <2>. QED  BY <2>2, <2>3, <2>4, <2>5, <2>6, <2>7, <2>8, <2>9, <2>10
<1>2. CASE ~is_spilled(cur[t])
  <2>1. /\ pc[t] = "unspill"
        /\ pc' = [pc EXCEPT ![t] = AfterUnspill(t)]
        /\ lock' = [lock EXCEPT ![cur[t]] = LockAfterUnspill(t)]
        /\ UNCHANGED <<host, type, ptr, exposed, locks, last, managerVars,
                       callVars, loopVars, nops, pointerVars>>
    BY <1>2 DEF Unspill, Goto
  <2>. USE DEF AfterUnspill, LockAfterUnspill, managerVars, callVars,
        loopVars, pointerVars, is_spilled
  <2>2. TypeOK'  BY <2>1, <1>2
  <2>3. DeviceMemoryOwned'  BY <2>1, <1>2 DEF DeviceMemoryOwned
  <2>4. StepsOfOps'
    BY <2>1, <1>2 DEF StepsOfOps, Unspilling, LoopSteps, SpillSteps
  <2>5. OwnersOfOps'
    BY <2>1, <1>2 DEF OwnersOfOps, Unspilling, LoopSteps, SpillSteps
  <2>6. References'  BY <2>1, <1>2 DEF References, SpillSteps
  <2>7. LocksHeld'  BY <2>1, <1>2 DEF LocksHeld, Carries, SpillSteps, Victim
  <2>8. Residency'
    BY <2>1, <1>2 DEF Residency, Victim, Moves, Moving, Carries, LocksHeld,
         SpillSteps
  <2>9. Moves'
    <3>1. StepOutsideMoves(t)
      BY <2>1, <1>2 DEF StepOutsideMoves, Carries, Moving
    <3>. QED  BY <3>1, StepKeepsMoves
  <2>10. Pinned'  BY <2>1, <1>2 DEF Pinned
  <2>. QED  BY <2>2, <2>3, <2>4, <2>5, <2>6, <2>7, <2>8, <2>9, <2>10
<1>. QED  BY <1>1, <1>2

\* An unspill that raises an error keeps the invariant.
LEMMA UnspillRaisesKeeps ==
    ASSUME IInv, NEW t \in Threads, UnspillRaises(t)
    PROVE  IInv'
<1>. USE DEF IInv, TypeOK, Steps, Ops, UnspillRaises, is_spilled, Finish,
      managerVars, pointerVars, Goto
<1>1. TypeOK'
  BY DEF OwnersOfOps, Unspilling, LoopSteps, SpillSteps, StepsOfOps
<1>2. DeviceMemoryOwned'  BY DEF DeviceMemoryOwned
<1>3. StepsOfOps'  BY DEF StepsOfOps, Unspilling, LoopSteps, SpillSteps
<1>4. OwnersOfOps'
  BY ConstantsAssumption DEF OwnersOfOps, Unspilling, LoopSteps, SpillSteps
<1>5. References'  BY DEF References, SpillSteps
<1>6. LocksHeld'  BY DEF LocksHeld, Carries, SpillSteps, Victim
<1>7. Residency'  BY DEF Residency, Victim
<1>8. Moves'  BY FinishKeepsMoves
<1>9. Pinned'  BY DEF Pinned
<1>. QED  BY <1>1, <1>2, <1>3, <1>4, <1>5, <1>6, <1>7, <1>8, <1>9

\* A successful allocation keeps the invariant.
LEMMA AllocKeeps ==
    ASSUME IInv, NEW t \in Threads, Alloc(t)
    PROVE  IInv'
<1>1. PICK s \in Slots : /\ mem[s] = Null
                      /\ mem' = [mem EXCEPT ![s] = cur[t]]
                      /\ ptr' = [ptr EXCEPT ![cur[t]] = s]
  BY DEF Alloc
<1>. USE DEF IInv, TypeOK, Steps, Ops
<1>2. CASE op[t] = "new"
  <2>1. /\ pc[t] = "alloc" /\ Goto(t, "register")
        /\ mem[s] = Null
        /\ mem' = [mem EXCEPT ![s] = cur[t]]
        /\ ptr' = [ptr EXCEPT ![cur[t]] = s]
        /\ type' = [type EXCEPT ![cur[t]] = "gpu"]
        /\ UNCHANGED <<lock, host, exposed, locks, last, buffers, refs,
                       callVars, loopVars, nops, pointerVars>>
    BY <1>1, <1>2 DEF Alloc, Moved, Goto
  <2>2. /\ cur[t] \in Owners /\ type[cur[t]] = "cpu"
        /\ ptr[cur[t]] = Null /\ ~host[cur[t]]
    BY <1>2, <2>1 DEF IInv, TypeOK, OwnersOfOps, Residency
  <2>. USE DEF Goto, callVars, loopVars, pointerVars
  <2>3. TypeOK'
    BY <1>1, <2>1, <2>2, <1>2, ConstantsAssumption DEF OwnersOfOps,
         Unspilling, LoopSteps, SpillSteps, StepsOfOps
  <2>4. DeviceMemoryOwned'
    BY <1>1, <2>1, <2>2, <1>2, ConstantsAssumption DEF DeviceMemoryOwned
  <2>5. StepsOfOps'
    BY <1>1, <2>1, <2>2, <1>2, ConstantsAssumption DEF StepsOfOps, Unspilling,
         LoopSteps, SpillSteps
  <2>6. OwnersOfOps'
    BY <1>1, <2>1, <2>2, <1>2, ConstantsAssumption DEF OwnersOfOps,
         Unspilling, LoopSteps, SpillSteps
  <2>7. References'
    BY <1>1, <2>1, <2>2, <1>2, ConstantsAssumption DEF References, SpillSteps
  <2>8. LocksHeld'
    BY <1>1, <2>1, <2>2, <1>2, ConstantsAssumption DEF LocksHeld, Carries,
         SpillSteps, Victim
  <2>9. Residency'
    BY <1>1, <2>1, <2>2, <1>2, ConstantsAssumption DEF Residency, Victim,
         OwnersOfOps, Unspilling, LoopSteps, SpillSteps, StepsOfOps,
         References, LocksHeld, Carries
  <2>10. Moves'
    BY <1>1, <2>1, <2>2, <1>2, ConstantsAssumption DEF Moves, Moving, Victim,
         Carries, OwnersOfOps, Unspilling, LoopSteps, SpillSteps, StepsOfOps,
         References, LocksHeld
  <2>11. Pinned'
    BY <1>1, <2>1, <2>2, <1>2, ConstantsAssumption DEF Pinned, OwnersOfOps,
         Unspilling, LoopSteps, SpillSteps, StepsOfOps, References, LocksHeld,
         Carries, Victim
  <2>. QED  BY <2>3, <2>4, <2>5, <2>6, <2>7, <2>8, <2>9, <2>10, <2>11
<1>3. CASE op[t] # "new"
  <2>1. /\ pc[t] = "alloc"
        /\ pc' = [pc EXCEPT ![t] = AfterUnspill(t)]
        /\ mem[s] = Null
        /\ mem' = [mem EXCEPT ![s] = cur[t]]
        /\ ptr' = [ptr EXCEPT ![cur[t]] = s]
        /\ type' = [type EXCEPT ![cur[t]] = "gpu"]
        /\ lock' = [lock EXCEPT ![cur[t]] = LockAfterUnspill(t)]
        /\ UNCHANGED <<host, exposed, locks, last, buffers, refs, callVars,
                       loopVars, nops, pointerVars>>
    BY <1>1, <1>3 DEF Alloc, Moved, Goto
  <2>2. /\ cur[t] \in Owners /\ type[cur[t]] = "cpu"
        /\ ptr[cur[t]] = Null /\ ~host[cur[t]]
    BY <1>3, <2>1 DEF IInv, TypeOK, OwnersOfOps, StepsOfOps, Residency, Moves,
         Carries, Unspilling
  <2>. USE DEF AfterUnspill, LockAfterUnspill, callVars, loopVars, pointerVars
  <2>3. TypeOK'
    BY <1>1, <2>1, <2>2, <1>3, ConstantsAssumption DEF OwnersOfOps,
         Unspilling, LoopSteps, SpillSteps, StepsOfOps
  <2>4. DeviceMemoryOwned'
    BY <1>1, <2>1, <2>2, <1>3, ConstantsAssumption DEF DeviceMemoryOwned
  <2>5. StepsOfOps'
    BY <1>1, <2>1, <2>2, <1>3, ConstantsAssumption DEF StepsOfOps, Unspilling,
         LoopSteps, SpillSteps
  <2>6. OwnersOfOps'
    BY <1>1, <2>1, <2>2, <1>3, ConstantsAssumption DEF OwnersOfOps,
         Unspilling, LoopSteps, SpillSteps
  <2>7. References'
    BY <1>1, <2>1, <2>2, <1>3, ConstantsAssumption DEF References, SpillSteps
  <2>8. LocksHeld'
    BY <1>1, <2>1, <2>2, <1>3, ConstantsAssumption DEF LocksHeld, Carries,
         SpillSteps, Victim
  <2>9. Residency'
    BY <1>1, <2>1, <2>2, <1>3, ConstantsAssumption DEF Residency, Victim,
         DeviceMemoryOwned, StepsOfOps, Unspilling, LoopSteps, SpillSteps,
         OwnersOfOps, References, LocksHeld, Carries, Moves, Moving, Pinned
  <2>10. Moves'
    BY <1>1, <2>1, <2>2, <1>3, ConstantsAssumption DEF Moves, Moving, Victim,
         Carries, OwnersOfOps, Unspilling, LoopSteps, SpillSteps, StepsOfOps,
         References, LocksHeld
  <2>11. Pinned'
    BY <1>1, <2>1, <2>2, <1>3, ConstantsAssumption DEF Pinned, Residency,
         Victim, Moves, Moving, Carries, LocksHeld, SpillSteps
  <2>. QED  BY <2>3, <2>4, <2>5, <2>6, <2>7, <2>8, <2>9, <2>10, <2>11
<1>. QED  BY <1>2, <1>3

\* Calling the out-of-memory handler keeps the invariant.
LEMMA AllocFailsKeeps ==
    ASSUME IInv, NEW t \in Threads, AllocFails(t)
    PROVE  IInv'
<1>. USE DEF IInv, TypeOK, Steps, Ops, AllocFails, CallSpill, Goto, ownerVars,
      managerVars, callVars, pointerVars
<1>1. TypeOK'  OBVIOUS
<1>2. DeviceMemoryOwned'  BY DEF DeviceMemoryOwned
<1>3. StepsOfOps'  BY DEF StepsOfOps, Unspilling, LoopSteps, SpillSteps
<1>4. OwnersOfOps'  BY DEF OwnersOfOps, Unspilling, LoopSteps, SpillSteps
<1>5. References'  BY DEF References, SpillSteps
<1>6. LocksHeld'  BY DEF LocksHeld, Carries, SpillSteps, Victim
<1>7. Residency'
  BY DEF Residency, Victim, Moves, Moving, Carries, LocksHeld, SpillSteps
<1>8. Moves'
  <2>1. StepOutsideMoves(t)  BY DEF StepOutsideMoves, Carries, Moving, Moves
  <2>. QED  BY <2>1, StepKeepsMoves
<1>9. Pinned'  BY DEF Pinned
<1>. QED  BY <1>1, <1>2, <1>3, <1>4, <1>5, <1>6, <1>7, <1>8, <1>9

\* SpillManager.add keeps the invariant.
LEMMA RegisterKeeps ==
    ASSUME IInv, NEW t \in Threads, Register(t)
    PROVE  IInv'
<1>1. Touched(cur[t]) \in [Owners -> Int]
  BY TouchedType DEF IInv, Register, StepsOfOps, OwnersOfOps, TypeOK, Unspilling
<1>. USE DEF IInv, TypeOK, Steps, Ops, Register, Goto, callVars, loopVars,
      pointerVars
<1>2. TypeOK'
  BY <1>1 DEF OwnersOfOps, Unspilling, LoopSteps, SpillSteps, StepsOfOps
<1>3. DeviceMemoryOwned'  BY <1>1 DEF DeviceMemoryOwned
<1>4. StepsOfOps'  BY <1>1 DEF StepsOfOps, Unspilling, LoopSteps, SpillSteps
<1>5. OwnersOfOps'  BY <1>1 DEF OwnersOfOps, Unspilling, LoopSteps, SpillSteps
<1>6. References'  BY <1>1 DEF References, SpillSteps
<1>7. LocksHeld'  BY <1>1 DEF LocksHeld, Carries, SpillSteps, Victim
<1>8. Residency'
  BY <1>1 DEF Residency, Victim, Moves, Moving, Carries, LocksHeld, SpillSteps
<1>9. Moves'
  <2>1. StepOutsideMoves(t)  BY <1>1 DEF StepOutsideMoves, Carries, Moving
  <2>. QED  BY <2>1, StepKeepsMoves
<1>10. Pinned'  BY <1>1 DEF Pinned
<1>. QED  BY <1>2, <1>3, <1>4, <1>5, <1>6, <1>7, <1>8, <1>9, <1>10

\* Calling spill_to_device_limit keeps the invariant.
LEMMA LimitKeeps ==
    ASSUME IInv, NEW t \in Threads, Limit(t)
    PROVE  IInv'
<1>1. DeviceLimit # NoLimit => Unspilled - DeviceLimit \in Int
  BY UnspilledType, ConstantsAssumption DEF IInv
<1>. USE DEF IInv, TypeOK, Steps, Ops
<1>2. CASE DeviceLimit = NoLimit
  <2>1. /\ pc[t] = "limit"
        /\ pc' = [pc EXCEPT ![t] = AfterLimit(t)]
        /\ UNCHANGED <<ownerVars, managerVars, callVars, loopVars, nops,
                       pointerVars>>
    BY <1>2 DEF Limit, Goto
  <2>. USE DEF AfterLimit, ownerVars, managerVars, callVars, loopVars,
        pointerVars
  <2>2. TypeOK'  BY <1>1, <2>1, <1>2
  <2>3. DeviceMemoryOwned'  BY <1>1, <2>1, <1>2 DEF DeviceMemoryOwned
  <2>4. StepsOfOps'
    BY <1>1, <2>1, <1>2 DEF StepsOfOps, Unspilling, LoopSteps, SpillSteps
  <2>5. OwnersOfOps'
    BY <1>1, <2>1, <1>2 DEF OwnersOfOps, Unspilling, LoopSteps, SpillSteps
  <2>6. References'  BY <1>1, <2>1, <1>2 DEF References, SpillSteps
  <2>7. LocksHeld'
    BY <1>1, <2>1, <1>2 DEF LocksHeld, Carries, SpillSteps, Victim
  <2>8. Residency'
    BY <1>1, <2>1, <1>2 DEF Residency, Victim, Moves, Moving, Carries,
         LocksHeld, SpillSteps
  <2>9. Moves'
    <3>1. StepOutsideMoves(t)
      BY <1>1, <2>1, <1>2 DEF StepOutsideMoves, Carries, Moving
    <3>. QED  BY <3>1, StepKeepsMoves
  <2>10. Pinned'  BY <1>1, <2>1, <1>2 DEF Pinned
  <2>. QED  BY <2>2, <2>3, <2>4, <2>5, <2>6, <2>7, <2>8, <2>9, <2>10
<1>3. CASE DeviceLimit # NoLimit
  <2>1. /\ pc[t] = "limit"
        /\ pc' = [pc EXCEPT ![t] = "snapshot"]
        /\ CallSpill(t, Unspilled - DeviceLimit, "limit")
        /\ UNCHANGED <<ownerVars, managerVars, callVars, nops, pointerVars>>
    BY <1>3 DEF Limit, Goto
  <2>. USE DEF CallSpill, ownerVars, managerVars, callVars, pointerVars
  <2>2. TypeOK'  BY <1>1, <2>1, <1>3
  <2>3. DeviceMemoryOwned'  BY <1>1, <2>1, <1>3 DEF DeviceMemoryOwned
  <2>4. StepsOfOps'
    BY <1>1, <2>1, <1>3 DEF StepsOfOps, Unspilling, LoopSteps, SpillSteps
  <2>5. OwnersOfOps'
    BY <1>1, <2>1, <1>3 DEF OwnersOfOps, Unspilling, LoopSteps, SpillSteps
  <2>6. References'  BY <1>1, <2>1, <1>3 DEF References, SpillSteps
  <2>7. LocksHeld'
    BY <1>1, <2>1, <1>3 DEF LocksHeld, Carries, SpillSteps, Victim
  <2>8. Residency'
    BY <1>1, <2>1, <1>3 DEF Residency, Victim, Moves, Moving, Carries,
         LocksHeld, SpillSteps
  <2>9. Moves'
    <3>1. StepOutsideMoves(t)
      BY <1>1, <2>1, <1>3 DEF StepOutsideMoves, Carries, Moving
    <3>. QED  BY <3>1, StepKeepsMoves
  <2>10. Pinned'  BY <1>1, <2>1, <1>3 DEF Pinned
  <2>. QED  BY <2>2, <2>3, <2>4, <2>5, <2>6, <2>7, <2>8, <2>9, <2>10
<1>. QED  BY <1>2, <1>3

\* Making the tuple of the spill loop keeps the invariant.
LEMMA SnapshotKeeps ==
    ASSUME IInv, NEW t \in Threads, Snapshot(t)
    PROVE  IInv'
<1>1. \A u \in Threads \ {t} : Victim(u)' = Victim(u)
  BY DEF IInv, TypeOK, Victim, Snapshot
<1>2. PICK q \in ByAccessTime : todo' = [todo EXCEPT ![t] = q]
  BY DEF Snapshot
<1>3. q \in Seq(Owners) /\ \A i \in DOMAIN q : q[i] \in buffers
  BY ByAccessTimeType DEF IInv
<1>. USE DEF IInv, TypeOK, Steps, Ops, Snapshot, Goto, ownerVars, managerVars,
      callVars, pointerVars
<1>4. /\ UNCHANGED <<type, ptr, host, exposed, buffers>>
      /\ \A u \in Threads : pc[u] \in {"clear", "mark", "register"}
           => pc'[u] = pc[u] /\ Victim(u)' = Victim(u) /\ cur'[u] = cur[u]
  BY <1>1 DEF IInv, TypeOK, Snapshot, Goto, ownerVars, managerVars, callVars
<1>5. TypeOK'  BY <1>1, <1>2, <1>3, <1>4
<1>6. DeviceMemoryOwned'  BY <1>1, <1>2, <1>3, <1>4 DEF DeviceMemoryOwned
<1>7. StepsOfOps'
  BY <1>1, <1>2, <1>3, <1>4 DEF StepsOfOps, Unspilling, LoopSteps, SpillSteps
<1>8. OwnersOfOps'
  BY <1>1, <1>2, <1>3, <1>4 DEF OwnersOfOps, Unspilling, LoopSteps, SpillSteps
<1>9. References'  BY <1>1, <1>2, <1>3, <1>4 DEF References, SpillSteps
<1>10. LocksHeld'
  BY <1>1, <1>2, <1>3, <1>4 DEF LocksHeld, Carries, SpillSteps
<1>11. Residency'
  BY <1>4, ResidencyFrame DEF IInv
<1>12. Moves'  BY <1>1, <1>2, <1>3, <1>4 DEF Moves, Moving, Carries
<1>13. Pinned'  BY <1>1, <1>2, <1>3, <1>4 DEF Pinned
<1>. QED  BY <1>5, <1>6, <1>7, <1>8, <1>9, <1>10, <1>11, <1>12, <1>13

\* The non-blocking acquire of the spill loop keeps the invariant.
LEMMA LoopTryKeeps ==
    ASSUME IInv, NEW t \in Threads, LoopTry(t)
    PROVE  IInv'
<1>1. /\ Victim(t) \in Owners /\ Victim(t) \in buffers
      /\ Tail(todo[t]) \in Seq(Owners)
      /\ \A i \in DOMAIN Tail(todo[t]) : Tail(todo[t])[i] \in buffers
  BY VictimFacts DEF IInv, References, SpillSteps, LoopTry
<1>2. \A u \in Threads \ {t} : Victim(u)' = Victim(u)
  BY DEF IInv, TypeOK, Victim, LoopTry, loopVars
<1>. USE DEF IInv, TypeOK, Steps, Ops
<1>3. CASE lock[Victim(t)] \in {Null, t}
  <2>1. /\ pc[t] = "loop" /\ todo[t] # <<>>
        /\ pc' = [pc EXCEPT ![t] = "check"]
        /\ lock' = [lock EXCEPT ![Victim(t)] = t]
        /\ UNCHANGED <<todo, type, host, ptr, exposed, locks, last,
                       managerVars, callVars, goal, spilled,
                       retry, ret, nops, pointerVars>>
    BY <1>3 DEF LoopTry, Goto
  <2>2. Victim(t)' = Victim(t)
    BY <2>1 DEF Victim
  <2>3. /\ UNCHANGED <<type, ptr, host, exposed, buffers>>
        /\ \A u \in Threads : pc[u] \in {"clear", "mark", "register"}
             => pc'[u] = pc[u] /\ Victim(u)' = Victim(u) /\ cur'[u] = cur[u]
    BY <1>2, <2>1 DEF IInv, TypeOK, managerVars, callVars
  <2>. USE DEF managerVars, callVars, pointerVars
  <2>4. TypeOK'  BY <1>1, <1>2, <2>1, <2>2, <2>3, <1>3, ConstantsAssumption
  <2>5. DeviceMemoryOwned'
    BY <1>1, <1>2, <2>1, <2>2, <2>3, <1>3, ConstantsAssumption DEF
         DeviceMemoryOwned
  <2>6. StepsOfOps'
    BY <1>1, <1>2, <2>1, <2>2, <2>3, <1>3, ConstantsAssumption DEF StepsOfOps,
         Unspilling, LoopSteps, SpillSteps
  <2>7. OwnersOfOps'
    BY <1>1, <1>2, <2>1, <2>2, <2>3, <1>3, ConstantsAssumption DEF
         OwnersOfOps, Unspilling, LoopSteps, SpillSteps
  <2>8. References'
    BY <1>1, <1>2, <2>1, <2>2, <2>3, <1>3, ConstantsAssumption DEF References,
         SpillSteps
  <2>9. LocksHeld'
    BY <1>1, <1>2, <2>1, <2>2, <2>3, <1>3, ConstantsAssumption DEF LocksHeld,
         Carries, SpillSteps
  <2>10. Residency'
    BY <2>3, ResidencyFrame DEF IInv
  <2>11. Moves'
    BY <1>1, <1>2, <2>1, <2>2, <2>3, <1>3, ConstantsAssumption DEF Moves,
         Moving, Carries
  <2>12. Pinned'
    BY <1>1, <1>2, <2>1, <2>2, <2>3, <1>3, ConstantsAssumption DEF Pinned
  <2>. QED  BY <2>4, <2>5, <2>6, <2>7, <2>8, <2>9, <2>10, <2>11, <2>12
<1>4. CASE lock[Victim(t)] \notin {Null, t}
  <2>1. /\ pc[t] = "loop" /\ todo[t] # <<>>
        /\ todo' = [todo EXCEPT ![t] = Tail(@)]
        /\ UNCHANGED <<lock, pc, type, host, ptr, exposed, locks, last,
                       managerVars, callVars, goal, spilled,
                       retry, ret, nops, pointerVars>>
    BY <1>4 DEF LoopTry, Goto
  <2>. USE DEF managerVars, callVars, pointerVars
  <2>2. TypeOK'  BY <1>1, <1>2, <2>1, <1>4, ConstantsAssumption
  <2>3. DeviceMemoryOwned'
    BY <1>1, <1>2, <2>1, <1>4, ConstantsAssumption DEF DeviceMemoryOwned
  <2>4. StepsOfOps'
    BY <1>1, <1>2, <2>1, <1>4, ConstantsAssumption DEF StepsOfOps, Unspilling,
         LoopSteps, SpillSteps
  <2>5. OwnersOfOps'
    BY <1>1, <1>2, <2>1, <1>4, ConstantsAssumption DEF OwnersOfOps,
         Unspilling, LoopSteps, SpillSteps
  <2>6. References'
    BY <1>1, <1>2, <2>1, <1>4, ConstantsAssumption DEF References, SpillSteps
  <2>7. LocksHeld'
    BY <1>1, <1>2, <2>1, <1>4, ConstantsAssumption, ZenonT(40)
    DEF LocksHeld, Carries, SpillSteps
  <2>8. Residency'
    BY <1>1, <1>2, <2>1, <1>4, ConstantsAssumption DEF Residency, Moves,
         Moving, Carries, LocksHeld, SpillSteps
  <2>9. Moves'
    <3>. HIDE DEF TypeOK
    <3>. QED  BY <1>2, <2>1 DEF Moves, Moving, Carries
  <2>10. Pinned'  BY <1>1, <1>2, <2>1, <1>4, ConstantsAssumption DEF Pinned
  <2>. QED  BY <2>2, <2>3, <2>4, <2>5, <2>6, <2>7, <2>8, <2>9, <2>10
<1>. QED  BY <1>3, <1>4

\* The test inside the spill loop keeps the invariant.
LEMMA LoopCheckKeeps ==
    ASSUME IInv, NEW t \in Threads, LoopCheck(t)
    PROVE  IInv'
<1>1. /\ Victim(t) \in Owners /\ Victim(t) \in buffers
      /\ Tail(todo[t]) \in Seq(Owners)
      /\ \A i \in DOMAIN Tail(todo[t]) : Tail(todo[t])[i] \in buffers
  BY VictimFacts DEF IInv, References, SpillSteps, LoopCheck
<1>2. \A u \in Threads \ {t} : Victim(u)' = Victim(u)
  BY DEF IInv, TypeOK, Victim, LoopCheck, loopVars
<1>. USE DEF IInv, TypeOK, Steps, Ops
<1>3. CASE Eligible(Victim(t))
  <2>1. /\ pc[t] = "check" /\ Goto(t, "copy")
        /\ UNCHANGED <<lock, todo, type, host, ptr, exposed, locks, last,
                       managerVars, callVars, goal, spilled,
                       retry, ret, nops, pointerVars>>
    BY <1>3 DEF LoopCheck, Goto
  <2>2. Victim(t)' = Victim(t)
    BY <2>1 DEF Victim
  <2>3. /\ UNCHANGED <<type, ptr, host, exposed, buffers>>
        /\ \A u \in Threads : pc[u] \in {"clear", "mark", "register"}
             => pc'[u] = pc[u] /\ Victim(u)' = Victim(u) /\ cur'[u] = cur[u]
    BY <1>2, <2>1 DEF IInv, TypeOK, Goto, managerVars, callVars
  <2>. USE DEF Goto, managerVars, callVars, pointerVars, Eligible, is_spilled,
        spillable
  <2>4. TypeOK'  BY <1>1, <1>2, <2>1, <2>2, <2>3, <1>3
  <2>5. DeviceMemoryOwned'
    BY <1>1, <1>2, <2>1, <2>2, <2>3, <1>3 DEF DeviceMemoryOwned
  <2>6. StepsOfOps'
    BY <1>1, <1>2, <2>1, <2>2, <2>3, <1>3 DEF StepsOfOps, Unspilling,
         LoopSteps, SpillSteps
  <2>7. OwnersOfOps'
    BY <1>1, <1>2, <2>1, <2>2, <2>3, <1>3 DEF OwnersOfOps, Unspilling,
         LoopSteps, SpillSteps
  <2>8. References'
    BY <1>1, <1>2, <2>1, <2>2, <2>3, <1>3 DEF References, SpillSteps
  <2>9. LocksHeld'
    BY <1>1, <1>2, <2>1, <2>2, <2>3, <1>3 DEF LocksHeld, Carries, SpillSteps
  <2>10. Residency'
    BY <2>3, ResidencyFrame DEF IInv
  <2>11. Moves'
    BY <1>1, <1>2, <2>1, <2>2, <2>3, <1>3 DEF Moves, Moving, Carries,
         Residency, LocksHeld, SpillSteps
  <2>12. Pinned'  BY <1>1, <1>2, <2>1, <2>2, <2>3, <1>3 DEF Pinned
  <2>. QED  BY <2>4, <2>5, <2>6, <2>7, <2>8, <2>9, <2>10, <2>11, <2>12
<1>4. CASE ~Eligible(Victim(t))
  <2>1. /\ pc[t] = "check" /\ Goto(t, "loop")
        /\ lock' = [lock EXCEPT ![Victim(t)] = Released(t, Victim(t))]
        /\ todo' = [todo EXCEPT ![t] = Tail(@)]
        /\ UNCHANGED <<type, host, ptr, exposed, locks, last, managerVars,
                       callVars, goal, spilled, retry, ret, nops,
                       pointerVars>>
    BY <1>4 DEF LoopCheck, Goto
  <2>2. /\ UNCHANGED <<type, ptr, host, exposed, buffers>>
        /\ \A u \in Threads : pc[u] \in {"clear", "mark", "register"}
             => pc'[u] = pc[u] /\ Victim(u)' = Victim(u) /\ cur'[u] = cur[u]
    BY <1>2, <2>1 DEF IInv, TypeOK, Goto, managerVars, callVars
  <2>. USE DEF Goto, Released, managerVars, callVars, pointerVars, Eligible,
        is_spilled, spillable
  <2>3. TypeOK'  BY <1>1, <1>2, <2>1, <2>2, <1>4
  <2>4. DeviceMemoryOwned'
    BY <1>1, <1>2, <2>1, <2>2, <1>4 DEF DeviceMemoryOwned
  <2>5. StepsOfOps'
    BY <1>1, <1>2, <2>1, <2>2, <1>4 DEF StepsOfOps, Unspilling, LoopSteps,
         SpillSteps
  <2>6. OwnersOfOps'
    BY <1>1, <1>2, <2>1, <2>2, <1>4 DEF OwnersOfOps, Unspilling, LoopSteps,
         SpillSteps
  <2>7. References'
    BY <1>1, <1>2, <2>1, <2>2, <1>4 DEF References, SpillSteps
  <2>8. LocksHeld'
    BY <1>1, <1>2, <2>1, <2>2, <1>4 DEF LocksHeld, Carries, SpillSteps
  <2>9. Residency'
    BY <2>2, ResidencyFrame DEF IInv
  <2>10. Moves'  BY <1>1, <1>2, <2>1, <2>2, <1>4 DEF Moves, Moving, Carries
  <2>11. Pinned'  BY <1>1, <1>2, <2>1, <2>2, <1>4 DEF Pinned
  <2>. QED  BY <2>3, <2>4, <2>5, <2>6, <2>7, <2>8, <2>9, <2>10, <2>11
<1>. QED  BY <1>3, <1>4

\* Copying to the host keeps the invariant.
LEMMA SpillCopyKeeps ==
    ASSUME IInv, NEW t \in Threads, SpillCopy(t)
    PROVE  IInv'
<1>1. /\ Victim(t) \in Owners /\ Victim(t) \in buffers
      /\ Tail(todo[t]) \in Seq(Owners)
      /\ \A i \in DOMAIN Tail(todo[t]) : Tail(todo[t])[i] \in buffers
  BY VictimFacts DEF IInv, References, SpillSteps, SpillCopy
<1>2. \A u \in Threads \ {t} : Victim(u)' = Victim(u)
  BY DEF IInv, TypeOK, Victim, SpillCopy, loopVars
<1>3. Victim(t)' = Victim(t)
  BY DEF Victim, SpillCopy, loopVars
<1>. USE DEF IInv, TypeOK, Steps, Ops, SpillCopy, Goto, managerVars, callVars,
      loopVars, pointerVars
<1>4. TypeOK'  BY <1>1, <1>2, <1>3
<1>5. DeviceMemoryOwned'  BY <1>1, <1>2, <1>3 DEF DeviceMemoryOwned
<1>6. StepsOfOps'
  BY <1>1, <1>2, <1>3 DEF StepsOfOps, Unspilling, LoopSteps, SpillSteps
<1>7. OwnersOfOps'
  BY <1>1, <1>2, <1>3 DEF OwnersOfOps, Unspilling, LoopSteps, SpillSteps
<1>8. References'  BY <1>1, <1>2, <1>3 DEF References, SpillSteps
<1>9. LocksHeld'  BY <1>1, <1>2, <1>3 DEF LocksHeld, Carries, SpillSteps
<1>10. Residency'
  <2>1. \A u \in Threads \ {t} : /\ pc'[u] = pc[u] /\ cur'[u] = cur[u]
                                   /\ Victim(u)' = Victim(u)
    BY <1>2 DEF SpillCopy, Goto, callVars
  <2>2. /\ pc[t] = "copy" /\ pc'[t] = "clear" /\ Victim(t)' = Victim(t)
        /\ \A x \in Owners : host'[x] => host[x] \/ x = Victim(t)
        /\ Victim(t) \in buffers
    BY <1>1, <1>3 DEF SpillCopy, Goto
  <2>3. UNCHANGED <<type, ptr, exposed, buffers>>
    BY DEF SpillCopy, managerVars
  <2>. HIDE DEF TypeOK, SpillCopy
  <2>. QED  BY <2>1, <2>2, <2>3 DEF Residency
<1>11. Moves'  BY <1>1, <1>2, <1>3 DEF Moves, Moving, Carries
<1>12. Pinned'  BY <1>1, <1>2, <1>3 DEF Pinned
<1>. QED  BY <1>4, <1>5, <1>6, <1>7, <1>8, <1>9, <1>10, <1>11, <1>12

\* Freeing device memory keeps the invariant.
LEMMA SpillClearKeeps ==
    ASSUME IInv, NEW t \in Threads, SpillClear(t)
    PROVE  IInv'
<1>1. /\ Victim(t) \in Owners /\ Victim(t) \in buffers
      /\ Tail(todo[t]) \in Seq(Owners)
      /\ \A i \in DOMAIN Tail(todo[t]) : Tail(todo[t])[i] \in buffers
  BY VictimFacts DEF IInv, References, SpillSteps, SpillClear
<1>2. \A u \in Threads \ {t} : Victim(u)' = Victim(u)
  BY DEF IInv, TypeOK, Victim, SpillClear, loopVars
<1>3. Victim(t)' = Victim(t)
  BY DEF Victim, SpillClear, loopVars
<1>. USE DEF IInv, TypeOK, Steps, Ops, SpillClear, Deallocated, Goto,
      callVars, loopVars, pointerVars
<1>4. TypeOK'  BY <1>1, <1>2, <1>3
<1>5. DeviceMemoryOwned'
  BY <1>1, <1>2, <1>3, ConstantsAssumption DEF DeviceMemoryOwned
<1>6. StepsOfOps'
  BY <1>1, <1>2, <1>3 DEF StepsOfOps, Unspilling, LoopSteps, SpillSteps
<1>7. OwnersOfOps'
  BY <1>1, <1>2, <1>3 DEF OwnersOfOps, Unspilling, LoopSteps, SpillSteps
<1>8. References'  BY <1>1, <1>2, <1>3 DEF References, SpillSteps
<1>9. LocksHeld'  BY <1>1, <1>2, <1>3 DEF LocksHeld, Carries, SpillSteps
<1>10. Residency'
  BY <1>1, <1>2, <1>3 DEF Residency, Moves, Moving, Carries, LocksHeld,
       SpillSteps
<1>11. Moves'
  BY <1>1, <1>2, <1>3 DEF Moves, Moving, Carries, Residency, LocksHeld,
       SpillSteps
<1>12. Pinned'
  BY <1>1, <1>2, <1>3 DEF Pinned, Residency, Moves, Moving, Carries,
       LocksHeld, SpillSteps
<1>. QED  BY <1>4, <1>5, <1>6, <1>7, <1>8, <1>9, <1>10, <1>11, <1>12

\* Marking a buffer as spilled keeps the invariant.
LEMMA SpillMarkKeeps ==
    ASSUME IInv, NEW t \in Threads, SpillMark(t)
    PROVE  IInv'
<1>1. /\ Victim(t) \in Owners /\ Victim(t) \in buffers
      /\ Tail(todo[t]) \in Seq(Owners)
      /\ \A i \in DOMAIN Tail(todo[t]) : Tail(todo[t])[i] \in buffers
  BY VictimFacts DEF IInv, References, SpillSteps, SpillMark
<1>2. \A u \in Threads \ {t} : Victim(u)' = Victim(u)
  BY DEF IInv, TypeOK, Victim, SpillMark, loopVars
<1>. USE DEF IInv, TypeOK, Steps, Ops, SpillMark, Moved, Released, Enough,
      Goto, managerVars, callVars, pointerVars
<1>3. TypeOK'  BY <1>1, <1>2
<1>4. DeviceMemoryOwned'  BY <1>1, <1>2 DEF DeviceMemoryOwned
<1>5. StepsOfOps'
  BY <1>1, <1>2 DEF StepsOfOps, Unspilling, LoopSteps, SpillSteps
<1>6. OwnersOfOps'
  BY <1>1, <1>2 DEF OwnersOfOps, Unspilling, LoopSteps, SpillSteps
<1>7. References'  BY <1>1, <1>2 DEF References, SpillSteps
<1>8. LocksHeld'  BY <1>1, <1>2 DEF LocksHeld, Carries, SpillSteps
<1>9. Residency'
  <2>1. \A u \in Threads \ {t} : /\ pc'[u] = pc[u] /\ cur'[u] = cur[u]
                                   /\ Victim(u)' = Victim(u)
    BY <1>2 DEF SpillMark, Goto, callVars
  <2>2. /\ pc[t] = "mark" /\ ptr[Victim(t)] = Null /\ ~exposed[Victim(t)]
        /\ \A x \in Owners : type'[x] = IF x = Victim(t) THEN "cpu" ELSE type[x]
        /\ Victim(t) \in buffers
    BY <1>1 DEF SpillMark, Moved, Moves, Moving
  <2>3. UNCHANGED <<host, ptr, exposed, buffers>>
    BY DEF SpillMark, managerVars
  <2>. HIDE DEF TypeOK, SpillMark
  <2>. QED  BY <2>1, <2>2, <2>3 DEF Residency
<1>10. Moves'
  BY <1>1, <1>2 DEF Moves, Moving, Carries, Residency, LocksHeld, SpillSteps
<1>11. Pinned'
  BY <1>1, <1>2 DEF Pinned, Residency, Moves, Moving, Carries, LocksHeld,
       SpillSteps
<1>. QED  BY <1>3, <1>4, <1>5, <1>6, <1>7, <1>8, <1>9, <1>10, <1>11

\* Returning from spill_device_memory keeps the invariant.
LEMMA LoopDoneKeeps ==
    ASSUME IInv, NEW t \in Threads, LoopDone(t)
    PROVE  IInv'
<1>. USE DEF IInv, TypeOK, Steps, Ops, LoopDone, Goto, AfterLimit, ownerVars,
      managerVars, callVars, loopVars, pointerVars
<1>1. TypeOK'  OBVIOUS
<1>2. DeviceMemoryOwned'  BY DEF DeviceMemoryOwned
<1>3. StepsOfOps'  BY DEF StepsOfOps, Unspilling, LoopSteps, SpillSteps
<1>4. OwnersOfOps'  BY DEF OwnersOfOps, Unspilling, LoopSteps, SpillSteps
<1>5. References'  BY DEF References, SpillSteps
<1>6. LocksHeld'  BY DEF LocksHeld, Carries, SpillSteps, Victim
<1>7. Residency'
  BY DEF Residency, Victim, Moves, Moving, Carries, LocksHeld, SpillSteps
<1>8. Moves'  BY DEF Moves, Moving, Victim, Carries
<1>9. Pinned'  BY DEF Pinned
<1>. QED  BY <1>1, <1>2, <1>3, <1>4, <1>5, <1>6, <1>7, <1>8, <1>9

\* Retrying the allocation keeps the invariant.
LEMMA OomSpilledKeeps ==
    ASSUME IInv, NEW t \in Threads, OomSpilled(t)
    PROVE  IInv'
<1>. USE DEF IInv, TypeOK, Steps, Ops, OomSpilled, SpilledAny, Goto,
      ownerVars, managerVars, callVars, loopVars, pointerVars
<1>1. TypeOK'  OBVIOUS
<1>2. DeviceMemoryOwned'  BY DEF DeviceMemoryOwned
<1>3. StepsOfOps'  BY DEF StepsOfOps, Unspilling, LoopSteps, SpillSteps
<1>4. OwnersOfOps'  BY DEF OwnersOfOps, Unspilling, LoopSteps, SpillSteps
<1>5. References'  BY DEF References, SpillSteps
<1>6. LocksHeld'  BY DEF LocksHeld, Carries, SpillSteps, Victim
<1>7. Residency'
  BY DEF Residency, Victim, Moves, Moving, Carries, LocksHeld, SpillSteps
<1>8. Moves'
  <2>1. StepOutsideMoves(t)  BY DEF StepOutsideMoves, Carries, Moving, Moves
  <2>. QED  BY <2>1, StepKeepsMoves
<1>9. Pinned'  BY DEF Pinned
<1>. QED  BY <1>1, <1>2, <1>3, <1>4, <1>5, <1>6, <1>7, <1>8, <1>9

\* Collecting garbage and running the handler again keeps the invariant.
LEMMA OomRetryKeeps ==
    ASSUME IInv, NEW t \in Threads, OomRetry(t)
    PROVE  IInv'
<1>. USE DEF IInv, TypeOK, Steps, Ops, OomRetry, SpilledAny, Goto, Free,
      Garbage, callVars, pointerVars
<1>1. TypeOK'  OBVIOUS
<1>2. DeviceMemoryOwned'  BY ConstantsAssumption DEF DeviceMemoryOwned
<1>3. StepsOfOps'  BY DEF StepsOfOps, Unspilling, LoopSteps, SpillSteps
<1>4. OwnersOfOps'  BY DEF OwnersOfOps, Unspilling, LoopSteps, SpillSteps
<1>5. References'  BY DEF References, SpillSteps
<1>6. LocksHeld'  BY DEF LocksHeld, Carries, SpillSteps, Victim
<1>7. Residency'
  BY DEF Residency, Victim, Moves, Moving, Carries, LocksHeld, SpillSteps
<1>8. Moves'
  BY DEF Moves, Moving, Victim, Carries, OwnersOfOps, Unspilling, LoopSteps,
       SpillSteps, StepsOfOps, References, LocksHeld
<1>9. Pinned'
  BY DEF Pinned, OwnersOfOps, Unspilling, LoopSteps, SpillSteps, StepsOfOps,
       References, LocksHeld, Carries, Victim
<1>. QED  BY <1>1, <1>2, <1>3, <1>4, <1>5, <1>6, <1>7, <1>8, <1>9

\* Raising MemoryError keeps the invariant.
LEMMA OomFailKeeps ==
    ASSUME IInv, NEW t \in Threads, OomFail(t)
    PROVE  IInv'
<1>. USE DEF IInv, TypeOK, Steps, Ops, OomFail, SpilledAny, Finish,
      managerVars, pointerVars, Goto
<1>1. TypeOK'
  BY DEF OwnersOfOps, Unspilling, LoopSteps, SpillSteps, StepsOfOps
<1>2. DeviceMemoryOwned'  BY DEF DeviceMemoryOwned
<1>3. StepsOfOps'  BY DEF StepsOfOps, Unspilling, LoopSteps, SpillSteps
<1>4. OwnersOfOps'
  BY ConstantsAssumption DEF OwnersOfOps, Unspilling, LoopSteps, SpillSteps
<1>5. References'  BY DEF References, SpillSteps
<1>6. LocksHeld'
  BY DEF LocksHeld, Carries, SpillSteps, Victim, OwnersOfOps, Unspilling,
       LoopSteps, StepsOfOps, References
<1>7. Residency'  BY DEF Residency, Victim
<1>8. Moves'  BY FinishKeepsMoves
<1>9. Pinned'  BY DEF Pinned
<1>. QED  BY <1>1, <1>2, <1>3, <1>4, <1>5, <1>6, <1>7, <1>8, <1>9

\* Finishing an operation keeps the invariant.
LEMMA OpEndKeeps ==
    ASSUME IInv, NEW t \in Threads, OpEnd(t)
    PROVE  IInv'
<1>. USE DEF IInv, TypeOK, Steps, Ops, OpEnd, Finish, ownerVars, pointerVars,
      Goto
<1>1. TypeOK'
  BY DEF OwnersOfOps, Unspilling, LoopSteps, SpillSteps, StepsOfOps
<1>2. DeviceMemoryOwned'  BY DEF DeviceMemoryOwned
<1>3. StepsOfOps'  BY DEF StepsOfOps, Unspilling, LoopSteps, SpillSteps
<1>4. OwnersOfOps'
  BY ConstantsAssumption DEF OwnersOfOps, Unspilling, LoopSteps, SpillSteps
<1>5. References'
  BY DEF References, SpillSteps, OwnersOfOps, Unspilling, LoopSteps,
       StepsOfOps
<1>6. LocksHeld'  BY DEF LocksHeld, Carries, SpillSteps, Victim
<1>7. Residency'  BY DEF Residency, Victim
<1>8. Moves'  BY FinishKeepsMoves
<1>9. Pinned'  BY DEF Pinned
<1>. QED  BY <1>1, <1>2, <1>3, <1>4, <1>5, <1>6, <1>7, <1>8, <1>9

\* Starting to create a buffer keeps the invariant.
LEMMA NewFromDeviceKeeps ==
    ASSUME IInv, NEW t \in Threads, NEW o \in Owners, NewFromDevice(t, o)
    PROVE  IInv'
<1>. USE DEF IInv, TypeOK, Steps, Ops, NewFromDevice, Begin, ownerVars,
      managerVars, loopVars, pointerVars, Idle, Goto
<1>1. TypeOK'  OBVIOUS
<1>2. DeviceMemoryOwned'  BY DEF DeviceMemoryOwned
<1>3. StepsOfOps'  BY DEF StepsOfOps, Unspilling, LoopSteps, SpillSteps
<1>4. OwnersOfOps'  BY DEF OwnersOfOps, Unspilling, LoopSteps, SpillSteps
<1>5. References'  BY DEF References, SpillSteps
<1>6. LocksHeld'  BY DEF LocksHeld, Carries, SpillSteps, Victim
<1>7. Residency'
  BY DEF Residency, Victim, Moves, Moving, Carries, LocksHeld, SpillSteps
<1>8. Moves'
  <2>1. StepOutsideMoves(t)  BY DEF StepOutsideMoves, Carries, Moving
  <2>. QED  BY <2>1, StepKeepsMoves
<1>9. Pinned'  BY DEF Pinned
<1>. QED  BY <1>1, <1>2, <1>3, <1>4, <1>5, <1>6, <1>7, <1>8, <1>9

\* from_host_memory keeps the invariant.
LEMMA NewFromHostKeeps ==
    ASSUME IInv, NEW t \in Threads, NEW o \in Owners, NewFromHost(t, o)
    PROVE  IInv'
<1>1. Touched(o) \in [Owners -> Int]
  BY TouchedType DEF IInv
<1>. USE DEF IInv, TypeOK, Steps, Ops, NewFromHost, Begin, loopVars,
      pointerVars, Idle, Goto
<1>2. TypeOK'
  <2>1. /\ type' \in [Owners -> {"gpu", "cpu"}] /\ host' \in [Owners -> BOOLEAN]
        /\ last' \in [Owners -> Int] /\ buffers' \subseteq Owners
    BY <1>1 DEF IInv, TypeOK, NewFromHost
  <2>2. /\ pc' \in [Threads -> Steps] /\ op' \in [Threads -> Ops]
        /\ cur' \in [Threads -> Owners \cup {Null}] /\ nops' \in Nat
    BY DEF IInv, TypeOK, NewFromHost, Begin, Goto, Steps, Ops
  <2>. QED  BY <2>1, <2>2 DEF IInv, TypeOK, NewFromHost, loopVars, pointerVars
<1>3. DeviceMemoryOwned'  BY <1>1 DEF DeviceMemoryOwned
<1>4. StepsOfOps'  BY <1>1 DEF StepsOfOps, Unspilling, LoopSteps, SpillSteps
<1>5. OwnersOfOps'  BY <1>1 DEF OwnersOfOps, Unspilling, LoopSteps, SpillSteps
<1>6. References'  BY <1>1 DEF References, SpillSteps
<1>7. LocksHeld'  BY <1>1 DEF LocksHeld, Carries, SpillSteps, Victim
<1>8. Residency'  BY <1>1 DEF Residency, Victim
<1>9. Moves'
  BY <1>1, SMTT(30) DEF Moves, Moving, Victim, Carries, OwnersOfOps, Unspilling,
       LoopSteps, SpillSteps, StepsOfOps, References, LocksHeld
<1>10. Pinned'
  BY <1>1 DEF Pinned, Residency, Victim, Moves, Moving, Carries, LocksHeld,
       SpillSteps
<1>. QED  BY <1>2, <1>3, <1>4, <1>5, <1>6, <1>7, <1>8, <1>9, <1>10

\* Calling spill(target="cpu") keeps the invariant.
LEMMA SpillOwnerKeeps ==
    ASSUME IInv, NEW t \in Threads, NEW o \in Owners, SpillOwner(t, o)
    PROVE  IInv'
<1>. USE DEF IInv, TypeOK, Steps, Ops, SpillOwner, Begin, managerVars,
      pointerVars, Idle, Goto
<1>1. TypeOK'  OBVIOUS
<1>2. DeviceMemoryOwned'  BY DEF DeviceMemoryOwned
<1>3. StepsOfOps'  BY DEF StepsOfOps, Unspilling, LoopSteps, SpillSteps
<1>4. OwnersOfOps'
  BY ConstantsAssumption DEF OwnersOfOps, Unspilling, LoopSteps, SpillSteps
<1>5. References'  BY DEF References, SpillSteps
<1>6. LocksHeld'
  BY ConstantsAssumption DEF LocksHeld, Carries, SpillSteps, Victim
<1>7. Residency'  BY DEF Residency, Victim
<1>8. Moves'
  BY DEF Moves, Moving, Victim, Carries, OwnersOfOps, Unspilling, LoopSteps,
       SpillSteps, StepsOfOps, References, LocksHeld
<1>9. Pinned'  BY DEF Pinned
<1>. QED  BY <1>1, <1>2, <1>3, <1>4, <1>5, <1>6, <1>7, <1>8, <1>9

\* Calling spill_device_memory keeps the invariant.
LEMMA SpillDeviceMemoryKeeps ==
    ASSUME IInv, NEW t \in Threads, NEW n \in Nat, SpillDeviceMemory(t, n)
    PROVE  IInv'
<1>. USE DEF IInv, TypeOK, Steps, Ops, SpillDeviceMemory, Begin, CallSpill,
      ownerVars, managerVars, pointerVars, Idle, Goto
<1>1. TypeOK'  OBVIOUS
<1>2. DeviceMemoryOwned'  BY DEF DeviceMemoryOwned
<1>3. StepsOfOps'  BY DEF StepsOfOps, Unspilling, LoopSteps, SpillSteps
<1>4. OwnersOfOps'
  BY ConstantsAssumption DEF OwnersOfOps, Unspilling, LoopSteps, SpillSteps
<1>5. References'  BY DEF References, SpillSteps
<1>6. LocksHeld'  BY DEF LocksHeld, Carries, SpillSteps, Victim
<1>7. Residency'
  BY DEF Residency, Victim, Moves, Moving, Carries, LocksHeld, SpillSteps
<1>8. Moves'
  BY DEF Moves, Moving, Victim, Carries, Residency, LocksHeld, SpillSteps
<1>9. Pinned'  BY DEF Pinned
<1>. QED  BY <1>1, <1>2, <1>3, <1>4, <1>5, <1>6, <1>7, <1>8, <1>9

\* Dropping a reference keeps the invariant.
LEMMA DropKeeps ==
    ASSUME IInv, NEW o \in Owners, Drop(o)
    PROVE  IInv'
<1>. USE DEF IInv, TypeOK, Steps, Ops, Drop, ownerVars, threadVars,
      pointerVars, callVars, loopVars
<1>1. TypeOK'  OBVIOUS
<1>2. DeviceMemoryOwned'  BY DEF DeviceMemoryOwned
<1>3. StepsOfOps'  BY DEF StepsOfOps, Unspilling, LoopSteps, SpillSteps
<1>4. OwnersOfOps'  BY DEF OwnersOfOps, Unspilling, LoopSteps, SpillSteps
<1>5. References'  BY DEF References, SpillSteps
<1>6. LocksHeld'  BY DEF LocksHeld, Carries, SpillSteps, Victim
<1>7. Residency'  BY DEF Residency, Victim
<1>8. Moves'  BY DEF Moves, Moving, Victim, Carries
<1>9. Pinned'  BY DEF Pinned
<1>. QED  BY <1>1, <1>2, <1>3, <1>4, <1>5, <1>6, <1>7, <1>8, <1>9

\* Collecting one owner keeps the invariant.
LEMMA CollectKeeps ==
    ASSUME IInv, NEW o \in Owners, Collect(o)
    PROVE  IInv'
<1>. USE DEF IInv, TypeOK, Steps, Ops, Collect, Garbage, Free, threadVars,
      pointerVars, callVars, loopVars
<1>1. TypeOK'  OBVIOUS
<1>2. DeviceMemoryOwned'  BY ConstantsAssumption DEF DeviceMemoryOwned
<1>3. StepsOfOps'  BY DEF StepsOfOps, Unspilling, LoopSteps, SpillSteps
<1>4. OwnersOfOps'  BY DEF OwnersOfOps, Unspilling, LoopSteps, SpillSteps
<1>5. References'  BY DEF References, SpillSteps
<1>6. LocksHeld'  BY DEF LocksHeld, Carries, SpillSteps, Victim
<1>7. Residency'  BY DEF Residency, Victim
<1>8. Moves'
  BY DEF Moves, Moving, Victim, Carries, OwnersOfOps, Unspilling, LoopSteps,
       SpillSteps, StepsOfOps, References, LocksHeld
<1>9. Pinned'
  BY DEF Pinned, OwnersOfOps, Unspilling, LoopSteps, SpillSteps, StepsOfOps,
       References, LocksHeld, Carries, Victim
<1>. QED  BY <1>1, <1>2, <1>3, <1>4, <1>5, <1>6, <1>7, <1>8, <1>9
-----------------------------------------------------------------------------
(* The theorems *)

\* The invariant holds before any buffer exists.
LEMMA InitInv == Init => IInv
<1>. SUFFICES ASSUME Init PROVE IInv  OBVIOUS
<1>. USE DEF Init
<1>1. TypeOK  BY ConstantsAssumption DEF TypeOK, Steps, Ops
<1>2. DeviceMemoryOwned  BY ConstantsAssumption DEF DeviceMemoryOwned
<1>3. StepsOfOps  BY DEF StepsOfOps, LoopSteps, SpillSteps
<1>4. OwnersOfOps  BY DEF OwnersOfOps, Unspilling
<1>5. References  BY DEF References, SpillSteps
<1>6. LocksHeld /\ Moves
  BY DEF LocksHeld, Moves, Moving, Carries, SpillSteps
<1>7. Residency /\ Pinned  BY DEF Residency, Pinned
<1>. QED  BY <1>1, <1>2, <1>3, <1>4, <1>5, <1>6, <1>7 DEF IInv

\* Every step of every thread keeps the invariant.
LEMMA NextInv == IInv /\ [Next]_vars => IInv'
<1>. SUFFICES ASSUME IInv, [Next]_vars PROVE IInv'  OBVIOUS
<1>1. ASSUME NEW t \in Threads, Continue(t) PROVE IInv'
  BY <1>1, PtrTestKeeps, AcquireKeeps, PtrTouchKeeps, ExposeLockKeeps,
     ExposeSetKeeps, PtrReturnKeeps, UnspillKeeps, UnspillRaisesKeeps,
     AllocKeeps, AllocFailsKeeps, RegisterKeeps, LimitKeeps, SnapshotKeeps,
     LoopTryKeeps, LoopCheckKeeps, SpillCopyKeeps, SpillClearKeeps,
     SpillMarkKeeps, LoopDoneKeeps, OomSpilledKeeps, OomRetryKeeps,
     OomFailKeeps, OpEndKeeps DEF Continue
<1>2. ASSUME NEW t \in Threads, NEW o \in Owners, Start(t, o) PROVE IInv'
  BY <1>2, EnterKeeps, SerializeKeeps, ExitKeeps, ReadPtrKeeps,
     MarkExposedKeeps, SpillOwnerKeeps, NewFromDeviceKeeps, NewFromHostKeeps
     DEF Start
<1>3. ASSUME NEW t \in Threads, NEW n \in 1..Cardinality(Owners),
             SpillDeviceMemory(t, n)
      PROVE  IInv'
  <2>1. n \in Nat  BY UnspilledType DEF IInv
  <2>. QED  BY <1>3, <2>1, SpillDeviceMemoryKeeps
<1>4. ASSUME NEW o \in Owners, Drop(o) \/ Collect(o) PROVE IInv'
  BY <1>4, DropKeeps, CollectKeeps
<1>5. CASE UNCHANGED vars
  <2>. USE <1>5 DEF vars, ownerVars, managerVars, threadVars, callVars,
        loopVars, pointerVars, IInv
  <2>1. TypeOK' /\ DeviceMemoryOwned'  BY DEF TypeOK, DeviceMemoryOwned
  <2>2. StepsOfOps' /\ OwnersOfOps'  BY DEF StepsOfOps, OwnersOfOps
  <2>3. References' /\ Pinned'  BY DEF References, Pinned
  <2>4. LocksHeld' /\ Moves'  BY DEF LocksHeld, Moves, Carries, Victim
  <2>5. Residency'  BY DEF Residency, Victim
  <2>. QED  BY <2>1, <2>2, <2>3, <2>4, <2>5
<1>. QED  BY <1>1, <1>2, <1>3, <1>4, <1>5 DEF Next, Terminated

\* The invariant holds in every reachable state of the spilling protocol, for
\* any number of threads and buffers.
THEOREM Invariance == Spec => []IInv
BY InitInv, NextInv, PTL DEF Spec

\* Every variable of SpillableBufferOwner, SpillManager and the threads keeps
\* its type.
THEOREM TypeCorrect == Spec => []TypeOK
<1>1. IInv => TypeOK  BY DEF IInv
<1>. QED  BY <1>1, Invariance, PTL

\* Device memory neither leaks nor is shared by two owners.
THEOREM DeviceMemoryCorrect == Spec => []DeviceMemoryOwned
<1>1. IInv => DeviceMemoryOwned  BY DEF IInv
<1>. QED  BY <1>1, Invariance, PTL

\* On the device and not in the middle of spill, an owner has a pointer.
LEMMA OnDevice ==
    ASSUME IInv, NEW o \in Owners, type[o] = "gpu",
           exposed[o] \/ locks[o] # {} \/ lock[o] = Null
    PROVE  ptr[o] \in Slots
<1>1. ASSUME NEW t \in Threads, pc[t] = "mark", Victim(t) = o PROVE FALSE
  BY <1>1, ConstantsAssumption DEF IInv, Moves, Moving, LocksHeld, SpillSteps
<1>. QED  BY <1>1 DEF IInv, TypeOK, Residency

\* spill_device_memory never invalidates a pointer read in a context.
THEOREM PinnedPointersCorrect == Spec => []PinnedPointersValid
<1>1. ASSUME IInv PROVE PinnedPointersValid
  <2>. SUFFICES ASSUME NEW t \in Threads, NEW o \in Owners, got[t][o] # NoPtr
                PROVE  got[t][o] = ptr[o] /\ ptr[o] \in Slots
    BY DEF PinnedPointersValid
  <2>1. t \in locks[o] /\ got[t][o] = ptr[o] /\ type[o] = "gpu"
    BY <1>1 DEF IInv, Pinned
  <2>. QED  BY <1>1, <2>1, OnDevice
<1>. QED  BY <1>1, Invariance, PTL

\* mark_exposed and spill agree: an exposed buffer is on the device.
THEOREM ExposedCorrect == Spec => []ExposedOnDevice
<1>1. ASSUME IInv PROVE ExposedOnDevice
  <2>. SUFFICES ASSUME NEW o \in Owners, exposed[o]
                PROVE  ~is_spilled(o) /\ ptr[o] \in Slots
    BY DEF ExposedOnDevice
  <2>1. type[o] = "gpu"  BY <1>1 DEF IInv, Residency
  <2>. QED  BY <1>1, <2>1, OnDevice DEF is_spilled
<1>. QED  BY <1>1, Invariance, PTL

\* Without its lock being held, a buffer is consistent.
THEOREM UnlockedCorrect == Spec => []UnlockedConsistent
<1>1. ASSUME IInv PROVE UnlockedConsistent
  <2>. SUFFICES ASSUME NEW o \in Owners, lock[o] = Null
                PROVE  /\ ~is_spilled(o) <=> ptr[o] \in Slots
                       /\ ~is_spilled(o) => ~host[o]
    BY DEF UnlockedConsistent
  <2>1. type[o] = "cpu" => ptr[o] \notin Slots
    BY <1>1, ConstantsAssumption DEF IInv, Residency
  <2>2. type[o] = "gpu" => ptr[o] \in Slots
    BY <1>1, OnDevice
  <2>3. ASSUME NEW t \in Threads, pc[t] \in {"clear", "mark"}, Victim(t) = o
        PROVE  FALSE
    BY <1>1, <2>3, ConstantsAssumption DEF IInv, LocksHeld, SpillSteps
  <2>4. type[o] = "gpu" => ~host[o]
    BY <1>1, <2>3 DEF IInv, Residency
  <2>. QED  BY <1>1, <2>1, <2>2, <2>4 DEF IInv, TypeOK, is_spilled
<1>. QED  BY <1>1, Invariance, PTL

\* The out-of-memory handler leaves the buffer being unspilled alone.
THEOREM HandlerCorrect == Spec => []NeverSpillsWhatItUnspills
<1>1. ASSUME IInv PROVE NeverSpillsWhatItUnspills
  <2>. SUFFICES ASSUME NEW t \in Threads, pc[t] \in Moving, ret[t] = "oom"
                PROVE  Victim(t) # cur[t]
    BY DEF NeverSpillsWhatItUnspills, Moving
  <2>1. type[Victim(t)] = "gpu" /\ Victim(t) \in buffers
    <3>1. todo[t] # <<>>
      BY <1>1 DEF IInv, References, SpillSteps, Moving
    <3>2. Victim(t) \in buffers
      BY <1>1, <3>1, VictimFacts DEF IInv
    <3>. QED  BY <1>1, <3>2 DEF IInv, Moves
  <2>2. CASE op[t] = "new"
    BY <1>1, <2>1, <2>2 DEF IInv, OwnersOfOps, LoopSteps, SpillSteps, Moving
  <2>3. CASE op[t] # "new"
    BY <1>1, <2>1, <2>3 DEF IInv, Moves, Carries, Moving
  <2>. QED  BY <2>2, <2>3
<1>. QED  BY <1>1, Invariance, PTL

\* Most steps of an operation leave device pointers and exposure alone.
LEMMA ContinueKeepsPointers ==
    ASSUME NEW t \in Threads, Continue(t),
           ~Alloc(t), ~SpillClear(t), ~ExposeSet(t), ~OomRetry(t)
    PROVE  UNCHANGED <<ptr, exposed>>
<1>. USE DEF ownerVars
<1>1. CASE PtrTest(t) \/ Acquire(t) \/ PtrTouch(t) \/ ExposeLock(t)
  BY <1>1 DEF PtrTest, Acquire, PtrTouch, ExposeLock
<1>2. CASE PtrReturn(t) \/ Unspill(t) \/ UnspillRaises(t) \/ AllocFails(t)
  BY <1>2 DEF PtrReturn, Unspill, UnspillRaises, AllocFails
<1>3. CASE Register(t) \/ Limit(t) \/ Snapshot(t) \/ LoopTry(t) \/ LoopCheck(t)
  BY <1>3 DEF Register, Limit, Snapshot, LoopTry, LoopCheck
<1>4. CASE SpillCopy(t) \/ SpillMark(t) \/ LoopDone(t) \/ OomSpilled(t)
  BY <1>4 DEF SpillCopy, SpillMark, LoopDone, OomSpilled
<1>5. CASE OomFail(t) \/ OpEnd(t)
  BY <1>5 DEF OomFail, OpEnd
<1>. QED  BY <1>1, <1>2, <1>3, <1>4, <1>5 DEF Continue

\* No step moves an exposed buffer or takes its exposure back.
LEMMA ExposedStep ==
    ASSUME IInv, [Next]_vars, NEW o \in Owners, exposed[o], o \in buffers'
    PROVE  ptr'[o] = ptr[o] /\ exposed'[o]
<1>0. type[o] = "gpu" /\ o \in buffers
  BY DEF IInv, Residency
<1>1. ASSUME NEW t \in Threads, Alloc(t) PROVE ptr'[o] = ptr[o] /\ exposed'[o]
  <2>1. cur[t] # o
    BY <1>0, <1>1 DEF IInv, Moves, Carries, OwnersOfOps, Alloc
  <2>. QED  BY <1>1, <2>1 DEF IInv, TypeOK, Alloc
<1>2. ASSUME NEW t \in Threads, SpillClear(t)
      PROVE  ptr'[o] = ptr[o] /\ exposed'[o]
  <2>1. Victim(t) # o
    BY <1>2 DEF IInv, Moves, Moving, SpillClear
  <2>. QED  BY <1>2, <2>1 DEF IInv, TypeOK, SpillClear
<1>3. ASSUME NEW t \in Threads, ExposeSet(t)
      PROVE  ptr'[o] = ptr[o] /\ exposed'[o]
  BY <1>3 DEF IInv, TypeOK, ExposeSet
<1>4. ASSUME NEW S, Free(S) PROVE ptr'[o] = ptr[o] /\ exposed'[o]
  BY <1>4 DEF Free
<1>5. ASSUME NEW t \in Threads, Continue(t)
      PROVE  ptr'[o] = ptr[o] /\ exposed'[o]
  BY <1>1, <1>2, <1>3, <1>4, <1>5, ContinueKeepsPointers DEF OomRetry
<1>6. ASSUME NEW t \in Threads, NEW p \in Owners, Start(t, p)
      PROVE  UNCHANGED <<ptr, exposed>>
  BY <1>6 DEF Start, Enter, Serialize, Exit, ReadPtr, MarkExposed, SpillOwner,
       NewFromDevice, NewFromHost, ownerVars
<1>7. ASSUME NEW t \in Threads, NEW n, SpillDeviceMemory(t, n)
      PROVE  UNCHANGED <<ptr, exposed>>
  BY <1>7 DEF SpillDeviceMemory, ownerVars
<1>8. ASSUME NEW p \in Owners, Drop(p) \/ Collect(p)
      PROVE  ptr'[o] = ptr[o] /\ exposed'[o]
  BY <1>4, <1>8 DEF Drop, Collect, ownerVars
<1>9. CASE UNCHANGED vars
  BY <1>9 DEF vars, ownerVars
<1>. QED  BY <1>5, <1>6, <1>7, <1>8, <1>9 DEF Next, Terminated

\* An exposed buffer keeps its device address and its exposure: third parties
\* may go on using the pointer mark_exposed was called for.
THEOREM ExposedStable == Spec => ExposedPointerStable
<1>1. ASSUME IInv, [Next]_vars
      PROVE  [\A o \in Owners : exposed[o] /\ o \in buffers'
                => ptr'[o] = ptr[o] /\ exposed'[o]]_vars
  BY <1>1, ExposedStep
<1>. QED  BY <1>1, Invariance, PTL DEF Spec, ExposedPointerStable

-----------------------------------------------------------------------------
(* One thread: what the spill loop leaves on the device *)

\* LimitKept and LeastRecentlyUsedFirst are promises to a program of one thread:
\* with two, a buffer whose lock another thread holds is skipped, and what the
\* loop has passed may come back to the device behind it.
SingleThread == \A t, u \in Threads : t = u

\* The loop of spill_device_memory, after it has its tuple.
InLoop == {"loop"} \cup SpillSteps

\* What is left of the loop's tuple is sorted by access time.
TodoSorted ==
    \A t \in Threads :
        pc[t] \in InLoop /\ op[t] # "spillowner"
            => \A i, j \in DOMAIN todo[t] :
                  i < j => last[todo[t][i]] <= last[todo[t][j]]

\* The loop has passed no buffer it could still spill, unless it has enough.
TodoComplete ==
    \A t \in Threads :
        pc[t] \in InLoop /\ op[t] # "spillowner"
            => \A o \in buffers : Eligible(o)
                  => \/ \E i \in DOMAIN todo[t] : todo[t][i] = o
                     \/ todo[t] = <<>> /\ spilled[t] >= goal[t]

\* Spilling what is still asked for brings the device within the limit.
GoalSuffices ==
    \A t \in Threads : pc[t] \in LoopSteps =>
        /\ ret[t] = "user" => op[t] \in {"spill", "spillowner"}
        /\ ret[t] = "limit" =>
             /\ DeviceLimit \in Nat
             /\ pc[t] = "snapshot" => Unspilled <= goal[t] + DeviceLimit
             /\ pc[t] # "snapshot"
                  => Unspilled + spilled[t] <= goal[t] + DeviceLimit

\* The inductive invariant of the loop, for a program of one thread.
LoopInv == TodoSorted /\ TodoComplete /\ GoalSuffices /\ LimitKept

\* The tuple of the loop holds every managed owner.
LEMMA SnapshotComplete ==
    ASSUME TypeOK, NEW q \in ByAccessTime, NEW o \in buffers
    PROVE  \E i \in DOMAIN q : q[i] = o
<1>1. IsFiniteSet(buffers)  BY ConstantsAssumption, FS_Subset DEF TypeOK
<1>2. PICK n : n = Cardinality(buffers)  OBVIOUS
<1>3. n \in Nat  BY <1>1, <1>2, FS_CardinalityType
<1>4. /\ q \in [1..n -> buffers]
      /\ \A i, j \in DOMAIN q : i # j => q[i] # q[j]
  BY <1>2 DEF ByAccessTime
<1>5. IsFiniteSet(1..n) /\ Cardinality(1..n) = n  BY <1>3, FS_Interval
<1>6. PICK T : T = {q[i] : i \in 1..n}  OBVIOUS
<1>7. q \in Surjection(1..n, T) /\ q \in Injection(1..n, T)
  BY <1>4, <1>6 DEF Surjection, Injection, IsInjective
<1>8. Cardinality(T) = n
  BY <1>5, <1>7, FS_Surjection
<1>9. T \subseteq buffers  BY <1>4, <1>6
<1>10. T = buffers
  BY <1>1, <1>2, <1>8, <1>9, FS_Subset
<1>. QED  BY <1>4, <1>6, <1>10

\* What Unspilled counts.
OnDeviceSet == {o \in buffers : ~is_spilled(o)}

\* They are finitely many.
LEMMA OnDeviceFinite ==
    ASSUME TypeOK
    PROVE  IsFiniteSet(OnDeviceSet) /\ Unspilled = Cardinality(OnDeviceSet)
<1>1. OnDeviceSet \subseteq Owners  BY DEF OnDeviceSet, TypeOK
<1>. QED  BY <1>1, ConstantsAssumption, FS_Subset DEF OnDeviceSet, Unspilled

\* A step that brings nothing to the device does not raise the count.
LEMMA UnspilledShrinks ==
    ASSUME TypeOK, TypeOK', OnDeviceSet' \subseteq OnDeviceSet
    PROVE  /\ Unspilled \in Nat /\ Unspilled' \in Nat
           /\ Unspilled' <= Unspilled
<1>1. IsFiniteSet(OnDeviceSet) /\ Unspilled = Cardinality(OnDeviceSet)
  BY OnDeviceFinite
<1>2. Unspilled' = Cardinality(OnDeviceSet')
  BY DEF OnDeviceSet, Unspilled
<1>3. /\ Cardinality(OnDeviceSet') <= Cardinality(OnDeviceSet)
      /\ IsFiniteSet(OnDeviceSet')
  BY <1>1, FS_Subset
<1>. QED  BY <1>1, <1>2, <1>3, FS_CardinalityType

\* Spilling one buffer lowers the count by one.
LEMMA UnspilledDrops ==
    ASSUME TypeOK, NEW o \in OnDeviceSet, OnDeviceSet' = OnDeviceSet \ {o}
    PROVE  Unspilled \in Nat /\ Unspilled' = Unspilled - 1
<1>1. IsFiniteSet(OnDeviceSet) /\ Unspilled = Cardinality(OnDeviceSet)
  BY OnDeviceFinite
<1>2. Unspilled' = Cardinality(OnDeviceSet')
  BY DEF OnDeviceSet, Unspilled
<1>3. Cardinality(OnDeviceSet \ {o}) = Cardinality(OnDeviceSet) - 1
  BY <1>1, FS_RemoveElement
<1>. QED  BY <1>1, <1>2, <1>3, FS_CardinalityType

\* Outside of the loops and of their returns the invariant says nothing.
LEMMA ElsewhereKeepsLoop ==
    ASSUME SingleThread, NEW t \in Threads,
           pc'[t] \notin LoopSteps \cup {"end", "expose_lock"}
    PROVE  LoopInv'
<1>1. \A u \in Threads : pc'[u] \notin LoopSteps \cup {"end", "expose_lock"}
  BY DEF SingleThread
<1>. QED
  BY <1>1 DEF LoopInv, TodoSorted, TodoComplete, GoalSuffices, LimitKept,
       InLoop, LoopSteps

\* A loop that has not read the buffers yet, and not for the limit.
LEMMA CallKeepsLoop ==
    ASSUME SingleThread, NEW t \in Threads, pc'[t] = "snapshot",
           \/ ret'[t] = "oom"
           \/ ret'[t] = "user" /\ op'[t] = "spill"
    PROVE  LoopInv'
<1>1. \A u \in Threads : u = t  BY DEF SingleThread
<1>. QED
  BY <1>1 DEF LoopInv, TodoSorted, TodoComplete, GoalSuffices, LimitKept,
       InLoop, LoopSteps, SpillSteps

\* Steps that change nothing the invariant looks at.
LEMMA FrameKeepsLoop ==
    ASSUME LoopInv,
           UNCHANGED <<type, exposed, locks, last, buffers, pc, op, todo, goal,
                       spilled, ret>>
    PROVE  LoopInv'
BY DEF LoopInv, TodoSorted, TodoComplete, GoalSuffices, LimitKept, Unspilled,
     Eligible, spillable, is_spilled

\* Calling spill_device_memory for the limit keeps the invariant.
LEMMA LimitKeepsLoop ==
    ASSUME IInv, SingleThread, NEW t \in Threads, Limit(t)
    PROVE  LoopInv'
<1>1. \A u \in Threads : u = t  BY DEF SingleThread
<1>. USE DEF ownerVars, managerVars, callVars, loopVars, pointerVars, Goto
<1>2. CASE DeviceLimit = NoLimit
  <2>1. pc'[t] \in {"end", "expose_lock"}
    BY <1>2 DEF Limit, AfterLimit, IInv, TypeOK
  <2>. QED
    BY <1>1, <1>2, <2>1 DEF LoopInv, TodoSorted, TodoComplete, GoalSuffices,
         LimitKept, InLoop, LoopSteps, SpillSteps
<1>3. CASE DeviceLimit # NoLimit
  <2>1. /\ pc'[t] = "snapshot" /\ ret'[t] = "limit"
        /\ goal'[t] = Unspilled - DeviceLimit
        /\ Unspilled' = Unspilled
    BY <1>3 DEF Limit, CallSpill, IInv, TypeOK, Unspilled, is_spilled
  <2>2. DeviceLimit \in Nat /\ Unspilled \in Nat
    BY <1>3, ConstantsAssumption, UnspilledType DEF IInv
  <2>3. Unspilled' <= goal'[t] + DeviceLimit
    BY <2>1, <2>2
  <2>. QED
    BY <1>1, <2>1, <2>2, <2>3 DEF LoopInv, TodoSorted, TodoComplete,
         GoalSuffices, LimitKept, InLoop, LoopSteps, SpillSteps
<1>. QED  BY <1>2, <1>3

\* Reading the buffers in the order of their access times keeps the invariant.
LEMMA SnapshotKeepsLoop ==
    ASSUME IInv, LoopInv, SingleThread, NEW t \in Threads, Snapshot(t)
    PROVE  LoopInv'
<1>1. \A u \in Threads : u = t  BY DEF SingleThread
<1>. USE DEF ownerVars, managerVars, callVars, pointerVars, Goto
<1>2. PICK q \in ByAccessTime : todo' = [todo EXCEPT ![t] = q]
  BY DEF Snapshot
<1>3. /\ pc[t] = "snapshot" /\ pc'[t] = "loop"
      /\ todo'[t] = q /\ spilled'[t] = 0
      /\ UNCHANGED <<type, exposed, locks, last, buffers, op, goal, ret>>
  BY <1>2 DEF Snapshot, IInv, TypeOK
<1>4. \A i, j \in DOMAIN q : i < j => last[q[i]] <= last[q[j]]
  BY DEF ByAccessTime
<1>5. \A o \in buffers : \E i \in DOMAIN q : q[i] = o
  BY SnapshotComplete DEF IInv
<1>6. TodoSorted'
  BY <1>1, <1>3, <1>4 DEF TodoSorted
<1>7. TodoComplete'
  BY <1>1, <1>3, <1>5 DEF TodoComplete
<1>8. GoalSuffices'
  <2>1. Unspilled' = Unspilled /\ Unspilled \in Nat
    BY <1>3, UnspilledType DEF Unspilled, is_spilled, IInv
  <2>2. pc[t] \in LoopSteps  BY <1>3 DEF LoopSteps
  <2>. QED
    BY <1>1, <1>3, <2>1, <2>2 DEF GoalSuffices, LoopInv
<1>9. LimitKept'
  BY <1>1, <1>3 DEF LimitKept
<1>. QED  BY <1>6, <1>7, <1>8, <1>9 DEF LoopInv

\* The loop goes on with the same tuple and the same buffers.
LEMMA LoopStepKeepsLoop ==
    ASSUME LoopInv, SingleThread, NEW t \in Threads,
           pc[t] \in InLoop, pc'[t] \in InLoop,
           UNCHANGED <<type, exposed, locks, last, buffers, op, todo, goal,
                       spilled, ret>>
    PROVE  LoopInv'
<1>1. \A u \in Threads : u = t  BY DEF SingleThread
<1>2. pc[t] # "snapshot" /\ pc'[t] # "snapshot" /\ pc[t] \in LoopSteps
  BY DEF InLoop, LoopSteps, SpillSteps
<1>3. Unspilled' = Unspilled /\ \A o : Eligible(o)' = Eligible(o)
  BY DEF Unspilled, is_spilled, Eligible, spillable
<1>4. TodoSorted'
  BY <1>1 DEF TodoSorted, LoopInv
<1>5. TodoComplete'
  BY <1>1, <1>3 DEF TodoComplete, LoopInv
<1>6. GoalSuffices'
  BY <1>1, <1>2, <1>3 DEF GoalSuffices, LoopInv
<1>7. LimitKept'
  BY <1>1 DEF LimitKept, InLoop, SpillSteps
<1>. QED  BY <1>4, <1>5, <1>6, <1>7 DEF LoopInv

\* With one thread every lock of the tuple is free or the loop's own.
LEMMA LoopTryKeepsLoop ==
    ASSUME IInv, LoopInv, SingleThread, NEW t \in Threads, LoopTry(t)
    PROVE  LoopInv'
<1>1. Victim(t) \in Owners
  BY VictimFacts DEF IInv, LoopTry
<1>2. lock[Victim(t)] \in {Null, t}
  BY <1>1 DEF IInv, TypeOK, SingleThread
<1>3. /\ pc[t] \in InLoop /\ pc'[t] \in InLoop
      /\ UNCHANGED <<type, exposed, locks, last, buffers, op, todo, goal,
                     spilled, ret>>
  BY <1>2 DEF LoopTry, Goto, InLoop, SpillSteps, managerVars, callVars, IInv,
       TypeOK
<1>. QED  BY <1>3, LoopStepKeepsLoop

\* The parts of a loop's tuple.
LEMMA HeadAndTail ==
    ASSUME NEW S, NEW q \in Seq(S), q # <<>>
    PROVE  /\ Tail(q) \in Seq(S) /\ Head(q) = q[1] /\ 1 \in DOMAIN q
           /\ \A i \in DOMAIN Tail(q) : /\ i + 1 \in DOMAIN q
                                        /\ Tail(q)[i] = q[i + 1]
           /\ \A i \in DOMAIN q : i = 1 \/ /\ i - 1 \in DOMAIN Tail(q)
                                           /\ Tail(q)[i - 1] = q[i]
OBVIOUS

\* The loop passes a buffer that it cannot spill, or that it has spilled.
LEMMA PassKeepsTuple ==
    ASSUME IInv, LoopInv, SingleThread, NEW t \in Threads,
           pc[t] \in SpillSteps, pc'[t] = "loop",
           todo'[t] = Tail(todo[t]),
           UNCHANGED <<exposed, locks, last, buffers, op, goal>>,
           \A o \in buffers : Eligible(o)' => Eligible(o) /\ o # Victim(t)
    PROVE  TodoSorted' /\ TodoComplete' /\ LimitKept'
<1>1. \A u \in Threads : u = t  BY DEF SingleThread
<1>2. todo[t] \in Seq(Owners) /\ todo[t] # <<>>
  BY DEF IInv, TypeOK, References
<1>3. /\ Victim(t) = todo[t][1]
      /\ \A i \in DOMAIN todo'[t] : /\ i + 1 \in DOMAIN todo[t]
                                    /\ todo'[t][i] = todo[t][i + 1]
      /\ \A i \in DOMAIN todo[t] : i = 1 \/ /\ i - 1 \in DOMAIN todo'[t]
                                            /\ todo'[t][i - 1] = todo[t][i]
  BY <1>2, HeadAndTail DEF Victim
<1>4. pc[t] \in InLoop  BY DEF InLoop
<1>5. TodoSorted'
  <2>. SUFFICES ASSUME op[t] # "spillowner",
                       NEW i \in DOMAIN todo'[t], NEW j \in DOMAIN todo'[t],
                       i < j
                PROVE  last[todo'[t][i]] <= last[todo'[t][j]]
    BY <1>1 DEF TodoSorted
  <2>1. i \in Nat /\ j \in Nat  BY <1>2
  <2>2. i + 1 < j + 1  BY <2>1
  <2>. QED  BY <1>3, <1>4, <2>2 DEF LoopInv, TodoSorted
<1>6. TodoComplete'
  <2>. SUFFICES ASSUME op[t] # "spillowner", NEW o \in buffers, Eligible(o)'
                PROVE  \E i \in DOMAIN todo'[t] : todo'[t][i] = o
    BY <1>1 DEF TodoComplete
  <2>1. Eligible(o) /\ o # Victim(t)  OBVIOUS
  <2>2. PICK i \in DOMAIN todo[t] : todo[t][i] = o
    BY <1>2, <1>4, <2>1 DEF LoopInv, TodoComplete
  <2>. QED  BY <1>3, <2>1, <2>2
<1>7. LimitKept'
  BY <1>1 DEF LimitKept
<1>. QED  BY <1>5, <1>6, <1>7

\* Looking at a buffer of the tuple keeps the invariant.
LEMMA LoopCheckKeepsLoop ==
    ASSUME IInv, LoopInv, SingleThread, NEW t \in Threads, LoopCheck(t)
    PROVE  LoopInv'
<1>1. \A u \in Threads : u = t  BY DEF SingleThread
<1>. USE DEF managerVars, callVars, pointerVars, Goto
<1>2. CASE Eligible(Victim(t))
  <2>1. /\ pc[t] \in InLoop /\ pc'[t] \in InLoop
        /\ UNCHANGED <<type, exposed, locks, last, buffers, op, todo, goal,
                       spilled, ret>>
    BY <1>2 DEF LoopCheck, InLoop, SpillSteps, IInv, TypeOK
  <2>. QED  BY <2>1, LoopStepKeepsLoop
<1>3. CASE ~Eligible(Victim(t))
  <2>1. /\ pc[t] = "check" /\ pc'[t] = "loop"
        /\ todo'[t] = Tail(todo[t])
        /\ UNCHANGED <<type, exposed, locks, last, buffers, op, goal, spilled,
                       ret>>
    BY <1>3 DEF LoopCheck, IInv, TypeOK
  <2>2. \A o \in buffers : Eligible(o)' => Eligible(o) /\ o # Victim(t)
    BY <1>3, <2>1 DEF Eligible, spillable, is_spilled
  <2>3. TodoSorted' /\ TodoComplete' /\ LimitKept'
    BY <2>1, <2>2, PassKeepsTuple DEF SpillSteps
  <2>4. Unspilled' = Unspilled
    BY <2>1 DEF Unspilled, is_spilled
  <2>5. GoalSuffices'
    BY <1>1, <2>1, <2>4 DEF LoopInv, GoalSuffices, LoopSteps, SpillSteps
  <2>. QED  BY <2>3, <2>5 DEF LoopInv
<1>. QED  BY <1>2, <1>3

\* Marking a buffer as spilled brings the loop one buffer closer to its goal.
LEMMA SpillMarkKeepsLoop ==
    ASSUME IInv, LoopInv, SingleThread, NEW t \in Threads, SpillMark(t)
    PROVE  LoopInv'
<1>1. \A u \in Threads : u = t  BY DEF SingleThread
<1>. USE DEF managerVars, callVars, pointerVars, Goto
<1>2. PICK v : v = Victim(t)  OBVIOUS
<1>3. v \in buffers /\ v \in Owners /\ type[v] = "gpu"
  BY <1>2, VictimFacts DEF IInv, References, SpillSteps, SpillMark, Moves,
       Moving
<1>4. /\ pc[t] = "mark" /\ pc'[t] = "loop"
      /\ type' = [type EXCEPT ![v] = "cpu"]
      /\ spilled'[t] = spilled[t] + 1
      /\ todo'[t] = IF spilled[t] + 1 >= goal[t] THEN <<>> ELSE Tail(todo[t])
      /\ UNCHANGED <<exposed, locks, last, buffers, op, goal, ret>>
  BY <1>2 DEF SpillMark, Moved, Enough, IInv, TypeOK
<1>5. \A o \in buffers : Eligible(o)' => Eligible(o) /\ o # v
  BY <1>3, <1>4 DEF Eligible, spillable, is_spilled, IInv, TypeOK
<1>6. GoalSuffices'
  <2>1. v \in OnDeviceSet /\ OnDeviceSet' = OnDeviceSet \ {v}
    BY <1>3, <1>4 DEF OnDeviceSet, is_spilled, IInv, TypeOK
  <2>2. Unspilled \in Nat /\ Unspilled' = Unspilled - 1
    BY <2>1, UnspilledDrops DEF IInv
  <2>3. spilled[t] \in Nat  BY DEF IInv, TypeOK
  <2>4. Unspilled' + spilled'[t] = Unspilled + spilled[t]
    BY <1>4, <2>2, <2>3
  <2>. QED
    BY <1>1, <1>4, <2>4 DEF LoopInv, GoalSuffices, LoopSteps, SpillSteps
<1>7. CASE spilled[t] + 1 >= goal[t]
  <2>1. todo'[t] = <<>> /\ spilled'[t] >= goal'[t]
    BY <1>4, <1>7
  <2>2. TodoSorted' /\ TodoComplete' /\ LimitKept'
    BY <1>1, <1>4, <2>1 DEF TodoSorted, TodoComplete, LimitKept
  <2>. QED  BY <1>6, <2>2 DEF LoopInv
<1>8. CASE ~(spilled[t] + 1 >= goal[t])
  <2>1. TodoSorted' /\ TodoComplete' /\ LimitKept'
    BY <1>2, <1>4, <1>5, <1>8, PassKeepsTuple DEF SpillSteps
  <2>. QED  BY <1>6, <2>1 DEF LoopInv
<1>. QED  BY <1>7, <1>8

\* The loop returns: within the limit, or with nothing left to spill.
LEMMA LoopDoneKeepsLoop ==
    ASSUME IInv, LoopInv, SingleThread, NEW t \in Threads, LoopDone(t)
    PROVE  LoopInv'
<1>1. \A u \in Threads : u = t  BY DEF SingleThread
<1>2. /\ pc[t] = "loop" /\ todo[t] = <<>> /\ ret[t] # "oom"
      /\ pc'[t] \in {"end", "expose_lock"}
      /\ UNCHANGED <<type, exposed, locks, last, buffers, op, goal, spilled,
                     ret>>
  BY DEF LoopDone, AfterLimit, Goto, ownerVars, managerVars, callVars,
       loopVars, IInv, TypeOK
<1>3. TodoSorted' /\ TodoComplete' /\ GoalSuffices'
  BY <1>1, <1>2 DEF TodoSorted, TodoComplete, GoalSuffices, InLoop, LoopSteps,
       SpillSteps
<1>4. LimitKept'
  <2>. SUFFICES ASSUME op[t] \in {"new", "rawptr", "expose"}
                PROVE  \/ Unspilled' <= DeviceLimit
                       \/ \A o \in buffers : (~is_spilled(o) => ~spillable(o))'
    BY <1>1, <1>2 DEF LimitKept
  <2>1. ret[t] = "limit" /\ pc[t] \in LoopSteps /\ pc[t] # "snapshot"
    BY <1>2 DEF LoopInv, GoalSuffices, LoopSteps, IInv, TypeOK
  <2>2. DeviceLimit \in Nat /\ Unspilled + spilled[t] <= goal[t] + DeviceLimit
    BY <2>1 DEF LoopInv, GoalSuffices
  <2>3. Unspilled' = Unspilled /\ Unspilled \in Nat
    BY <1>2, UnspilledType DEF Unspilled, is_spilled, IInv
  <2>4. CASE spilled[t] >= goal[t]
    <3>1. spilled[t] \in Nat /\ goal[t] \in Int  BY DEF IInv, TypeOK
    <3>. QED  BY <2>2, <2>3, <2>4, <3>1
  <2>5. CASE ~(spilled[t] >= goal[t])
    <3>1. ASSUME NEW o \in buffers, Eligible(o)  PROVE FALSE
      BY <1>2, <2>5, <3>1 DEF LoopInv, TodoComplete, InLoop
    <3>2. \A o \in buffers : ~is_spilled(o) => ~spillable(o)
      BY <3>1 DEF Eligible
    <3>. QED  BY <1>2, <3>2 DEF is_spilled, spillable
  <2>. QED  BY <2>4, <2>5
<1>. QED  BY <1>3, <1>4 DEF LoopInv

\* What is freed while the loop runs was neither in its tuple nor to be spilled.
LEMMA CollectKeepsLoop ==
    ASSUME IInv, IInv', LoopInv, NEW p \in Owners, Collect(p)
    PROVE  LoopInv'
<1>1. /\ buffers' = buffers \ {p}
      /\ \A o \in buffers' : type'[o] = type[o] /\ exposed'[o] = exposed[o]
      /\ UNCHANGED <<locks, last, pc, op, todo, goal, spilled, ret>>
  BY DEF Collect, Free, threadVars, callVars, loopVars, IInv, TypeOK
<1>2. \A o \in buffers' : /\ Eligible(o)' = Eligible(o)
                          /\ is_spilled(o)' = is_spilled(o)
                          /\ spillable(o)' = spillable(o)
  BY <1>1 DEF Eligible, is_spilled, spillable
<1>3. OnDeviceSet' \subseteq OnDeviceSet
  BY <1>1, <1>2 DEF OnDeviceSet
<1>4. /\ Unspilled \in Nat /\ Unspilled' \in Nat
      /\ Unspilled' <= Unspilled
  BY <1>3, UnspilledShrinks DEF IInv
<1>5. TodoSorted'
  BY <1>1 DEF LoopInv, TodoSorted
<1>6. TodoComplete'
  BY <1>1, <1>2 DEF LoopInv, TodoComplete
<1>7. GoalSuffices'
  <2>1. \A t \in Threads : spilled[t] \in Nat /\ goal[t] \in Int
    BY DEF IInv, TypeOK
  <2>. QED  BY <1>1, <1>4, <2>1 DEF LoopInv, GoalSuffices
<1>8. LimitKept'
  <2>1. DeviceLimit # NoLimit => DeviceLimit \in Nat
    BY ConstantsAssumption
  <2>. QED  BY <1>1, <1>2, <1>4, <2>1 DEF LoopInv, LimitKept
<1>. QED  BY <1>5, <1>6, <1>7, <1>8 DEF LoopInv

\* Every step of an operation keeps the invariant.
LEMMA ContinueKeepsLoop ==
    ASSUME IInv, LoopInv, SingleThread, NEW t \in Threads, Continue(t)
    PROVE  LoopInv'
<1>. USE DEF Goto
<1>1. CASE \/ PtrTest(t) \/ Acquire(t) \/ PtrTouch(t) \/ ExposeLock(t)
           \/ ExposeSet(t) \/ PtrReturn(t) \/ Unspill(t) \/ UnspillRaises(t)
           \/ Alloc(t) \/ Register(t) \/ OomSpilled(t) \/ OomFail(t)
           \/ OpEnd(t)
  <2>1. pc'[t] \notin LoopSteps \cup {"end", "expose_lock"}
    BY <1>1 DEF IInv, TypeOK, PtrTest, Acquire, PtrTouch, ExposeLock,
         ExposeSet, PtrReturn, Unspill, UnspillRaises, Alloc, Register,
         OomSpilled, OomFail, OpEnd, Finish, AfterUnspill, LoopSteps,
         SpillSteps
  <2>. QED  BY <2>1, ElsewhereKeepsLoop
<1>2. CASE AllocFails(t) \/ OomRetry(t)
  <2>1. pc'[t] = "snapshot" /\ ret'[t] = "oom"
    BY <1>2 DEF IInv, TypeOK, AllocFails, OomRetry, CallSpill
  <2>. QED  BY <2>1, CallKeepsLoop
<1>3. CASE SpillCopy(t) \/ SpillClear(t)
  <2>1. /\ pc[t] \in InLoop /\ pc'[t] \in InLoop
        /\ UNCHANGED <<type, exposed, locks, last, buffers, op, todo, goal,
                       spilled, ret>>
    BY <1>3 DEF IInv, TypeOK, SpillCopy, SpillClear, InLoop, SpillSteps,
         managerVars, callVars, loopVars
  <2>. QED  BY <2>1, LoopStepKeepsLoop
<1>. QED
  BY <1>1, <1>2, <1>3, LimitKeepsLoop, SnapshotKeepsLoop, LoopTryKeepsLoop,
     LoopCheckKeepsLoop, SpillMarkKeepsLoop, LoopDoneKeepsLoop DEF Continue

\* Starting an operation keeps the invariant.
LEMMA StartKeepsLoop ==
    ASSUME IInv, SingleThread, NEW t \in Threads, NEW o \in Owners, Start(t, o)
    PROVE  LoopInv'
<1>1. CASE SpillOwner(t, o)
  <2>1. \A u \in Threads : u = t  BY DEF SingleThread
  <2>2. pc'[t] = "check" /\ op'[t] = "spillowner" /\ ret'[t] = "user"
    BY <1>1 DEF SpillOwner, Begin, Goto, IInv, TypeOK
  <2>. QED
    BY <2>1, <2>2 DEF LoopInv, TodoSorted, TodoComplete, GoalSuffices,
         LimitKept
<1>2. CASE ~SpillOwner(t, o)
  <2>1. pc'[t] \notin LoopSteps \cup {"end", "expose_lock"}
    BY <1>2 DEF IInv, TypeOK, Start, Enter, Serialize, Exit, ReadPtr,
         MarkExposed, NewFromDevice, NewFromHost, Begin, Goto, Idle,
         threadVars, LoopSteps, SpillSteps
  <2>. QED  BY <2>1, ElsewhereKeepsLoop
<1>. QED  BY <1>1, <1>2

\* Initially nothing has been spilled or promised.
LEMMA InitLoop == Init => LoopInv
BY DEF Init, LoopInv, TodoSorted, TodoComplete, GoalSuffices, LimitKept,
     InLoop, LoopSteps, SpillSteps

\* Every step of a program of one thread keeps the invariant.
LEMMA NextLoop ==
    ASSUME IInv, IInv', LoopInv, SingleThread, [Next]_vars
    PROVE  LoopInv'
<1>1. ASSUME NEW t \in Threads, NEW n, SpillDeviceMemory(t, n)
      PROVE  LoopInv'
  <2>1. pc'[t] = "snapshot" /\ ret'[t] = "user" /\ op'[t] = "spill"
    BY <1>1 DEF SpillDeviceMemory, Begin, Goto, CallSpill, IInv, TypeOK
  <2>. QED  BY <2>1, CallKeepsLoop
<1>2. ASSUME NEW o \in Owners, Drop(o) PROVE LoopInv'
  <2>1. UNCHANGED <<type, exposed, locks, last, buffers, pc, op, todo, goal,
                    spilled, ret>>
    BY <1>2 DEF Drop, ownerVars, threadVars, callVars, loopVars
  <2>. QED  BY <2>1, FrameKeepsLoop
<1>3. CASE UNCHANGED vars
  <2>1. UNCHANGED <<type, exposed, locks, last, buffers, pc, op, todo, goal,
                    spilled, ret>>
    BY <1>3 DEF vars, ownerVars, managerVars, threadVars, callVars, loopVars
  <2>. QED  BY <2>1, FrameKeepsLoop
<1>. QED
  BY <1>1, <1>2, <1>3, ContinueKeepsLoop, StartKeepsLoop, CollectKeepsLoop
  DEF Next, Terminated

\* In a program of one thread the tuple of spill_device_memory stays sorted and
\* complete, and its goal suffices for the device limit.
THEOREM LoopInvariance ==
    ASSUME SingleThread
    PROVE  Spec => [](IInv /\ LoopInv)
<1>1. Init => IInv /\ LoopInv
  BY InitInv, InitLoop
<1>2. IInv /\ LoopInv /\ [Next]_vars => (IInv /\ LoopInv)'
  BY NextInv, NextLoop
<1>. QED  BY <1>1, <1>2, PTL DEF Spec

\* In a program of one thread spill_to_device_limit keeps its promise, for any
\* limit: when it returns, the managed buffers on the device are within the
\* limit, or none of those left there can be spilled.
THEOREM LimitCorrect ==
    ASSUME SingleThread
    PROVE  Spec => []LimitKept
<1>1. IInv /\ LoopInv => LimitKept  BY DEF LoopInv
<1>. QED  BY <1>1, LoopInvariance, PTL

\* In a program of one thread spill_device_memory takes the least recently used
\* of the buffers that it could take.
THEOREM LeastRecentlyUsedCorrect ==
    ASSUME SingleThread
    PROVE  Spec => []LeastRecentlyUsedFirst
<1>1. ASSUME IInv, LoopInv PROVE LeastRecentlyUsedFirst
  <2>. SUFFICES ASSUME NEW t \in Threads, NEW o \in buffers,
                       pc[t] = "copy", op[t] # "spillowner", Eligible(o)
                PROVE  last[Victim(t)] <= last[o]
    BY DEF LeastRecentlyUsedFirst, Eligible
  <2>1. todo[t] \in Seq(Owners) /\ todo[t] # <<>>
    BY <1>1 DEF IInv, TypeOK, References, SpillSteps
  <2>2. Victim(t) = todo[t][1] /\ 1 \in DOMAIN todo[t]
    BY <2>1, HeadAndTail DEF Victim
  <2>3. pc[t] \in InLoop  BY DEF InLoop, SpillSteps
  <2>4. PICK i \in DOMAIN todo[t] : todo[t][i] = o
    BY <1>1, <2>1, <2>3 DEF LoopInv, TodoComplete
  <2>5. CASE i = 1
    <3>1. last[o] \in Int  BY <1>1 DEF IInv, TypeOK
    <3>. QED  BY <2>2, <2>4, <2>5, <3>1
  <2>6. CASE i # 1
    <3>1. 1 < i  BY <2>1, <2>6
    <3>. QED  BY <1>1, <2>2, <2>3, <2>4, <3>1 DEF LoopInv, TodoSorted
  <2>. QED  BY <2>5, <2>6
<1>. QED  BY <1>1, LoopInvariance, PTL

-----------------------------------------------------------------------------
(* Refinement: what the mapping needs besides the invariant *)

\* What a thread has in hand: the memory of the owner it is registering, and
\* the host copy of the owner it is spilling.
InHand ==
    \A t \in Threads :
        /\ pc[t] = "register" => ptr[cur[t]] \in Slots
        /\ pc[t] \in {"clear", "mark"} => host[Victim(t)]

\* The other threads stay where they are.
OthersStay(t) ==
    \A u \in Threads \ {t} :
        /\ pc'[u] = pc[u] /\ op'[u] = op[u] /\ cur'[u] = cur[u]
        /\ todo'[u] = todo[u] /\ ret'[u] = ret[u]

\* A step of thread t that moves no data and lends no pointer.
Quiet(t) ==
    /\ UNCHANGED <<ptr, host, exposed, got, buffers>>
    /\ OthersStay(t)
    /\ pc'[t] \notin {"register", "clear", "mark"}
    /\ \A o \in Owners : Carries(t, o)' <=> Carries(t, o)

\* The steps of an operation that only pass on locks and loop variables.
LEMMA QuietContinue ==
    ASSUME IInv, NEW t \in Threads,
           \/ PtrTest(t) \/ Acquire(t) \/ ExposeLock(t) \/ UnspillRaises(t)
           \/ AllocFails(t) \/ Limit(t) \/ Snapshot(t)
           \/ LoopTry(t) \/ LoopCheck(t) \/ SpillMark(t) \/ LoopDone(t)
           \/ OomSpilled(t) \/ OpEnd(t)
    PROVE  Quiet(t)
<1>0. /\ pc \in [Threads -> Steps] /\ op \in [Threads -> Ops]
      /\ cur \in [Threads -> Owners \cup {Null}]
      /\ todo \in [Threads -> Seq(Owners)]
      /\ ret \in [Threads -> {"oom", "limit", "user"}]
  BY DEF IInv, TypeOK
<1>. USE <1>0 DEF Quiet, OthersStay, Carries, Goto, ownerVars, managerVars,
                  callVars, loopVars, pointerVars
<1>1. CASE PtrTest(t)
  BY <1>1 DEF PtrTest
<1>2. CASE Acquire(t) \/ ExposeLock(t)
  BY <1>2 DEF Acquire, ExposeLock
<1>3. CASE UnspillRaises(t)
  BY <1>3 DEF UnspillRaises, Finish
<1>4. CASE AllocFails(t)
  BY <1>4 DEF AllocFails, CallSpill
<1>5. CASE Limit(t)
  BY <1>5 DEF Limit, CallSpill, AfterLimit
<1>6. CASE Snapshot(t)
  BY <1>6 DEF Snapshot
<1>7. CASE LoopTry(t)
  BY <1>7 DEF LoopTry
<1>8. CASE LoopCheck(t)
  BY <1>8 DEF LoopCheck
<1>9. CASE SpillMark(t)
  BY <1>9 DEF SpillMark
<1>10. CASE LoopDone(t)
  BY <1>10 DEF LoopDone, AfterLimit
<1>11. CASE OomSpilled(t)
  BY <1>11 DEF OomSpilled
<1>12. CASE OpEnd(t)
  BY <1>12 DEF OpEnd, Finish
<1>. QED
  BY <1>1, <1>2, <1>3, <1>4, <1>5, <1>6, <1>7, <1>8, <1>9, <1>10, <1>11, <1>12

\* So do the operations that start without moving data.
LEMMA QuietStart ==
    ASSUME IInv, NEW t \in Threads,
           \/ \E o \in Owners : \/ Enter(t, o) \/ ReadPtr(t, o)
                                \/ MarkExposed(t, o) \/ SpillOwner(t, o)
                                \/ NewFromDevice(t, o)
           \/ \E n \in Nat : SpillDeviceMemory(t, n)
    PROVE  Quiet(t)
<1>0. /\ pc \in [Threads -> Steps] /\ op \in [Threads -> Ops]
      /\ cur \in [Threads -> Owners \cup {Null}]
      /\ todo \in [Threads -> Seq(Owners)]
      /\ ret \in [Threads -> {"oom", "limit", "user"}]
  BY DEF IInv, TypeOK
<1>. USE <1>0 DEF Quiet, OthersStay, Carries, Goto, Begin, Idle, ownerVars,
                  managerVars, callVars, loopVars, pointerVars
<1>1. ASSUME NEW o \in Owners, Enter(t, o) PROVE Quiet(t)
  BY <1>1 DEF Enter
<1>2. ASSUME NEW o \in Owners, ReadPtr(t, o) PROVE Quiet(t)
  BY <1>2 DEF ReadPtr
<1>3. ASSUME NEW o \in Owners, MarkExposed(t, o) PROVE Quiet(t)
  BY <1>3 DEF MarkExposed
<1>4. ASSUME NEW o \in Owners, SpillOwner(t, o) PROVE Quiet(t)
  BY <1>4 DEF SpillOwner
<1>5. ASSUME NEW o \in Owners, NewFromDevice(t, o) PROVE Quiet(t)
  BY <1>5 DEF NewFromDevice
<1>6. ASSUME NEW n \in Nat, SpillDeviceMemory(t, n) PROVE Quiet(t)
  BY <1>6 DEF SpillDeviceMemory, CallSpill
<1>. QED  BY <1>1, <1>2, <1>3, <1>4, <1>5, <1>6

-----------------------------------------------------------------------------
(* Every step keeps what the threads have in hand *)

\* A thread that steps to no such step, over memory that stays.
LEMMA InHandFrame ==
    ASSUME InHand, NEW t \in Threads, OthersStay(t),
           pc'[t] \notin {"register", "clear", "mark"},
           \A u \in Threads \ {t} :
                /\ pc[u] = "register" => ptr'[cur[u]] = ptr[cur[u]]
                /\ pc[u] \in {"clear", "mark"} => host'[Victim(u)] = host[Victim(u)]
    PROVE  InHand'
<1>. SUFFICES ASSUME NEW u \in Threads
              PROVE  /\ pc'[u] = "register" => ptr'[cur'[u]] \in Slots
                     /\ pc'[u] \in {"clear", "mark"} => host'[Victim(u)']
  BY DEF InHand, Victim
<1>1. CASE u = t
  BY <1>1
<1>2. CASE u # t
  <2>1. Victim(u)' = Victim(u) /\ pc'[u] = pc[u] /\ cur'[u] = cur[u]
    BY <1>2 DEF OthersStay, Victim
  <2>. QED  BY <1>2, <2>1 DEF InHand
<1>. QED  BY <1>1, <1>2

\* What the owners in hand are: not the ones that others move.
LEMMA InHandApart ==
    ASSUME IInv, NEW u \in Threads
    PROVE  /\ pc[u] = "register" => /\ cur[u] \in Owners \ buffers
                                    /\ \A t \in Threads : cur[t] = cur[u] => t = u
           /\ pc[u] \in {"clear", "mark"} =>
                /\ Victim(u) \in buffers /\ lock[Victim(u)] = u
                /\ \E i \in DOMAIN todo[u] : todo[u][i] = Victim(u)
<1>1. ASSUME pc[u] = "register"
      PROVE  /\ cur[u] \in Owners \ buffers
             /\ \A t \in Threads : cur[t] = cur[u] => t = u
  BY <1>1 DEF IInv, StepsOfOps, OwnersOfOps
<1>2. ASSUME pc[u] \in {"clear", "mark"}
      PROVE  /\ Victim(u) \in buffers /\ lock[Victim(u)] = u
             /\ \E i \in DOMAIN todo[u] : todo[u][i] = Victim(u)
  <2>1. todo[u] # <<>> /\ todo[u] \in Seq(Owners) /\ lock[Victim(u)] = u
    BY <1>2 DEF IInv, References, SpillSteps, LocksHeld, TypeOK
  <2>2. Victim(u) \in buffers
    BY <2>1, VictimFacts DEF IInv
  <2>3. 1 \in DOMAIN todo[u] /\ todo[u][1] = Victim(u)
    BY <2>1 DEF Victim
  <2>. QED  BY <2>1, <2>2, <2>3
<1>. QED  BY <1>1, <1>2

\* Freeing garbage.
LEMMA FreeKeepsInHand ==
    ASSUME IInv, InHand, NEW S, S \subseteq Garbage, Free(S),
           UNCHANGED <<cur, todo>>,
           \A u \in Threads : pc'[u] \in {"register", "clear", "mark"}
             => pc'[u] = pc[u]
    PROVE  InHand'
<1>. SUFFICES ASSUME NEW u \in Threads
              PROVE  /\ pc'[u] = "register" => ptr'[cur[u]] \in Slots
                     /\ pc'[u] \in {"clear", "mark"} => host'[Victim(u)]
  BY DEF InHand, Victim
<1>1. ASSUME pc'[u] = "register" PROVE ptr'[cur[u]] \in Slots
  <2>1. pc[u] = "register" /\ cur[u] \in Owners \ buffers
    BY <1>1, InHandApart
  <2>2. cur[u] \notin S
    BY <2>1 DEF Garbage
  <2>. QED  BY <2>1, <2>2 DEF Free, InHand
<1>2. ASSUME pc'[u] \in {"clear", "mark"} PROVE host'[Victim(u)]
  <2>1. /\ pc[u] \in {"clear", "mark"} /\ Victim(u) \in buffers
        /\ \E i \in DOMAIN todo[u] : todo[u][i] = Victim(u)
    BY <1>2, InHandApart
  <2>2. Victim(u) \notin S /\ Victim(u) \in Owners
    BY <2>1 DEF Garbage, IInv, TypeOK
  <2>. QED  BY <2>1, <2>2 DEF Free, InHand
<1>. QED  BY <1>1, <1>2

\* The steps of an operation that move data.
LEMMA ContinueKeepsInHand ==
    ASSUME IInv, InHand, NEW t \in Threads, Continue(t)
    PROVE  InHand'
<1>0. /\ pc \in [Threads -> Steps] /\ op \in [Threads -> Ops]
      /\ cur \in [Threads -> Owners \cup {Null}]
      /\ todo \in [Threads -> Seq(Owners)]
      /\ ret \in [Threads -> {"oom", "limit", "user"}]
      /\ host \in [Owners -> BOOLEAN] /\ ptr \in [Owners -> Slots \cup {Null}]
  BY DEF IInv, TypeOK
<1>. USE DEF OthersStay, Goto, ownerVars, managerVars, callVars, loopVars,
             pointerVars
<1>1. CASE Quiet(t)
  BY <1>1, InHandFrame DEF Quiet
<1>2. CASE PtrTouch(t) \/ PtrReturn(t)
  <2>1. OthersStay(t) /\ pc'[t] = "idle" /\ UNCHANGED <<ptr, host>>
    BY <1>0, <1>2 DEF PtrTouch, PtrReturn, Finish
  <2>. QED  BY <2>1, InHandFrame
<1>3. CASE ExposeSet(t)
  <2>1. OthersStay(t) /\ pc'[t] \in {"idle", "return"} /\ UNCHANGED <<ptr, host>>
    BY <1>0, <1>3 DEF ExposeSet, Finish
  <2>. QED  BY <2>1, InHandFrame
<1>4. CASE Unspill(t)
  <2>1. /\ OthersStay(t) /\ pc'[t] \in {"alloc", "touch", "expose_set"}
        /\ UNCHANGED ptr
        /\ \A o \in Owners \ {cur[t]} : host'[o] = host[o]
    BY <1>0, <1>4 DEF Unspill, AfterUnspill
  <2>2. lock[cur[t]] = t
    BY <1>4 DEF IInv, LocksHeld, Unspill
  <2>3. ASSUME NEW u \in Threads \ {t}, pc[u] \in {"clear", "mark"}
        PROVE  host'[Victim(u)] = host[Victim(u)]
    <3>1. Victim(u) \in Owners /\ Victim(u) # cur[t]
      BY <2>2, <2>3, InHandApart DEF IInv, TypeOK
    <3>. QED  BY <2>1, <3>1
  <2>. QED  BY <2>1, <2>3, InHandFrame
<1>5. CASE Alloc(t)
  <2>1. PICK s \in Slots : ptr' = [ptr EXCEPT ![cur[t]] = s]
    BY <1>5 DEF Alloc
  <2>2. /\ OthersStay(t) /\ UNCHANGED <<host, cur, todo>>
        /\ IF op[t] = "new" THEN pc'[t] = "register"
                            ELSE pc'[t] \in {"touch", "expose_set"}
    BY <1>0, <1>5 DEF Alloc, AfterUnspill
  <2>3. cur[t] \in Owners
    BY <1>5 DEF IInv, TypeOK, StepsOfOps, OwnersOfOps, Alloc, Unspilling
  <2>. SUFFICES ASSUME NEW u \in Threads
                PROVE  /\ pc'[u] = "register" => ptr'[cur[u]] \in Slots
                       /\ pc'[u] \in {"clear", "mark"} => host[Victim(u)]
    BY <2>2 DEF InHand, Victim
  <2>4. CASE u = t
    BY <1>0, <2>1, <2>2, <2>3, <2>4
  <2>5. CASE u # t
    BY <1>0, <2>1, <2>2, <2>5, InHandApart DEF InHand
  <2>. QED  BY <2>4, <2>5
<1>6. CASE Register(t)
  <2>1. OthersStay(t) /\ pc'[t] = "limit" /\ UNCHANGED <<ptr, host>>
    BY <1>0, <1>6 DEF Register
  <2>. QED  BY <2>1, InHandFrame
<1>7. CASE SpillCopy(t)
  <2>1. /\ OthersStay(t) /\ pc'[t] = "clear" /\ UNCHANGED <<ptr, cur, todo>>
        /\ host' = [host EXCEPT ![Victim(t)] = TRUE]
    BY <1>0, <1>7 DEF SpillCopy
  <2>2. Victim(t) \in Owners
    <3>1. todo[t] # <<>>
      BY <1>7 DEF IInv, References, SpillCopy, SpillSteps
    <3>. QED  BY <3>1, VictimFacts DEF IInv
  <2>3. \A o \in Owners : host[o] => host'[o]
    BY <1>0, <2>1
  <2>. SUFFICES ASSUME NEW u \in Threads
                PROVE  /\ pc'[u] = "register" => ptr[cur[u]] \in Slots
                       /\ pc'[u] \in {"clear", "mark"} => host'[Victim(u)]
    BY <2>1 DEF InHand, Victim
  <2>4. CASE u = t
    BY <1>0, <2>1, <2>2, <2>4
  <2>5. CASE u # t
    BY <2>1, <2>3, <2>5, InHandApart DEF InHand, IInv, TypeOK
  <2>. QED  BY <2>4, <2>5
<1>8. CASE SpillClear(t)
  <2>1. /\ OthersStay(t) /\ pc'[t] = "mark" /\ UNCHANGED <<host, cur, todo>>
        /\ ptr' = [ptr EXCEPT ![Victim(t)] = Null] /\ pc[t] = "clear"
    BY <1>0, <1>8 DEF SpillClear
  <2>2. Victim(t) \in buffers
    BY <2>1, InHandApart
  <2>. SUFFICES ASSUME NEW u \in Threads
                PROVE  /\ pc'[u] = "register" => ptr'[cur[u]] \in Slots
                       /\ pc'[u] \in {"clear", "mark"} => host[Victim(u)]
    BY <2>1 DEF InHand, Victim
  <2>3. CASE u = t
    BY <2>1, <2>3 DEF InHand
  <2>4. CASE u # t
    BY <1>0, <2>1, <2>2, <2>4, InHandApart DEF InHand
  <2>. QED  BY <2>3, <2>4
<1>9. CASE OomRetry(t)
  <2>1. /\ Free(Garbage) /\ UNCHANGED <<cur, todo>>
        /\ pc' = [pc EXCEPT ![t] = "snapshot"]
    BY <1>9 DEF OomRetry
  <2>2. \A u \in Threads : pc'[u] \in {"register", "clear", "mark"}
          => pc'[u] = pc[u]
    BY <1>0, <2>1
  <2>3. \A S : S = Garbage => InHand'
    BY <2>1, <2>2, FreeKeepsInHand
  <2>. QED  BY <2>3
<1>10. CASE OomFail(t)
  <2>1. OthersStay(t) /\ pc'[t] = "idle" /\ UNCHANGED <<ptr, host>>
    BY <1>0, <1>10 DEF OomFail, Finish
  <2>. QED  BY <2>1, InHandFrame
<1>. QED
  BY <1>1, <1>2, <1>3, <1>4, <1>5, <1>6, <1>7, <1>8, <1>9, <1>10,
     QuietContinue DEF Continue

\* Operations that start, the program and the collector.
LEMMA NextInHand == IInv /\ InHand /\ [Next]_vars => InHand'
<1>. SUFFICES ASSUME IInv, InHand, [Next]_vars PROVE InHand'
  OBVIOUS
<1>0. /\ pc \in [Threads -> Steps] /\ host \in [Owners -> BOOLEAN]
      /\ cur \in [Threads -> Owners \cup {Null}] /\ op \in [Threads -> Ops]
      /\ todo \in [Threads -> Seq(Owners)]
      /\ ret \in [Threads -> {"oom", "limit", "user"}]
  BY DEF IInv, TypeOK
<1>1. ASSUME NEW t \in Threads, Quiet(t) PROVE InHand'
  BY <1>1, InHandFrame DEF Quiet
<1>2. ASSUME NEW t \in Threads, Continue(t) PROVE InHand'
  BY <1>2, ContinueKeepsInHand
<1>3. ASSUME NEW t \in Threads, NEW o \in Owners,
             Serialize(t, o) \/ Exit(t, o)
      PROVE  InHand'
  BY <1>3 DEF Serialize, Exit, InHand, Victim, loopVars, callVars, threadVars
<1>4. ASSUME NEW t \in Threads, NEW o \in Owners, NewFromHost(t, o)
      PROVE  InHand'
  <2>1. /\ OthersStay(t) /\ pc'[t] = "limit" /\ UNCHANGED ptr
        /\ host' = [host EXCEPT ![o] = TRUE] /\ o \notin buffers
    BY <1>0, <1>4
       DEF NewFromHost, Begin, Goto, OthersStay, loopVars
  <2>2. \A u \in Threads : pc[u] \in {"clear", "mark"}
          => host'[Victim(u)] = host[Victim(u)]
    <3>1. \A u \in Threads : pc[u] \in {"clear", "mark"}
            => Victim(u) \in Owners /\ Victim(u) # o
      BY <2>1, InHandApart DEF IInv, TypeOK
    <3>. QED  BY <1>0, <2>1, <3>1
  <2>. QED  BY <2>1, <2>2, InHandFrame
<1>5. ASSUME NEW t \in Threads, NEW o \in Owners, Start(t, o) PROVE InHand'
  BY <1>1, <1>3, <1>4, <1>5, QuietStart DEF Start
<1>6. ASSUME NEW t \in Threads, NEW n \in 1..Cardinality(Owners),
             SpillDeviceMemory(t, n)
      PROVE  InHand'
  <2>1. n \in Nat  BY UnspilledType DEF IInv
  <2>. QED  BY <1>1, <1>6, <2>1, QuietStart
<1>7. ASSUME NEW o \in Owners, Drop(o) PROVE InHand'
  BY <1>7 DEF Drop, InHand, Victim, ownerVars, threadVars, loopVars, callVars
<1>8. ASSUME NEW o \in Owners, Collect(o) PROVE InHand'
  <2>1. /\ {o} \subseteq Garbage /\ Free({o}) /\ UNCHANGED <<cur, todo>>
        /\ pc' = pc
    BY <1>8 DEF Collect, threadVars, loopVars, callVars
  <2>. QED  BY <2>1, FreeKeepsInHand
<1>9. CASE UNCHANGED vars
  BY <1>9 DEF vars, InHand, Victim, ownerVars, threadVars, loopVars, callVars
<1>. QED  BY <1>2, <1>5, <1>6, <1>7, <1>8, <1>9 DEF Next, Terminated

\* The invariant the refinement rests on.
LEMMA SpecInHand == Spec => [](IInv /\ InHand)
<1>1. Init => InHand
  BY DEF Init, InHand
<1>. QED  BY <1>1, InitInv, NextInv, NextInHand, PTL DEF Spec

-----------------------------------------------------------------------------
(* The steps of the store *)

\* The refinement mapping: where the data of an owner is ...
StorePlace == [o \in Owners |-> Place(o)]

\* ... and the threads that hold its pointer.
StoreLent == [o \in Owners |-> {t \in Threads : got[t][o] # NoPtr}]

\* The place of a buffer depends on its pointer, its host copy, the manager's
\* list, and on who carries it.
LEMMA PlaceKept ==
    ASSUME NEW t \in Threads, OthersStay(t), NEW o \in Owners,
           ptr'[o] = ptr[o], host'[o] = host[o], o \in buffers' <=> o \in buffers,
           Carries(t, o)' <=> Carries(t, o)
    PROVE  Place(o)' = Place(o)
<1>1. \A u \in Threads : Carries(u, o)' <=> Carries(u, o)
  BY DEF OthersStay, Carries
<1>2. (\E u \in Threads : Carries(u, o))' <=> \E u \in Threads : Carries(u, o)
  BY <1>1
<1>. QED  BY <1>2 DEF Place

\* A quiet step changes nothing in the store.
LEMMA QuietStutters ==
    ASSUME NEW t \in Threads, Quiet(t)
    PROVE  StorePlace' = StorePlace /\ StoreLent' = StoreLent /\ exposed' = exposed
<1>1. \A o \in Owners : Place(o)' = Place(o)
  BY PlaceKept DEF Quiet
<1>. QED  BY <1>1 DEF StorePlace, StoreLent, Quiet

\* Only one thread carries an owner, which is then neither on the device nor
\* on the host.
LEMMA CarrierFacts ==
    ASSUME IInv, NEW t \in Threads, NEW o \in Owners, Carries(t, o)
    PROVE  /\ lock[o] = t /\ ~host[o] /\ ptr[o] = Null /\ o \in buffers
           /\ \A u \in Threads : Carries(u, o) => u = t
           /\ Place(o) = "host"
<1>1. \A u \in Threads : Carries(u, o) => Carries(u, cur[u]) /\ cur[u] = o
  BY DEF Carries
<1>2. \A u \in Threads : Carries(u, o) => lock[o] = u
  BY <1>1 DEF IInv, LocksHeld
<1>3. ~host[o] /\ type[o] = "cpu"
  BY <1>1 DEF IInv, Moves
<1>4. ptr[o] = Null
  BY <1>3 DEF IInv, Residency
<1>5. op[t] \in Unspilling \cup {"new"} /\ op[t] # "new"
  BY DEF IInv, Carries, StepsOfOps, LoopSteps, SpillSteps
<1>6. o \in buffers
  BY <1>1, <1>5 DEF IInv, OwnersOfOps
<1>. QED
  BY <1>2, <1>3, <1>4, <1>6, ConstantsAssumption DEF Place

\* A pointer goes into a context of its reader: it is lent.
LEMMA GotLends ==
    ASSUME IInv, NEW t \in Threads, NEW o \in Owners, ptr[o] \in Slots,
           got' = [got EXCEPT ![t][o] = ptr[o]],
           StorePlace' = StorePlace, exposed' = exposed
    PROVE  Store!Lend(t, o)
<1>1. ptr[o] # NoPtr
  BY ConstantsAssumption
<1>2. got \in [Threads -> [Owners -> Slots \cup {Null, NoPtr}]]
  BY DEF IInv, TypeOK
<1>3. /\ got'[t][o] = ptr[o]
      /\ \A u \in Threads, p \in Owners :
            ~(u = t /\ p = o) => got'[u][p] = got[u][p]
  BY <1>2
<1>4. StoreLent' = [StoreLent EXCEPT ![o] = @ \cup {t}]
  <2>1. {u \in Threads : got'[u][o] # NoPtr}
          = {u \in Threads : got[u][o] # NoPtr} \cup {t}
    BY <1>1, <1>3
  <2>2. \A p \in Owners \ {o} : {u \in Threads : got'[u][p] # NoPtr}
          = {u \in Threads : got[u][p] # NoPtr}
    BY <1>3
  <2>. QED  BY <2>1, <2>2 DEF StoreLent
<1>5. StorePlace[o] = "device"
  BY DEF StorePlace, Place
<1>. QED  BY <1>4, <1>5 DEF Store!Lend, StoreLent, StorePlace

\* Reading ptr: the pointer is lent, or handed out to a reader without context.
LEMMA DeliverSteps ==
    ASSUME IInv, NEW t \in Threads, PtrTouch(t) \/ PtrReturn(t)
    PROVE  \/ \E o \in Owners : Store!Lend(t, o)
           \/ /\ StorePlace' = StorePlace /\ StoreLent' = StoreLent
              /\ exposed' = exposed
<1>. DEFINE o == cur[t]
<1>0. /\ pc \in [Threads -> Steps] /\ op \in [Threads -> Ops]
      /\ cur \in [Threads -> Owners \cup {Null}]
      /\ todo \in [Threads -> Seq(Owners)]
      /\ ret \in [Threads -> {"oom", "limit", "user"}]
  BY DEF IInv, TypeOK
<1>1. /\ OthersStay(t) /\ pc[t] \in {"touch", "return"} /\ pc'[t] = "idle"
      /\ UNCHANGED <<ptr, host, exposed, buffers>> /\ Deliver(t, o)
  BY <1>0 DEF PtrTouch, PtrReturn, Finish, Goto, OthersStay, ownerVars,
              managerVars
<1>2. \A p \in Owners : ~Carries(t, p) /\ ~Carries(t, p)'
  BY <1>1 DEF Carries
<1>3. StorePlace' = StorePlace
  BY <1>1, <1>2, PlaceKept DEF StorePlace
<1>4. o \in Owners
  BY <1>1 DEF IInv, TypeOK, StepsOfOps, OwnersOfOps, Unspilling
<1>5. CASE t \in locks[o]
  <2>1. type[o] = "gpu"
    BY <1>1, <1>4, <1>5 DEF IInv, Moves, Residency
  <2>2. ptr[o] \in Slots
    BY <1>4, <1>5, <2>1, OnDevice
  <2>3. got' = [got EXCEPT ![t][o] = ptr[o]]
    BY <1>1, <1>5 DEF Deliver
  <2>4. \A p \in Owners : p = o => Store!Lend(t, p)
    BY <1>1, <1>3, <2>2, <2>3, GotLends
  <2>. QED  BY <1>4, <2>4
<1>6. CASE t \notin locks[o]
  BY <1>1, <1>3, <1>6 DEF Deliver, StoreLent
<1>. QED  BY <1>5, <1>6

\* mark_exposed exposes a buffer that is on the device.
LEMMA ExposeSetExposes ==
    ASSUME IInv, NEW t \in Threads, ExposeSet(t)
    PROVE  \E o \in Owners : Store!Expose(o)
<1>0. /\ pc \in [Threads -> Steps] /\ op \in [Threads -> Ops]
      /\ cur \in [Threads -> Owners \cup {Null}]
      /\ todo \in [Threads -> Seq(Owners)]
      /\ ret \in [Threads -> {"oom", "limit", "user"}]
  BY DEF IInv, TypeOK
<1>1. /\ OthersStay(t) /\ pc[t] = "expose_set" /\ pc'[t] \in {"idle", "return"}
      /\ UNCHANGED <<ptr, host, got, buffers>>
      /\ exposed' = [exposed EXCEPT ![cur[t]] = TRUE]
  BY <1>0 DEF ExposeSet, Finish, Goto, OthersStay, callVars, loopVars,
              managerVars, pointerVars
<1>2. \A p \in Owners : ~Carries(t, p) /\ ~Carries(t, p)'
  BY <1>1 DEF Carries
<1>3. StorePlace' = StorePlace /\ StoreLent' = StoreLent
  BY <1>1, <1>2, PlaceKept DEF StorePlace, StoreLent
<1>4. cur[t] \in Owners /\ type[cur[t]] = "gpu" /\ lock[cur[t]] = t
  BY <1>1 DEF IInv, TypeOK, StepsOfOps, OwnersOfOps, Unspilling, Moves,
              LocksHeld
<1>5. ptr[cur[t]] \in Slots
  <2>1. ASSUME NEW u \in Threads, pc[u] = "mark", Victim(u) = cur[t] PROVE FALSE
    BY <1>1, <1>4, <2>1, InHandApart
  <2>. QED  BY <1>4, <2>1 DEF IInv, TypeOK, Residency
<1>6. StorePlace[cur[t]] = "device"
  BY <1>4, <1>5 DEF StorePlace, Place
<1>7. \A o \in Owners : o = cur[t] => Store!Expose(o)
  BY <1>1, <1>3, <1>6 DEF Store!Expose, StorePlace, StoreLent
<1>. QED  BY <1>4, <1>7

\* Popping the host copy puts the data into the hands of the thread.
LEMMA UnspillStutters ==
    ASSUME IInv, NEW t \in Threads, Unspill(t)
    PROVE  StorePlace' = StorePlace /\ StoreLent' = StoreLent /\ exposed' = exposed
<1>0. /\ pc \in [Threads -> Steps] /\ host \in [Owners -> BOOLEAN]
  BY DEF IInv, TypeOK
<1>1. /\ OthersStay(t) /\ pc[t] = "unspill"
      /\ UNCHANGED <<ptr, exposed, got, buffers, op, cur, ret>>
      /\ cur[t] \in Owners /\ op[t] # "new"
  BY <1>0 DEF Unspill, Goto, OthersStay, IInv, TypeOK, StepsOfOps, OwnersOfOps,
              Unspilling, callVars, loopVars, managerVars, pointerVars
<1>2. \A p \in Owners : ~Carries(t, p)
  BY <1>1 DEF Carries
<1>3. CASE is_spilled(cur[t])
  <2>1. /\ host[cur[t]] /\ host' = [host EXCEPT ![cur[t]] = FALSE]
        /\ pc'[t] = "alloc"
    BY <1>0, <1>3 DEF Unspill, Goto
  <2>2. \A p \in Owners \ {cur[t]} : ~Carries(t, p)' /\ host'[p] = host[p]
    BY <1>0, <1>1, <2>1 DEF Carries
  <2>3. \A p \in Owners \ {cur[t]} : Place(p)' = Place(p)
    BY <1>1, <1>2, <2>2, PlaceKept
  <2>4. \A p \in Owners : p = cur[t] => Place(p)' = Place(p)
    <3>1. \A p \in Owners : p = cur[t] => Carries(t, p)'
      BY <1>1, <2>1 DEF Carries
    <3>2. \A p \in Owners : p = cur[t] => (\E u \in Threads : Carries(u, p))'
      BY <3>1
    <3>. QED  BY <1>1, <2>1, <3>2 DEF Place
  <2>. QED  BY <1>1, <2>3, <2>4 DEF StorePlace, StoreLent
<1>4. CASE ~is_spilled(cur[t])
  <2>1. host' = host /\ pc'[t] \in {"touch", "expose_set"}
    BY <1>0, <1>4 DEF Unspill, Goto, AfterUnspill
  <2>2. \A p \in Owners : ~Carries(t, p)'
    BY <2>1 DEF Carries
  <2>. QED  BY <1>1, <1>2, <2>1, <2>2, PlaceKept DEF StorePlace, StoreLent
<1>. QED  BY <1>3, <1>4

\* The allocation makes a new buffer, or brings a spilled one back.
LEMMA AllocSteps ==
    ASSUME IInv, NEW t \in Threads, Alloc(t)
    PROVE  \E o \in Owners : Store!Create(o) \/ Store!Unspill(o)
<1>0. pc \in [Threads -> Steps] /\ ptr \in [Owners -> Slots \cup {Null}]
  BY DEF IInv, TypeOK
<1>1. /\ OthersStay(t) /\ pc[t] = "alloc"
      /\ UNCHANGED <<host, exposed, got, buffers, op, cur, ret>>
      /\ IF op[t] = "new" THEN pc'[t] = "register"
                          ELSE pc'[t] \in {"touch", "expose_set"}
  BY <1>0 DEF Alloc, AfterUnspill, Goto, OthersStay, callVars, loopVars,
              pointerVars
<1>2. cur[t] \in Owners
  BY <1>1 DEF IInv, TypeOK, StepsOfOps, OwnersOfOps, Unspilling
<1>3. PICK s \in Slots : ptr' = [ptr EXCEPT ![cur[t]] = s]
  BY DEF Alloc
<1>4. PICK o \in Owners : o = cur[t]
  BY <1>2
<1>5. ptr'[o] = s /\ \A p \in Owners \ {o} : ptr'[p] = ptr[p]
  BY <1>0, <1>3, <1>4
<1>6. \A p \in Owners \ {o} : ~Carries(t, p) /\ ~Carries(t, p)'
  BY <1>1, <1>4 DEF Carries
<1>7. \A p \in Owners \ {o} : Place(p)' = Place(p)
  BY <1>1, <1>5, <1>6, PlaceKept
<1>8. Place(o)' = "device"
  BY <1>5 DEF Place
<1>9. StorePlace' = [StorePlace EXCEPT ![o] = "device"] /\ StoreLent' = StoreLent
  BY <1>1, <1>7, <1>8 DEF StorePlace, StoreLent
<1>10. CASE op[t] = "new"
  <2>1. o \notin buffers /\ \A u \in Threads : cur[u] = o => u = t
    BY <1>1, <1>4, <1>10 DEF IInv, OwnersOfOps
  <2>2. ~\E u \in Threads : pc[u] = "register" /\ cur[u] = o
    BY <1>1, <2>1
  <2>3. type[o] = "cpu"
    BY <2>1, <2>2 DEF IInv, Residency, TypeOK
  <2>4. Place(o) = "none"
    BY <2>1, <2>3, ConstantsAssumption DEF IInv, Residency, Place
  <2>5. Store!Create(o)
    BY <1>1, <1>9, <2>4 DEF Store!Create, StorePlace, StoreLent
  <2>. QED  BY <2>5
<1>11. CASE op[t] # "new"
  <2>1. Carries(t, o)
    BY <1>1, <1>4, <1>11 DEF Carries
  <2>2. Place(o) = "host"
    BY <2>1, CarrierFacts
  <2>3. Store!Unspill(o)
    BY <1>1, <1>9, <2>2 DEF Store!Unspill, StorePlace, StoreLent
  <2>. QED  BY <2>3
<1>. QED  BY <1>10, <1>11

\* Registering a buffer that is on the device already.
LEMMA RegisterStutters ==
    ASSUME IInv, InHand, NEW t \in Threads, Register(t)
    PROVE  StorePlace' = StorePlace /\ StoreLent' = StoreLent /\ exposed' = exposed
<1>0. pc \in [Threads -> Steps]
  BY DEF IInv, TypeOK
<1>1. /\ OthersStay(t) /\ pc[t] = "register" /\ pc'[t] = "limit"
      /\ UNCHANGED <<ptr, host, exposed, got>>
      /\ buffers' = buffers \cup {cur[t]}
  BY <1>0 DEF Register, Goto, OthersStay, callVars, loopVars, pointerVars
<1>2. ptr[cur[t]] \in Slots
  BY <1>1 DEF InHand
<1>3. \A p \in Owners : ~Carries(t, p) /\ ~Carries(t, p)'
  BY <1>1 DEF Carries
<1>4. \A p \in Owners : p # cur[t] => Place(p)' = Place(p)
  BY <1>1, <1>3, PlaceKept
<1>5. \A p \in Owners : p = cur[t] => Place(p)' = Place(p)
  BY <1>1, <1>2 DEF Place
<1>. QED  BY <1>1, <1>4, <1>5 DEF StorePlace, StoreLent

\* A copy on the host, of a buffer that still is on the device.
LEMMA SpillCopyStutters ==
    ASSUME IInv, NEW t \in Threads, SpillCopy(t)
    PROVE  StorePlace' = StorePlace /\ StoreLent' = StoreLent /\ exposed' = exposed
<1>0. pc \in [Threads -> Steps] /\ host \in [Owners -> BOOLEAN]
  BY DEF IInv, TypeOK
<1>1. /\ OthersStay(t) /\ pc[t] = "copy" /\ pc'[t] = "clear"
      /\ UNCHANGED <<ptr, exposed, got, buffers, op, cur, ret>>
      /\ host' = [host EXCEPT ![Victim(t)] = TRUE]
  BY <1>0 DEF SpillCopy, Goto, OthersStay, callVars, loopVars, managerVars,
              pointerVars
<1>2. ptr[Victim(t)] \in Slots
  BY <1>1 DEF IInv, Moves
<1>3. \A p \in Owners : Carries(t, p)' <=> Carries(t, p)
  BY <1>1 DEF Carries
<1>4. \A p \in Owners : p # Victim(t) => Place(p)' = Place(p)
  BY <1>0, <1>1, <1>3, PlaceKept
<1>5. \A p \in Owners : p = Victim(t) => Place(p)' = Place(p)
  BY <1>1, <1>2 DEF Place
<1>. QED  BY <1>1, <1>4, <1>5 DEF StorePlace, StoreLent

\* Freeing the device memory is the moment a buffer is spilled.
LEMMA SpillClearSpills ==
    ASSUME IInv, InHand, NEW t \in Threads, SpillClear(t)
    PROVE  \E o \in Owners : Store!Spill(o)
<1>0. pc \in [Threads -> Steps] /\ ptr \in [Owners -> Slots \cup {Null}]
  BY DEF IInv, TypeOK
<1>1. /\ OthersStay(t) /\ pc[t] = "clear" /\ pc'[t] = "mark"
      /\ UNCHANGED <<host, exposed, got, buffers, op, cur, ret>>
      /\ ptr' = [ptr EXCEPT ![Victim(t)] = Null]
  BY <1>0 DEF SpillClear, Goto, OthersStay, callVars, loopVars, managerVars,
              pointerVars
<1>2. /\ ptr[Victim(t)] \in Slots /\ host[Victim(t)]
      /\ locks[Victim(t)] = {} /\ ~exposed[Victim(t)]
  BY <1>1 DEF IInv, Moves, Moving, InHand
<1>3. Victim(t) \in buffers /\ Victim(t) \in Owners
  BY <1>1, InHandApart DEF IInv, TypeOK
<1>4. PICK o \in Owners : o = Victim(t)
  BY <1>3
<1>5. ptr'[o] = Null /\ \A p \in Owners \ {o} : ptr'[p] = ptr[p]
  BY <1>0, <1>1, <1>4
<1>6. \A p \in Owners : Carries(t, p)' <=> Carries(t, p)
  BY <1>1 DEF Carries
<1>7. \A p \in Owners \ {o} : Place(p)' = Place(p)
  BY <1>1, <1>5, <1>6, PlaceKept
<1>8. Place(o) = "device" /\ Place(o)' = "host"
  BY <1>1, <1>2, <1>3, <1>4, <1>5, ConstantsAssumption DEF Place
<1>9. StorePlace' = [StorePlace EXCEPT ![o] = "host"] /\ StoreLent' = StoreLent
  BY <1>1, <1>7, <1>8 DEF StorePlace, StoreLent
<1>10. StoreLent[o] = {}
  BY <1>2, <1>4 DEF StoreLent, IInv, Pinned
<1>11. Store!Spill(o)
  BY <1>1, <1>2, <1>4, <1>8, <1>9, <1>10
     DEF Store!Spill, StorePlace, StoreLent
<1>. QED  BY <1>11

\* The handler gives up: the data it was to bring back is lost.
LEMMA OomFailSteps ==
    ASSUME IInv, NEW t \in Threads, OomFail(t)
    PROVE  \/ \E o \in Owners : Store!Lose(o)
           \/ /\ StorePlace' = StorePlace /\ StoreLent' = StoreLent
              /\ exposed' = exposed
<1>0. /\ pc \in [Threads -> Steps] /\ op \in [Threads -> Ops]
      /\ cur \in [Threads -> Owners \cup {Null}]
      /\ todo \in [Threads -> Seq(Owners)]
      /\ ret \in [Threads -> {"oom", "limit", "user"}]
  BY DEF IInv, TypeOK
<1>1. /\ OthersStay(t) /\ pc[t] = "loop" /\ ret[t] = "oom" /\ pc'[t] = "idle"
      /\ UNCHANGED <<ptr, host, exposed, got, buffers>>
  BY <1>0 DEF OomFail, Finish, Goto, OthersStay, managerVars, pointerVars
<1>2. \A p \in Owners : ~Carries(t, p)'
  BY <1>1 DEF Carries
<1>3. CASE op[t] = "new"
  <2>1. \A p \in Owners : ~Carries(t, p)
    BY <1>3 DEF Carries
  <2>. QED  BY <1>1, <1>2, <2>1, PlaceKept DEF StorePlace, StoreLent
<1>4. CASE op[t] # "new"
  <2>1. op[t] \in Unspilling
    BY <1>1, <1>4 DEF IInv, StepsOfOps, LoopSteps
  <2>2. PICK o \in Owners : o = cur[t]
    BY <2>1 DEF IInv, OwnersOfOps, TypeOK
  <2>3. Carries(t, o)
    BY <1>1, <1>4, <2>2 DEF Carries
  <2>4. /\ ~host[o] /\ ptr[o] = Null /\ o \in buffers /\ Place(o) = "host"
        /\ \A u \in Threads : Carries(u, o) => u = t
    BY <2>3, CarrierFacts
  <2>5. \A p \in Owners \ {o} : ~Carries(t, p)
    BY <2>2 DEF Carries
  <2>6. \A p \in Owners \ {o} : Place(p)' = Place(p)
    BY <1>1, <1>2, <2>5, PlaceKept
  <2>7. \A u \in Threads : ~Carries(u, o)'
    <3>1. \A u \in Threads \ {t} : Carries(u, o)' <=> Carries(u, o)
      BY <1>1 DEF OthersStay, Carries
    <3>. QED  BY <1>2, <2>4, <3>1
  <2>8. Place(o)' = "lost"
    <3>1. ~(\E u \in Threads : Carries(u, o))'
      BY <2>7
    <3>. QED  BY <1>1, <2>4, <3>1, ConstantsAssumption DEF Place
  <2>9. StorePlace' = [StorePlace EXCEPT ![o] = "lost"] /\ StoreLent' = StoreLent
    BY <1>1, <2>6, <2>8 DEF StorePlace, StoreLent
  <2>10. Store!Lose(o)
    BY <1>1, <2>4, <2>9 DEF Store!Lose, StorePlace, StoreLent
  <2>. QED  BY <2>10
<1>. QED  BY <1>3, <1>4

\* Garbage has no context, so nobody has been lent its pointer.
LEMMA FreeDestroys ==
    ASSUME IInv, NEW S, S \subseteq Garbage, Free(S), got' = got,
           \A u \in Threads, o \in Owners : Carries(u, o)' <=> Carries(u, o)
    PROVE  \E T \in SUBSET Owners : Store!Destroy(T)
<1>1. S \subseteq Owners /\ \A o \in S : o \in buffers /\ o \notin refs
  BY DEF Garbage, IInv, TypeOK
<1>2. \A o \in S : StoreLent[o] = {}
  BY <1>1 DEF StoreLent, IInv, Pinned, References
<1>3. /\ buffers' = buffers \ S
      /\ ptr' = [o \in Owners |-> IF o \in S THEN Null ELSE ptr[o]]
      /\ host' = [o \in Owners |-> IF o \in S THEN FALSE ELSE host[o]]
      /\ exposed' = [o \in Owners |-> IF o \in S THEN FALSE ELSE exposed[o]]
  BY DEF Free
<1>4. \A o \in S : Place(o)' = "none"
  BY <1>1, <1>3, ConstantsAssumption DEF Place
<1>5. ASSUME NEW o \in Owners \ S PROVE Place(o)' = Place(o)
  <2>1. /\ ptr'[o] = ptr[o] /\ host'[o] = host[o]
        /\ o \in buffers' <=> o \in buffers
    BY <1>3
  <2>2. (\E u \in Threads : Carries(u, o))' <=> \E u \in Threads : Carries(u, o)
    OBVIOUS
  <2>. QED  BY <2>1, <2>2 DEF Place
<1>6. StorePlace' = [o \in Owners |-> IF o \in S THEN "none" ELSE StorePlace[o]]
  BY <1>4, <1>5 DEF StorePlace
<1>7. StoreLent' = StoreLent
  BY DEF StoreLent
<1>8. Store!Destroy(S)
  BY <1>2, <1>3, <1>6, <1>7 DEF Store!Destroy, StorePlace, StoreLent
<1>. QED  BY <1>1, <1>8

\* gc.collect() in the out-of-memory handler.
LEMMA OomRetryDestroys ==
    ASSUME IInv, NEW t \in Threads, OomRetry(t)
    PROVE  \E T \in SUBSET Owners : Store!Destroy(T)
<1>1. /\ Free(Garbage) /\ UNCHANGED <<got, op, cur, ret>> /\ pc[t] = "loop"
      /\ pc' = [pc EXCEPT ![t] = "snapshot"] /\ ret[t] = "oom"
  BY DEF OomRetry, Goto, callVars, pointerVars
<1>2. \A u \in Threads, o \in Owners : Carries(u, o)' <=> Carries(u, o)
  BY <1>1 DEF Carries, IInv, TypeOK
<1>3. \A S : S = Garbage => \E T \in SUBSET Owners : Store!Destroy(T)
  BY <1>1, <1>2, FreeDestroys
<1>. QED  BY <1>3

\* The collector.
LEMMA CollectDestroys ==
    ASSUME IInv, NEW o \in Owners, Collect(o)
    PROVE  \E T \in SUBSET Owners : Store!Destroy(T)
<1>1. /\ Free({o}) /\ {o} \subseteq Garbage
      /\ UNCHANGED <<got, op, cur, ret, pc>>
  BY DEF Collect, threadVars, callVars, loopVars, pointerVars
<1>2. \A u \in Threads, p \in Owners : Carries(u, p)' <=> Carries(u, p)
  BY <1>1 DEF Carries
<1>. QED  BY <1>1, <1>2, FreeDestroys

\* A step that leaves the threads, the memory and the manager alone.
LEMMA StaysPlaced ==
    ASSUME UNCHANGED <<ptr, host, buffers, pc, op, cur, ret>>
    PROVE  StorePlace' = StorePlace
<1>1. \A o \in Owners : Place(o)' = Place(o)
  BY DEF Place, Carries
<1>. QED  BY <1>1 DEF StorePlace

\* A serialized frame has the pointer: it is lent.
LEMMA SerializeLends ==
    ASSUME IInv, NEW t \in Threads, NEW o \in Owners, Serialize(t, o)
    PROVE  Store!Lend(t, o)
<1>1. /\ UNCHANGED <<ptr, host, exposed, buffers, pc, op, cur, ret>>
      /\ lock[o] = Null /\ ~is_spilled(o)
      /\ got' = [got EXCEPT ![t][o] = ptr[o]]
  BY DEF Serialize, managerVars, callVars, loopVars
<1>2. ptr[o] \in Slots
  BY <1>1, OnDevice DEF is_spilled
<1>. QED  BY <1>1, <1>2, StaysPlaced, GotLends

\* Leaving a context gives the pointer back.
LEMMA ExitGivesBack ==
    ASSUME IInv, NEW t \in Threads, NEW o \in Owners, Exit(t, o)
    PROVE  Store!GiveBack(t, o)
<1>1. /\ UNCHANGED <<ptr, host, exposed, buffers, pc, op, cur, ret>>
      /\ got' = [got EXCEPT ![t][o] = NoPtr]
  BY DEF Exit, managerVars, threadVars, callVars, loopVars
<1>2. got \in [Threads -> [Owners -> Slots \cup {Null, NoPtr}]]
  BY DEF IInv, TypeOK
<1>3. /\ got'[t][o] = NoPtr
      /\ \A u \in Threads, p \in Owners :
           ~(u = t /\ p = o) => got'[u][p] = got[u][p]
  BY <1>1, <1>2
<1>4. StoreLent' = [StoreLent EXCEPT ![o] = @ \ {t}]
  <2>1. {u \in Threads : got'[u][o] # NoPtr}
          = {u \in Threads : got[u][o] # NoPtr} \ {t}
    BY <1>3
  <2>2. \A p \in Owners \ {o} : {u \in Threads : got'[u][p] # NoPtr}
          = {u \in Threads : got[u][p] # NoPtr}
    BY <1>3
  <2>. QED  BY <2>1, <2>2 DEF StoreLent
<1>5. StorePlace' = StorePlace
  BY <1>1, StaysPlaced
<1>. QED  BY <1>1, <1>4, <1>5 DEF Store!GiveBack, StorePlace, StoreLent

\* from_host_memory makes a buffer that is on the host.
LEMMA NewFromHostCreates ==
    ASSUME IInv, NEW t \in Threads, NEW o \in Owners, NewFromHost(t, o)
    PROVE  Store!Create(o)
<1>0. /\ pc \in [Threads -> Steps] /\ op \in [Threads -> Ops]
      /\ cur \in [Threads -> Owners \cup {Null}]
      /\ host \in [Owners -> BOOLEAN]
  BY DEF IInv, TypeOK
<1>1. /\ OthersStay(t) /\ pc[t] = "idle" /\ pc'[t] = "limit"
      /\ UNCHANGED <<ptr, exposed, got>>
      /\ host' = [host EXCEPT ![o] = TRUE] /\ buffers' = buffers \cup {o}
      /\ o \notin buffers /\ \A u \in Threads : cur[u] # o
  BY <1>0 DEF NewFromHost, Begin, Idle, Goto, OthersStay, loopVars, pointerVars
<1>2. \A p \in Owners : ~Carries(t, p) /\ ~Carries(t, p)'
  BY <1>1 DEF Carries
<1>3. \A p \in Owners \ {o} : Place(p)' = Place(p)
  BY <1>0, <1>1, <1>2, PlaceKept
<1>4. ptr[o] = Null
  <2>1. type[o] = "cpu"
    BY <1>1 DEF IInv, Residency, TypeOK
  <2>. QED  BY <2>1 DEF IInv, Residency
<1>5. Place(o) = "none" /\ Place(o)' = "host"
  BY <1>0, <1>1, <1>4, ConstantsAssumption DEF Place
<1>6. StorePlace' = [StorePlace EXCEPT ![o] = "host"] /\ StoreLent' = StoreLent
  BY <1>1, <1>3, <1>5 DEF StorePlace, StoreLent
<1>. QED  BY <1>1, <1>5, <1>6 DEF Store!Create, StorePlace, StoreLent

-----------------------------------------------------------------------------
(* SpillableBuffer implements DeviceStore *)

\* No buffer exists initially.
LEMMA InitStore == Init => Store!Init
<1>. SUFFICES ASSUME Init PROVE Store!Init
  OBVIOUS
<1>1. \A o \in Owners : Place(o) = "none"
  BY ConstantsAssumption DEF Init, Place
<1>2. \A o \in Owners : {t \in Threads : got[t][o] # NoPtr} = {}
  BY DEF Init
<1>. QED  BY <1>1, <1>2 DEF Init, Store!Init

\* A step of an operation is a step of the store or none.
LEMMA ContinueStore ==
    ASSUME IInv, InHand, NEW t \in Threads, Continue(t)
    PROVE  \/ Store!Next
           \/ /\ StorePlace' = StorePlace /\ StoreLent' = StoreLent
              /\ exposed' = exposed
<1>1. CASE Quiet(t)
  BY <1>1, QuietStutters
<1>2. CASE PtrTouch(t) \/ PtrReturn(t)
  BY <1>2, DeliverSteps DEF Store!Next
<1>3. CASE ExposeSet(t)
  BY <1>3, ExposeSetExposes DEF Store!Next
<1>4. CASE Unspill(t)
  BY <1>4, UnspillStutters
<1>5. CASE Alloc(t)
  BY <1>5, AllocSteps DEF Store!Next
<1>6. CASE Register(t)
  BY <1>6, RegisterStutters
<1>7. CASE SpillCopy(t)
  BY <1>7, SpillCopyStutters
<1>8. CASE SpillClear(t)
  BY <1>8, SpillClearSpills DEF Store!Next
<1>9. CASE OomRetry(t)
  BY <1>9, OomRetryDestroys DEF Store!Next
<1>10. CASE OomFail(t)
  BY <1>10, OomFailSteps DEF Store!Next
<1>. QED
  BY <1>1, <1>2, <1>3, <1>4, <1>5, <1>6, <1>7, <1>8, <1>9, <1>10,
     QuietContinue DEF Continue

\* Every step is a step of the store or none.
LEMMA NextStore ==
    IInv /\ InHand /\ [Next]_vars => Store!Next \/ UNCHANGED Store!vars
<1>. SUFFICES ASSUME IInv, InHand, [Next]_vars
              PROVE  \/ Store!Next
                     \/ /\ StorePlace' = StorePlace /\ StoreLent' = StoreLent
                        /\ exposed' = exposed
  BY DEF Store!vars, StorePlace, StoreLent
<1>1. CASE \E t \in Threads : Continue(t)
  BY <1>1, ContinueStore
<1>2. ASSUME NEW t \in Threads, NEW o \in Owners, Start(t, o)
      PROVE  \/ Store!Next
             \/ /\ StorePlace' = StorePlace /\ StoreLent' = StoreLent
                /\ exposed' = exposed
  <2>1. CASE Serialize(t, o)
    BY <2>1, SerializeLends DEF Store!Next
  <2>2. CASE Exit(t, o)
    BY <2>2, ExitGivesBack DEF Store!Next
  <2>3. CASE NewFromHost(t, o)
    BY <2>3, NewFromHostCreates DEF Store!Next
  <2>4. CASE Quiet(t)
    BY <2>4, QuietStutters
  <2>. QED  BY <1>2, <2>1, <2>2, <2>3, <2>4, QuietStart DEF Start
<1>3. CASE \E t \in Threads, n \in 1..Cardinality(Owners) :
             SpillDeviceMemory(t, n)
  <2>1. PICK t \in Threads, n \in 1..Cardinality(Owners) :
          SpillDeviceMemory(t, n)
    BY <1>3
  <2>2. n \in Nat  BY UnspilledType DEF IInv
  <2>. QED  BY <2>1, <2>2, QuietStart, QuietStutters
<1>4. CASE \E o \in Owners : Collect(o)
  BY <1>4, CollectDestroys DEF Store!Next
<1>5. CASE (\E o \in Owners : Drop(o)) \/ UNCHANGED vars
  <2>1. UNCHANGED <<ptr, host, buffers, pc, op, cur, ret, got, exposed>>
    BY <1>5 DEF Drop, vars, ownerVars, managerVars, threadVars, callVars,
                loopVars, pointerVars
  <2>. QED  BY <2>1, StaysPlaced DEF StoreLent
<1>. QED  BY <1>1, <1>2, <1>3, <1>4, <1>5 DEF Next, Terminated

\* The protocol of locks, access contexts, pointers and spill loops implements
\* a store whose buffers move in single steps and never while they are lent.
THEOREM StoreImplemented == Spec => ImplementsStore
<1>1. IInv /\ InHand /\ [Next]_vars => [Store!Next]_(Store!vars)
  BY NextStore
<1>. QED
  BY <1>1, InitStore, SpecInHand, PTL DEF Spec, ImplementsStore, Store!Spec

=============================================================================
