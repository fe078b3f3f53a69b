------------------------- MODULE MCSpillableBuffer -------------------------
(***************************************************************************)
(* Instances of SpillableBuffer for TLC.                                   *)
(***************************************************************************)
EXTENDS SpillableBufferProofs, TLC

CONSTANTS t1, t2, o1, o2, o3, s1, s2

TwoThreads == {t1, t2}
OneThread  == {t1}
TwoOwners  == {o1, o2}
ThreeOwners == {o1, o2, o3}
OneSlot  == {s1}
TwoSlots == {s1, s2}

\* Threads, owners and slots are interchangeable.
Symmetry == Permutations(Threads) \cup Permutations(Owners)
                                  \cup Permutations(Slots)

\* The program has made all owners: o3 fills the device, the others are spilled
\* and were used before it.  The threads may have entered contexts of them.
InitFull ==
    /\ last = [o \in Owners |-> CASE o = o1 -> 1 [] o = o2 -> 2 [] o = o3 -> 3]
    /\ \/ locks = [o \in Owners |-> {}]
       \/ locks = [o \in Owners |-> CASE o = o1 -> {t1} [] o = o2 -> {t2}
                                      [] o = o3 -> {}]
    /\ lock = [o \in Owners |-> Null]
    /\ type = [o \in Owners |-> IF o = o3 THEN "gpu" ELSE "cpu"]
    /\ host = [o \in Owners |-> o # o3]
    /\ ptr = [o \in Owners |-> IF o = o3 THEN s1 ELSE Null]
    /\ exposed = [o \in Owners |-> FALSE]
    /\ buffers = Owners /\ refs = Owners
    /\ mem = [s \in Slots |-> IF s = s1 THEN o3 ELSE Null]
    /\ pc = [t \in Threads |-> "idle"]
    /\ op = [t \in Threads |-> "none"]
    /\ cur = [t \in Threads |-> Null]
    /\ todo = [t \in Threads |-> <<>>]
    /\ goal = [t \in Threads |-> 0]
    /\ spilled = [t \in Threads |-> 0]
    /\ retry = [t \in Threads |-> TRUE]
    /\ ret = [t \in Threads |-> "user"]
    /\ nops = 0
    /\ got = [t \in Threads |-> [o \in Owners |-> NoPtr]]
    /\ raw = [o \in Owners |-> {}]

FullSpec ==
    InitFull /\ [][Next]_vars /\ \A t \in Threads : WF_vars(Continue(t))

=============================================================================
