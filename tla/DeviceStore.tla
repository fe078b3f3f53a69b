----------------------------- MODULE DeviceStore -----------------------------
(***************************************************************************)
(* What spilling promises to the rest of cudf, without locks, loops or     *)
(* memory: buffers move between device and host one atomic step at a time, *)
(* and never while somebody has been lent their device pointer.            *)
(*                                                                         *)
(* SpillableBuffer implements this specification.                          *)
(***************************************************************************)
CONSTANTS Threads, Owners

VARIABLES
    place,    \* where the data of each buffer is
    lent,     \* buffer -> threads that hold its device pointer in a context
    exposed   \* buffers whose device pointer was given away for good

vars == <<place, lent, exposed>>

Places == {"none", "device", "host", "lost"}

Init ==
    /\ place = [o \in Owners |-> "none"]
    /\ lent = [o \in Owners |-> {}]
    /\ exposed = [o \in Owners |-> FALSE]

\* A buffer is made from device memory or from host memory.
Create(o) ==
    /\ place[o] = "none"
    /\ \E p \in {"device", "host"} : place' = [place EXCEPT ![o] = p]
    /\ UNCHANGED <<lent, exposed>>

\* A pointer is lent to a context, and given back.
Lend(t, o) ==
    /\ place[o] = "device"
    /\ lent' = [lent EXCEPT ![o] = @ \cup {t}]
    /\ UNCHANGED <<place, exposed>>

GiveBack(t, o) ==
    /\ lent' = [lent EXCEPT ![o] = @ \ {t}]
    /\ UNCHANGED <<place, exposed>>

Expose(o) ==
    /\ place[o] = "device"
    /\ exposed' = [exposed EXCEPT ![o] = TRUE]
    /\ UNCHANGED <<place, lent>>

Spill(o) ==
    /\ place[o] = "device"
    /\ lent[o] = {}
    /\ ~exposed[o]
    /\ place' = [place EXCEPT ![o] = "host"]
    /\ UNCHANGED <<lent, exposed>>

Unspill(o) ==
    /\ place[o] = "host"
    /\ place' = [place EXCEPT ![o] = "device"]
    /\ UNCHANGED <<lent, exposed>>

\* An unspill that runs out of memory loses the data.
Lose(o) ==
    /\ place[o] = "host"
    /\ place' = [place EXCEPT ![o] = "lost"]
    /\ UNCHANGED <<lent, exposed>>

\* Buffers nobody refers to go away.
Destroy(S) ==
    /\ \A o \in S : lent[o] = {}
    /\ place' = [o \in Owners |-> IF o \in S THEN "none" ELSE place[o]]
    /\ exposed' = [o \in Owners |-> IF o \in S THEN FALSE ELSE exposed[o]]
    /\ UNCHANGED lent

Next ==
    \/ \E o \in Owners :
        \/ Create(o) \/ Expose(o) \/ Spill(o) \/ Unspill(o) \/ Lose(o)
        \/ \E t \in Threads : Lend(t, o) \/ GiveBack(t, o)
    \/ \E S \in SUBSET Owners : Destroy(S)

Spec == Init /\ [][Next]_vars

=============================================================================
