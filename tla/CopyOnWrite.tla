---------------------------- MODULE CopyOnWrite ----------------------------
(***************************************************************************)
(* Copy-on-write between the Buffers (slices) of a BufferOwner, and its    *)
(* interplay with access contexts, spill locks, exposure and spilling      *)
(* (python/cudf/cudf/core/buffer/buffer.py, spillable_buffer.py).          *)
(*                                                                         *)
(* One thread runs the operations ("TODO: Thread-safety" in buffer.py).    *)
(* Reading Buffer.ptr takes several steps, between which the spill manager *)
(* may spill any owner that is spillable: every allocation of device       *)
(* memory can call it.  Memory is a set of cells of one byte; sharing is   *)
(* two owners, or two slices, having the same cell.                        *)
(***************************************************************************)
EXTENDS Naturals, Sequences, FiniteSets

CONSTANTS
    Buffers,   \* Buffer objects
    Owners,    \* BufferOwner objects
    Values,    \* the contents of a byte
    MaxSize,   \* bytes of new memory
    NumCells,  \* bytes of device and host memory
    Accesses,  \* the <<mode, scope>> of the access contexts the program uses
    MaxDepth,  \* bound on nested access contexts of a buffer
    SpillOptions,  \* the values of the option spill to start with
    None       \* no owner

Modes == {"read", "write"}
Scopes == {"internal", "external"}

ASSUME CopyOnWriteAssumption ==
    /\ IsFiniteSet(Buffers) /\ IsFiniteSet(Owners)
    /\ MaxSize \in Nat \ {0}
    /\ NumCells \in Nat
    /\ Accesses \subseteq Modes \X Scopes
    /\ MaxDepth \in Nat \ {0}
    /\ SpillOptions \subseteq BOOLEAN
    /\ None \notin Owners \cup Buffers \cup Values

VARIABLES
    \* Buffer
    owner,    \* _owner, or None if there is no such Buffer
    offset,   \* _offset
    size,     \* _size
    modes,    \* _access_mode_stack
    scopes,   \* _spill_lock_stack: "internal" for a SpillLock, else "external"
    \* BufferOwner
    slices,   \* _slices
    at,       \* the cells of its memory; <<>> if there is no such owner
    spilled,  \* is that host memory?
    exposed,  \* _exposed
    locks,    \* _spill_locks: <<b, i>> is the lock of entry i of scopes[b]
    \* memory
    mem,      \* cell -> byte, or None if the cell is free
    array,    \* the cells of a host array of the program
    third,    \* buffer -> the cells whose pointer a third party got last
    spilling, \* is the global spill manager enabled?
    \* Buffer.ptr in progress
    pc,       \* next step
    self,     \* the Buffer, or None
    fresh     \* owner of the copy that make_single_owner_inplace has made

bufferVars == <<owner, offset, size>>
contextVars == <<modes, scopes>>
ownerVars  == <<slices, at, spilled, exposed, locks>>
memoryVars == <<mem, array, third, spilling>>
callVars   == <<pc, self, fresh>>
vars       == <<bufferVars, contextVars, ownerVars, memoryVars, callVars>>

Cells == 1..NumCells
Locks == Buffers \X (1..MaxDepth)

\* The fields of Buffer and BufferOwner have their types, and every buffer is
\* a slice within the memory of its owner.
TypeOK ==
    /\ owner \in [Buffers -> Owners \cup {None}]
    /\ offset \in [Buffers -> Nat] /\ size \in [Buffers -> Nat]
    /\ modes \in [Buffers -> Seq(Modes)]
    /\ scopes \in [Buffers -> Seq(Scopes)]
    /\ slices \in [Owners -> SUBSET Buffers]
    /\ at \in [Owners -> Seq(Cells)]
    /\ spilled \in [Owners -> BOOLEAN] /\ exposed \in [Owners -> BOOLEAN]
    /\ locks \in [Owners -> SUBSET Locks]
    /\ mem \in [Cells -> Values \cup {None}]
    /\ array \in Seq(Cells)
    /\ third \in [Buffers -> SUBSET Cells]
    /\ spilling \in BOOLEAN
    /\ pc \in {"idle", "copy", "swap", "owner", "use"}
    /\ self \in Buffers \cup {None}
    /\ fresh \in Owners \cup {None}
    /\ \A b \in Buffers : owner[b] # None =>
        /\ size[b] > 0
        /\ offset[b] + size[b] <= Len(at[owner[b]])

-----------------------------------------------------------------------------
(* Helpers *)

Exists(b) == owner[b] # None

Live == {b \in Buffers : Exists(b)}

Elements(q) == {q[i] : i \in DOMAIN q}

spillable(o) == spilling /\ ~exposed[o] /\ locks[o] = {}

\* The cells a buffer is about.
Window(b) == SubSeq(at[owner[b]], offset[b] + 1, offset[b] + size[b])

\* What reading them yields.
Bytes(q) == [i \in DOMAIN q |-> mem[q[i]]]

Content(b) == Bytes(Window(b))

FreeCells == {c \in Cells : mem[c] = None}

\* n cells of free memory: the lowest ones, in order.
Allocations(n) ==
    {q \in [1..n -> FreeCells] :
        /\ \A i, j \in 1..n : i < j => q[i] < q[j]
        /\ \A c \in FreeCells \ Elements(q) : \A i \in 1..n : q[i] < c}

\* Memory after bytes x were written to the cells q and S was freed.
Stored(q, x, S) ==
    [c \in Cells |->
        IF \E i \in DOMAIN q : q[i] = c
        THEN x[CHOOSE i \in DOMAIN q : q[i] = c]
        ELSE IF c \in S THEN None ELSE mem[c]]

\* The cells of o that nobody else has: spilled copies share host memory.
OwnCells(o) ==
    Elements(at[o]) \ (Elements(array)
                         \cup UNION {Elements(at[p]) : p \in Owners \ {o}})

\* The mode that Buffer.ptr goes by, and the scope of the same context.
Mode(b) == IF modes[b] = <<>> THEN "read" ELSE modes[b][Len(modes[b])]

Scope(b) == IF scopes[b] = <<>> THEN "internal" ELSE scopes[b][Len(scopes[b])]

\* Mutant: the owner does not track the new slice.
MakeBufferUntracked(b, o, lo, n) ==
    /\ owner' = [owner EXCEPT ![b] = o]
    /\ offset' = [offset EXCEPT ![b] = lo]
    /\ size' = [size EXCEPT ![b] = n]
    /\ UNCHANGED slices

\* Buffer.__init__ makes b a slice of o.
MakeBuffer(b, o, lo, n) ==
    /\ owner' = [owner EXCEPT ![b] = o]
    /\ offset' = [offset EXCEPT ![b] = lo]
    /\ size' = [size EXCEPT ![b] = n]
    /\ slices' = [slices EXCEPT ![o] = @ \cup {b}]

\* The new owner o has the memory q.
MakeOwner(o, q, isHost) ==
    /\ at' = [at EXCEPT ![o] = q]
    /\ spilled' = [spilled EXCEPT ![o] = isHost]

\* Mutant: the new owner wraps the memory of the old one.
CopyNothing(b, o) == MakeOwner(o, Window(b), FALSE) /\ UNCHANGED mem

\* Deep copy of b into the new owner o.  A spilled buffer is not copied: "we
\* make the new copy point to the same spilled data in host memory".
CopyInto(b, o) ==
    \/ /\ spilled[owner[b]]
       /\ MakeOwner(o, Window(b), TRUE)
       /\ UNCHANGED mem
    \/ /\ ~spilled[owner[b]]
       /\ \E q \in Allocations(size[b]) :
            /\ MakeOwner(o, q, FALSE)
            /\ mem' = Stored(q, Content(b), {})

\* spill(target): the bytes move to new memory and the old memory is freed.
Move(o, toHost) ==
    \E q \in Allocations(Len(at[o])) :
        /\ at' = [at EXCEPT ![o] = q]
        /\ spilled' = [spilled EXCEPT ![o] = toHost]
        /\ mem' = Stored(q, Bytes(at[o]), OwnCells(o))

\* spill(target="gpu") is a no-op on the device.
Unspill(o) ==
    \/ spilled[o] /\ Move(o, FALSE)
    \/ ~spilled[o] /\ UNCHANGED <<at, spilled, mem>>

Idle == pc = "idle"

-----------------------------------------------------------------------------
(* Buffers come and go *)

\* as_buffer of new device memory.
New(b, o, x) ==
    /\ Idle /\ ~Exists(b) /\ at[o] = <<>>
    /\ \E q \in Allocations(Len(x)) :
        /\ MakeOwner(o, q, FALSE)
        /\ mem' = Stored(q, x, {})
    /\ MakeBuffer(b, o, 0, Len(x))
    /\ UNCHANGED <<contextVars, exposed, locks, array, third, spilling,
                   callVars>>

\* as_buffer of a host array, with spilling enabled.
NewFromHost(b, o, x) ==
    /\ spilling
    /\ Idle /\ ~Exists(b) /\ at[o] = <<>> /\ array = <<>>
    /\ \E q \in Allocations(Len(x)) :
        /\ MakeOwner(o, q, TRUE)
        /\ array' = q
        /\ mem' = Stored(q, x, {})
    /\ MakeBuffer(b, o, 0, Len(x))
    /\ UNCHANGED <<contextVars, exposed, locks, third, spilling, callVars>>

\* The program drops its host array.
DropArray ==
    /\ array # <<>>
    /\ array' = <<>>
    /\ mem' = Stored(<<>>, <<>>, Elements(array)
                                   \ UNION {Elements(at[o]) : o \in Owners})
    /\ UNCHANGED <<bufferVars, contextVars, ownerVars, third, spilling,
                   callVars>>

\* Buffer.__getitem__: c = b[lo:lo+n].
Slice(b, c, lo, n) ==
    /\ Idle /\ Exists(b) /\ ~Exists(c)
    /\ lo + n <= size[b]
    /\ MakeBuffer(c, owner[b], offset[b] + lo, n)
    /\ UNCHANGED <<contextVars, at, spilled, exposed, locks, memoryVars,
                   callVars>>

\* Does SpillableBuffer.copy(deep=False) share the memory?  Buffer.copy does.
Shares(b) == ~(spilling /\ exposed[owner[b]])

\* c = b.copy(deep=False), sharing the memory.
ShallowCopy(b, c) ==
    /\ Idle /\ Exists(b) /\ ~Exists(c)
    /\ Shares(b)
    /\ MakeBuffer(c, owner[b], offset[b], size[b])
    /\ UNCHANGED <<contextVars, at, spilled, exposed, locks, memoryVars,
                   callVars>>

\* c = b.copy(deep=True), or a shallow copy of an exposed buffer.
DeepCopy(b, c, o) ==
    /\ Idle /\ Exists(b) /\ ~Exists(c) /\ at[o] = <<>>
    /\ CopyInto(b, o)
    /\ MakeBuffer(c, o, 0, size[b])
    /\ UNCHANGED <<contextVars, exposed, locks, array, third, spilling,
                   callVars>>

\* Nothing refers to b any more, nor to its owner if b was its last slice.
\* Whoever got a pointer to b refers to b.
Drop(b) ==
    /\ Idle /\ Exists(b) /\ scopes[b] = <<>>
    /\ third[b] = {}
    /\ modes' = [modes EXCEPT ![b] = <<>>]
    /\ owner' = [owner EXCEPT ![b] = None]
    /\ offset' = [offset EXCEPT ![b] = 0]
    /\ size' = [size EXCEPT ![b] = 0]
    /\ LET o == owner[b]
           last == \A c \in Live \ {b} : owner[c] # o
       IN  /\ slices' = [slices EXCEPT ![o] = @ \ {b}]
           /\ at' = [at EXCEPT ![o] = IF last THEN <<>> ELSE @]
           /\ spilled' = [spilled EXCEPT ![o] = ~last /\ @]
           /\ exposed' = [exposed EXCEPT ![o] = ~last /\ @]
           /\ locks' = [locks EXCEPT ![o] = IF last THEN {} ELSE @]
           /\ mem' = IF last THEN Stored(<<>>, <<>>, OwnCells(o)) ELSE mem
    /\ UNCHANGED <<scopes, array, third, spilling, callVars>>

-----------------------------------------------------------------------------
(* Access contexts *)

\* __enter__ of access(mode, scope="internal").
EnterInternal(b, mode) ==
    /\ <<mode, "internal">> \in Accesses
    /\ Idle /\ Exists(b) /\ Len(modes[b]) < MaxDepth
    /\ modes' = [modes EXCEPT ![b] = Append(@, mode)]
    /\ scopes' = [scopes EXCEPT ![b] = Append(@, "internal")]
    /\ locks' = [locks EXCEPT ![owner[b]] =
                    IF spilling THEN @ \cup {<<b, Len(scopes[b]) + 1>>} ELSE @]
    /\ UNCHANGED <<bufferVars, slices, at, spilled, exposed, memoryVars,
                   callVars>>

\* __enter__ of access(mode, scope="external"), with mark_exposed.
EnterExternal(b, mode) ==
    /\ <<mode, "external">> \in Accesses
    /\ Idle /\ Exists(b) /\ Len(modes[b]) < MaxDepth
    /\ modes' = [modes EXCEPT ![b] = Append(@, mode)]
    /\ scopes' = [scopes EXCEPT ![b] = Append(@, "external")]
    /\ Unspill(owner[b])
    /\ exposed' = [exposed EXCEPT ![owner[b]] = spilling]
    /\ UNCHANGED <<bufferVars, slices, locks, array, third, spilling,
                   callVars>>

\* __exit__: the last entries of the stacks go, and a SpillLock dies.
Exit(b) ==
    /\ Idle /\ scopes[b] # <<>>
    /\ modes' = [modes EXCEPT ![b] = SubSeq(@, 1, Len(@) - 1)]
    /\ scopes' = [scopes EXCEPT ![b] = SubSeq(@, 1, Len(@) - 1)]
    /\ locks' = [o \in Owners |-> locks[o] \ {<<b, Len(scopes[b])>>}]
    /\ UNCHANGED <<bufferVars, slices, at, spilled, exposed, memoryVars,
                   callVars>>

-----------------------------------------------------------------------------
(* Buffer.ptr *)

\* Mutant: off by one, as if the buffer did not count.
IsSharedByOthers(b) == Cardinality(slices[owner[b]]) > 2

\* make_single_owner_inplace: "len(self._owner._slices) > 1".
IsShared(b) == Cardinality(slices[owner[b]]) > 1

\* ptr: in mode "write" the buffer first becomes the only slice of its owner.
ReadPtr(b) ==
    /\ Idle /\ Exists(b)
    /\ self' = b
    /\ pc' = IF Mode(b) = "write" /\ IsShared(b) THEN "copy" ELSE "owner"
    /\ UNCHANGED <<bufferVars, contextVars, ownerVars, memoryVars, fresh>>

\* make_single_owner_inplace leaves the old owner and makes a deep copy.
SingleCopy(o) ==
    /\ pc = "copy"
    /\ at[o] = <<>>
    /\ slices' = [slices EXCEPT ![owner[self]] = @ \ {self}]
    /\ CopyInto(self, o)
    /\ fresh' = o
    /\ pc' = "swap"
    /\ UNCHANGED <<bufferVars, contextVars, exposed, locks, array, third,
                   spilling, self>>

\* Mutant: the spill locks stay with the old owner.
NotTransferred == locks

\* The spill locks of the old owner go over to the new one.
Transferred == [locks EXCEPT ![fresh] = @ \cup locks[owner[self]]]

\* Mutant: the offset into the old owner is kept.
SwapKeepsOffset ==
    /\ pc = "swap"
    /\ MakeBuffer(self, fresh, offset[self], size[self])
    /\ locks' = Transferred
    /\ fresh' = None
    /\ pc' = "owner"
    /\ UNCHANGED <<contextVars, at, spilled, exposed, memoryVars, self>>

\* make_single_owner_inplace adopts the owner of the copy.
SingleSwap ==
    /\ pc = "swap"
    /\ MakeBuffer(self, fresh, 0, size[self])
    /\ locks' = Transferred
    /\ fresh' = None
    /\ pc' = "owner"
    /\ UNCHANGED <<contextVars, at, spilled, exposed, memoryVars, self>>

\* Mutant: a spilled owner is not moved back.
OwnerPtrSpilled ==
    /\ pc = "owner"
    /\ exposed' = [exposed EXCEPT ![owner[self]] =
                    @ \/ (spilling /\ locks[owner[self]] = {})]
    /\ pc' = "use"
    /\ UNCHANGED <<bufferVars, contextVars, slices, at, spilled, locks,
                   memoryVars, self, fresh>>

\* Mutant: spill locks or not, the owner is exposed.
OwnerPtrExposes ==
    /\ pc = "owner"
    /\ Unspill(owner[self])
    /\ exposed' = [exposed EXCEPT ![owner[self]] = spilling]
    /\ pc' = "use"
    /\ UNCHANGED <<bufferVars, contextVars, slices, locks, array, third,
                   spilling, self, fresh>>

\* BufferOwner.ptr and SpillableBufferOwner.ptr: without a spill lock the
\* owner is exposed.
OwnerPtr ==
    /\ pc = "owner"
    /\ Unspill(owner[self])
    /\ exposed' = [exposed EXCEPT ![owner[self]] =
                    @ \/ (spilling /\ locks[owner[self]] = {})]
    /\ pc' = "use"
    /\ UNCHANGED <<bufferVars, contextVars, slices, locks, array, third,
                   spilling, self, fresh>>

\* cudf reads the memory, or a third party keeps the pointer.
UseRead ==
    /\ pc = "use"
    /\ Mode(self) = "read" \/ Scope(self) = "external"
    /\ third' = [third EXCEPT ![self] = IF Scope(self) = "external"
                                      THEN Elements(Window(self)) ELSE @]
    /\ pc' = "idle" /\ self' = None
    /\ UNCHANGED <<bufferVars, contextVars, ownerVars, mem, array, spilling,
                   fresh>>

\* cudf writes a byte through the pointer: plc.filling.fill_in_place of a column,
\* or a kernel given the writable __cuda_array_interface__.
UseWrite(i, v) ==
    /\ pc = "use"
    /\ Mode(self) = "write" /\ Scope(self) = "internal"
    /\ i <= size[self]
    /\ mem' = [mem EXCEPT ![Window(self)[i]] = v]
    /\ pc' = "idle" /\ self' = None
    /\ UNCHANGED <<bufferVars, contextVars, ownerVars, array, third, spilling,
                   fresh>>

\* The spill manager spills an owner, at any time.
Spill(o) ==
    /\ at[o] # <<>>
    /\ spillable(o) /\ ~spilled[o]
    /\ Move(o, TRUE)
    /\ UNCHANGED <<bufferVars, contextVars, slices, exposed, locks, array,
                   third, spilling, callVars>>

-----------------------------------------------------------------------------

Init ==
    /\ owner = [b \in Buffers |-> None]
    /\ offset = [b \in Buffers |-> 0]
    /\ size = [b \in Buffers |-> 0]
    /\ modes = [b \in Buffers |-> <<>>]
    /\ scopes = [b \in Buffers |-> <<>>]
    /\ slices = [o \in Owners |-> {}]
    /\ at = [o \in Owners |-> <<>>]
    /\ spilled = [o \in Owners |-> FALSE]
    /\ exposed = [o \in Owners |-> FALSE]
    /\ locks = [o \in Owners |-> {}]
    /\ mem = [c \in Cells |-> None]
    /\ array = <<>>
    /\ third = [b \in Buffers |-> {}]
    /\ spilling \in SpillOptions
    /\ pc = "idle" /\ self = None /\ fresh = None

\* The bytes a buffer may be made of.
Inputs == [1..MaxSize -> Values]

Next ==
    \/ \E b \in Buffers, o \in Owners, x \in Inputs :
        New(b, o, x) \/ NewFromHost(b, o, x)
    \/ \E b, c \in Buffers :
        \/ ShallowCopy(b, c)
        \/ \E o \in Owners : DeepCopy(b, c, o)
        \/ \E lo \in 0..MaxSize, n \in 1..MaxSize : Slice(b, c, lo, n)
    \/ \E b \in Buffers :
        \/ Drop(b) \/ ReadPtr(b) \/ Exit(b)
        \/ \E mode \in Modes : EnterInternal(b, mode) \/ EnterExternal(b, mode)
    \/ \E o \in Owners : SingleCopy(o) \/ Spill(o)
    \/ \E i \in 1..MaxSize, v \in Values : UseWrite(i, v)
    \/ SingleSwap \/ OwnerPtr \/ UseRead \/ DropArray

Spec == Init /\ [][Next]_vars

-----------------------------------------------------------------------------
(* Device memory runs out *)

\* The allocation inside copy raises MemoryError: the buffer has left _slices
\* and keeps its owner.
SingleCopyFails ==
    /\ pc = "copy"
    /\ ~spilled[owner[self]]
    /\ slices' = [slices EXCEPT ![owner[self]] = @ \ {self}]
    /\ pc' = "idle" /\ self' = None
    /\ UNCHANGED <<bufferVars, contextVars, at, spilled, exposed, locks,
                   memoryVars, fresh>>

\* A failing unspill is in SpillableBuffer: it loses the data of the owner.
NextWithFailures == Next \/ SingleCopyFails

SpecWithFailures == Init /\ [][NextWithFailures]_vars

-----------------------------------------------------------------------------
(* Properties *)

\* An owner knows its slices, except the one that is leaving it: the count
\* make_single_owner_inplace goes by is right.
SlicesKnown ==
    \A o \in Owners :
        slices[o] = {b \in Live : owner[b] = o /\ ~(pc = "swap" /\ self = b)}

\* The spill lock of an open internal context pins the owner the buffer has
\* now, also after copy-on-write gave it another one.
ContextsPinOwners ==
    spilling => \A b \in Live : \A i \in DOMAIN scopes[b] :
        scopes[b][i] = "internal" => <<b, i>> \in locks[owner[b]]

\* make_single_owner_inplace does what it says: "Make sure this slice is the
\* only one pointing to the owner", before a writable pointer is used.
SoleWriter ==
    pc = "use" /\ Mode(self) = "write"
        => \A c \in Live \ {self} : owner[c] # owner[self]

\* Memory a pointer leads to is not spilled before the pointer is used.
PointerUsedInPlace ==
    pc = "use" => ~spilled[owner[self]] /\ ~spillable(owner[self])

\* Device memory belongs to one owner; two owners share only host memory.
DeviceMemoryUnshared ==
    \A o, p \in Owners : o # p /\ ~spilled[o]
        => Elements(at[o]) \cap (Elements(at[p]) \cup Elements(array)) = {}

\* Using a buffer inside internal contexts does not expose it: what is not
\* in an external context and not read outside of all contexts stays spillable.
InternalUseNeverExposes ==
    [][\A o \in Owners : ~exposed[o] /\ exposed'[o]
        => \/ \E b \in Live : /\ owner[b] = o
                              /\ scopes'[b] = Append(scopes[b], "external")
           \/ Scope(self) = "external"
           \/ scopes[self] = <<>>]_vars

\* The value of a buffer is what its slice of its owner's memory holds.
Value(b) == IF Exists(b) THEN Content(b) ELSE <<>>

Abstract == INSTANCE ValueBuffers WITH val <- [b \in Buffers |-> Value(b)]

\* Every buffer has a value of its own, whatever is shared, swapped, spilled
\* and unspilled underneath: a write through one buffer changes no other.
ImplementsValues == Abstract!Spec

=============================================================================
