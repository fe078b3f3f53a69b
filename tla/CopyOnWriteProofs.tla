-------------------------- MODULE CopyOnWriteProofs --------------------------
(***************************************************************************)
(* Proofs that copy-on-write keeps the buffers apart for any number of     *)
(* buffers and owners, any sizes, any amount of memory, any nesting of     *)
(* access contexts, and with or without spilling; and that CopyOnWrite     *)
(* implements ValueBuffers.                                                *)
(***************************************************************************)
EXTENDS CopyOnWrite, TLAPS, FiniteSetTheorems

-----------------------------------------------------------------------------
(* The inductive invariant *)

\* The bytes of an owner.
Data(o) == Bytes(at[o])

\* Memory that somebody has is in use, and no owner has a cell twice.
MemoryInUse ==
    /\ \A o \in Owners : \A i \in DOMAIN at[o] : mem[at[o][i]] \in Values
    /\ \A i \in DOMAIN array : mem[array[i]] \in Values
    /\ \A o \in Owners : \A i, j \in DOMAIN at[o] :
        at[o][i] = at[o][j] => i = j

\* The stacks of access contexts grow together, and a buffer that is gone has
\* no context.
ContextStacks ==
    \A b \in Buffers :
        /\ Len(modes[b]) = Len(scopes[b])
        /\ Len(scopes[b]) <= MaxDepth
        /\ ~Exists(b) => scopes[b] = <<>>

\* What the steps of Buffer.ptr rely on.
PtrSteps ==
    /\ pc # "idle" => self \in Live
    /\ pc = "swap" => /\ fresh \in Owners
                      /\ \A b \in Live : owner[b] # fresh
                      /\ Data(fresh) = Content(self)
    /\ pc \in {"owner", "use"} /\ Mode(self) = "write"
         => \A c \in Live \ {self} : owner[c] # owner[self]

\* The inductive invariant: which memory is in use, who knows and pins which
\* owner, and what the steps of Buffer.ptr rely on.
IInv ==
    /\ TypeOK
    /\ MemoryInUse
    /\ DeviceMemoryUnshared
    /\ ContextStacks
    /\ SlicesKnown
    /\ ContextsPinOwners
    /\ PointerUsedInPlace
    /\ PtrSteps

-----------------------------------------------------------------------------
(* Lemmas about memory *)

\* A buffer's content is a part of its owner's bytes.
ContentIsPart ==
    \A b \in Live :
        /\ Window(b) = [i \in 1..size[b] |-> at[owner[b]][offset[b] + i]]
        /\ Content(b) = [i \in 1..size[b] |-> Data(owner[b])[offset[b] + i]]

\* What a part of a sequence is.
LEMMA PartOfSequence ==
    ASSUME NEW S, NEW q \in Seq(S), NEW lo \in Nat, NEW n \in Nat,
           lo + n <= Len(q)
    PROVE  SubSeq(q, lo + 1, lo + n) = [i \in 1..n |-> q[lo + i]]
  OBVIOUS

\* The window of a buffer is a part of its owner's cells, and its content the
\* corresponding part of the owner's bytes.
LEMMA ContentFacts == TypeOK => ContentIsPart
<1>. SUFFICES ASSUME TypeOK, NEW b \in Live
     PROVE  /\ Window(b) = [i \in 1..size[b] |-> at[owner[b]][offset[b] + i]]
            /\ Content(b) =
                 [i \in 1..size[b] |-> Data(owner[b])[offset[b] + i]]
  BY DEF ContentIsPart
<1>1. /\ owner[b] \in Owners /\ at[owner[b]] \in Seq(Cells)
      /\ offset[b] \in Nat /\ size[b] \in Nat
      /\ offset[b] + size[b] <= Len(at[owner[b]])
  BY DEF TypeOK, Live, Exists
<1>2. Window(b) = [i \in 1..size[b] |-> at[owner[b]][offset[b] + i]]
  <2>1. \A q \in Seq(Cells), lo \in Nat, n \in Nat :
          lo + n <= Len(q)
            => SubSeq(q, lo + 1, lo + n) = [i \in 1..n |-> q[lo + i]]
    BY PartOfSequence
  <2>. QED  BY <1>1, <2>1, Zenon DEF Window
<1>3. \A i \in 1..size[b] : offset[b] + i \in DOMAIN at[owner[b]]
  BY <1>1
<1>. QED  BY <1>1, <1>2, <1>3 DEF Content, Data, Bytes

\* The same in the next state.
LEMMA ContentFactsNext == TypeOK' => ContentIsPart'
BY ContentFacts, PTL

\* Allocated cells are free and pairwise different.
LEMMA AllocationFacts ==
    ASSUME TypeOK, NEW n \in Nat, NEW q \in Allocations(n)
    PROVE  /\ q \in [1..n -> Cells] /\ q \in Seq(Cells)
           /\ Len(q) = n /\ DOMAIN q = 1..n
           /\ \A i \in 1..n : mem[q[i]] = None
           /\ \A i, j \in 1..n : q[i] = q[j] => i = j
<1>1. /\ q \in [1..n -> FreeCells] /\ FreeCells \subseteq Cells
      /\ \A i, j \in 1..n : i < j => q[i] < q[j]
  BY DEF Allocations, FreeCells
<1>2. q \in [1..n -> Cells] /\ \A i \in 1..n : mem[q[i]] = None
  BY <1>1 DEF FreeCells
<1>3. \A i, j \in 1..n : q[i] = q[j] => i = j
  <2>. SUFFICES ASSUME NEW i \in 1..n, NEW j \in 1..n, q[i] = q[j], i # j
                PROVE  FALSE
    OBVIOUS
  <2>1. i < j \/ j < i  OBVIOUS
  <2>2. q[i] \in Int /\ q[j] \in Int
    BY <1>2, CopyOnWriteAssumption DEF Cells
  <2>. QED  BY <1>1, <2>1, <2>2
<1>. QED  BY <1>2, <1>3

\* What storing the bytes x in the cells q and freeing S does to memory.
LEMMA StoredFacts ==
    ASSUME TypeOK, NEW n \in Nat, NEW q \in [1..n -> Cells],
           \A i, j \in 1..n : q[i] = q[j] => i = j,
           NEW x \in [1..n -> Values], NEW S
    PROVE  /\ Stored(q, x, S) \in [Cells -> Values \cup {None}]
           /\ \A i \in 1..n : Stored(q, x, S)[q[i]] = x[i]
           /\ \A c \in Cells : (\A i \in 1..n : q[i] # c)
                => Stored(q, x, S)[c] = IF c \in S THEN None ELSE mem[c]
<1>1. DOMAIN q = 1..n  OBVIOUS
<1>2. ASSUME NEW i \in 1..n PROVE Stored(q, x, S)[q[i]] = x[i]
  <2>1. (CHOOSE j \in DOMAIN q : q[j] = q[i]) = i
    BY <1>1
  <2>2. q[i] \in Cells /\ \E j \in DOMAIN q : q[j] = q[i]
    BY <1>1
  <2>. QED  BY <2>1, <2>2 DEF Stored
<1>3. ASSUME NEW c \in Cells, \A i \in 1..n : q[i] # c
      PROVE  Stored(q, x, S)[c] = IF c \in S THEN None ELSE mem[c]
  BY <1>1, <1>3 DEF Stored
<1>4. Stored(q, x, S) \in [Cells -> Values \cup {None}]
  <2>1. ASSUME NEW c \in Cells PROVE Stored(q, x, S)[c] \in Values \cup {None}
    <3>1. CASE \E i \in 1..n : q[i] = c
      BY <1>2, <3>1
    <3>2. CASE \A i \in 1..n : q[i] # c
      BY <1>3, <3>2 DEF TypeOK
    <3>. QED  BY <3>1, <3>2
  <2>. QED  BY <2>1 DEF Stored
<1>. QED  BY <1>2, <1>3, <1>4

\* The bytes of an owner after the step.
DataAfter(o) == [i \in DOMAIN at'[o] |-> mem'[at'[o][i]]]

\* The step gives o memory that holds the bytes x, and disturbs no other owner.
Refills(o, x) ==
    /\ at' \in [Owners -> Seq(Cells)] /\ spilled' \in [Owners -> BOOLEAN]
    /\ mem' \in [Cells -> Values \cup {None}] /\ array' \in Seq(Cells)
    /\ MemoryInUse' /\ DeviceMemoryUnshared'
    /\ Len(at'[o]) = Len(x) /\ DataAfter(o) = x
    /\ \A p \in Owners \ {o} : at'[p] = at[p] /\ DataAfter(p) = Data(p)

\* DeviceMemoryUnshared, cell by cell.
LEMMA UnsharedCells ==
    TypeOK => (DeviceMemoryUnshared <=>
        \A o, p \in Owners : o # p /\ ~spilled[o] =>
            \A i \in DOMAIN at[o] :
                /\ \A j \in DOMAIN at[p] : at[o][i] # at[p][j]
                /\ \A j \in DOMAIN array : at[o][i] # array[j])
BY DEF DeviceMemoryUnshared, Elements

\* New memory for o: allocated, filled with x, while memory S that nobody else
\* has is freed.
LEMMA NewMemory ==
    ASSUME TypeOK, MemoryInUse, DeviceMemoryUnshared,
           NEW o \in Owners, NEW n \in Nat, NEW q \in Allocations(n),
           NEW x \in [1..n -> Values], NEW host \in BOOLEAN, NEW S,
           \A p \in Owners \ {o} : \A i \in DOMAIN at[p] : at[p][i] \notin S,
           \A i \in DOMAIN array : array[i] \notin S,
           MakeOwner(o, q, host), mem' = Stored(q, x, S),
           array' = array \/ (host /\ array' = q)
    PROVE  Refills(o, x)
<1>1. /\ q \in [1..n -> Cells] /\ q \in Seq(Cells)
      /\ Len(q) = n /\ DOMAIN q = 1..n
      /\ \A i \in 1..n : mem[q[i]] = None
      /\ \A i, j \in 1..n : q[i] = q[j] => i = j
  BY AllocationFacts
<1>2. /\ mem' \in [Cells -> Values \cup {None}]
      /\ \A i \in 1..n : mem'[q[i]] = x[i]
      /\ \A c \in Cells : (\A i \in 1..n : q[i] # c)
           => mem'[c] = IF c \in S THEN None ELSE mem[c]
  BY <1>1, StoredFacts
<1>3. /\ at' = [at EXCEPT ![o] = q] /\ spilled' = [spilled EXCEPT ![o] = host]
      /\ at' \in [Owners -> Seq(Cells)] /\ spilled' \in [Owners -> BOOLEAN]
      /\ array' \in Seq(Cells)
      /\ at'[o] = q /\ \A p \in Owners \ {o} : at'[p] = at[p]
      /\ spilled'[o] = host /\ \A p \in Owners \ {o} : spilled'[p] = spilled[p]
  BY <1>1 DEF MakeOwner, TypeOK
<1>4. None \notin Values
  BY CopyOnWriteAssumption
<1>5. \A p \in Owners : \A i \in DOMAIN at[p] :
        at[p][i] \in Cells /\ mem[at[p][i]] # None
  BY <1>4 DEF TypeOK, MemoryInUse
<1>6. \A i \in DOMAIN array : array[i] \in Cells /\ mem[array[i]] # None
  BY <1>4 DEF TypeOK, MemoryInUse
<1>7. \A p \in Owners : \A i \in DOMAIN at[p], j \in 1..n : at[p][i] # q[j]
  BY <1>1, <1>5
<1>8. \A i \in DOMAIN array, j \in 1..n : array[i] # q[j]
  BY <1>1, <1>6
<1>9. \A p \in Owners \ {o} : \A i \in DOMAIN at[p] :
        mem'[at[p][i]] = mem[at[p][i]]
  BY <1>2, <1>5, <1>7
<1>10. \A i \in DOMAIN array : mem'[array[i]] = mem[array[i]]
  BY <1>2, <1>6, <1>8
<1>11. MemoryInUse'
  <2>1. ASSUME NEW p \in Owners, NEW i \in DOMAIN at'[p]
        PROVE  mem'[at'[p][i]] \in Values
    <3>1. CASE p = o
      BY <1>1, <1>2, <1>3, <3>1
    <3>2. CASE p # o
      BY <1>3, <1>9, <3>2 DEF MemoryInUse
    <3>. QED  BY <3>1, <3>2
  <2>2. ASSUME NEW i \in DOMAIN array' PROVE mem'[array'[i]] \in Values
    <3>1. CASE array' = array
      BY <1>10, <3>1 DEF MemoryInUse
    <3>2. CASE array' = q
      BY <1>1, <1>2, <3>2
    <3>. QED  BY <3>1, <3>2
  <2>3. ASSUME NEW p \in Owners, NEW i \in DOMAIN at'[p],
               NEW j \in DOMAIN at'[p], at'[p][i] = at'[p][j]
        PROVE  i = j
    <3>1. CASE p = o
      BY <1>1, <1>3, <2>3, <3>1
    <3>2. CASE p # o
      BY <1>3, <2>3, <3>2 DEF MemoryInUse
    <3>. QED  BY <3>1, <3>2
  <2>. QED  BY <2>1, <2>2, <2>3 DEF MemoryInUse
<1>12. DeviceMemoryUnshared'
  <2>. SUFFICES ASSUME NEW p \in Owners, NEW r \in Owners, p # r, ~spilled'[p],
                       NEW i \in DOMAIN at'[p]
                PROVE  /\ \A j \in DOMAIN at'[r] : at'[p][i] # at'[r][j]
                       /\ \A j \in DOMAIN array' : at'[p][i] # array'[j]
    BY DEF DeviceMemoryUnshared, Elements
  <2>1. \A s, t \in Owners : s # t /\ ~spilled[s] =>
            \A k \in DOMAIN at[s] :
                /\ \A j \in DOMAIN at[t] : at[s][k] # at[t][j]
                /\ \A j \in DOMAIN array : at[s][k] # array[j]
    BY UnsharedCells
  <2>2. CASE p = o
    BY <1>1, <1>3, <1>7, <1>8, <2>2
  <2>3. CASE p # o
    <3>1. at'[p] = at[p] /\ ~spilled[p]
      BY <1>3, <2>3
    <3>2. \A j \in DOMAIN array' : at'[p][i] # array'[j]
      BY <1>1, <1>7, <2>1, <3>1
    <3>3. \A j \in DOMAIN at'[r] : at'[p][i] # at'[r][j]
      <4>1. CASE r = o
        BY <1>1, <1>3, <1>7, <3>1, <4>1
      <4>2. CASE r # o
        BY <1>3, <2>1, <3>1, <4>2
      <4>. QED  BY <4>1, <4>2
    <3>. QED  BY <3>2, <3>3
  <2>. QED  BY <2>2, <2>3
<1>13. DataAfter(o) = x /\ Len(at'[o]) = Len(x)
  BY <1>1, <1>2, <1>3 DEF DataAfter
<1>14. \A p \in Owners \ {o} : DataAfter(p) = Data(p)
  BY <1>3, <1>9 DEF DataAfter, Data, Bytes
<1>. QED
  BY <1>2, <1>3, <1>11, <1>12, <1>13, <1>14 DEF Refills

\* The bytes of an owner and of a buffer are values.
LEMMA DataValues ==
    ASSUME TypeOK, MemoryInUse
    PROVE  /\ \A o \in Owners : Data(o) \in [1..Len(at[o]) -> Values]
           /\ \A b \in Live : Content(b) \in [1..size[b] -> Values]
<1>1. ASSUME NEW o \in Owners PROVE Data(o) \in [1..Len(at[o]) -> Values]
  <2>1. at[o] \in Seq(Cells) /\ DOMAIN at[o] = 1..Len(at[o])
    BY DEF TypeOK
  <2>. QED  BY <2>1 DEF Data, Bytes, MemoryInUse
<1>2. ASSUME NEW b \in Live PROVE Content(b) \in [1..size[b] -> Values]
  <2>1. /\ owner[b] \in Owners /\ at[owner[b]] \in Seq(Cells)
        /\ offset[b] \in Nat /\ size[b] \in Nat
        /\ offset[b] + size[b] <= Len(at[owner[b]])
    BY DEF TypeOK, Live, Exists
  <2>2. \A i \in 1..size[b] : offset[b] + i \in 1..Len(at[owner[b]])
    BY <2>1
  <2>3. Content(b) = [i \in 1..size[b] |-> Data(owner[b])[offset[b] + i]]
    BY ContentFacts DEF ContentIsPart
  <2>. QED  BY <1>1, <2>1, <2>2, <2>3
<1>. QED  BY <1>1, <1>2

\* A deep copy: the new owner's bytes are the content of the buffer.
LEMMA CopyMemory ==
    ASSUME TypeOK, MemoryInUse, DeviceMemoryUnshared,
           NEW b \in Live, NEW o \in Owners, at[o] = <<>>,
           CopyInto(b, o), array' = array
    PROVE  Refills(o, Content(b))
<1>. DEFINE w == owner[b]
<1>1. /\ w \in Owners /\ at[w] \in Seq(Cells) /\ w # o
      /\ offset[b] \in Nat /\ size[b] \in Nat /\ size[b] > 0
      /\ offset[b] + size[b] <= Len(at[w])
  BY DEF TypeOK, Live, Exists
<1>2. Content(b) \in [1..size[b] -> Values]
  BY DataValues
<1>3. CASE ~spilled[w]
  <2>1. PICK q \in Allocations(size[b]) :
          MakeOwner(o, q, FALSE) /\ mem' = Stored(q, Content(b), {})
    BY <1>3 DEF CopyInto
  <2>2. /\ \A p \in Owners \ {o} : \A i \in DOMAIN at[p] : at[p][i] \notin {}
        /\ \A i \in DOMAIN array : array[i] \notin {}
    OBVIOUS
  <2>3. \A n \in Nat : \A x, S :
          n = size[b] /\ x = Content(b) /\ S = {} => Refills(o, x)
    BY <1>1, <1>2, <2>1, <2>2, NewMemory
  <2>. QED  BY <1>1, <2>3
<1>4. CASE spilled[w]
  <2>1. MakeOwner(o, Window(b), TRUE) /\ mem' = mem
    BY <1>4 DEF CopyInto
  <2>2. /\ Window(b) = [i \in 1..size[b] |-> at[w][offset[b] + i]]
        /\ Content(b) = [i \in 1..size[b] |-> Data(w)[offset[b] + i]]
    BY ContentFacts DEF ContentIsPart
  <2>3. \A i \in 1..size[b] : /\ offset[b] + i \in DOMAIN at[w]
                              /\ at[w][offset[b] + i] \in Cells
    BY <1>1
  <2>4. /\ Window(b) \in Seq(Cells) /\ Len(Window(b)) = size[b]
        /\ DOMAIN Window(b) = 1..size[b]
    <3>1. Window(b) \in [1..size[b] -> Cells]
      BY <2>2, <2>3
    <3>. QED  BY <1>1, <3>1
  <2>5. /\ at' \in [Owners -> Seq(Cells)] /\ spilled' \in [Owners -> BOOLEAN]
        /\ at'[o] = Window(b) /\ spilled'[o] = TRUE
        /\ \A p \in Owners \ {o} : at'[p] = at[p] /\ spilled'[p] = spilled[p]
    BY <2>1, <2>4 DEF MakeOwner, TypeOK
  <2>6. Len(Content(b)) = size[b]
    BY <1>1, <1>2
  <2>7. DataAfter(o) = Content(b)
    BY <2>1, <2>2, <2>3, <2>4, <2>5 DEF DataAfter, Data, Bytes
  <2>8. \A p \in Owners \ {o} : DataAfter(p) = Data(p)
    BY <2>1, <2>5 DEF DataAfter, Data, Bytes
  <2>9. MemoryInUse'
    <3>1. ASSUME NEW p \in Owners, NEW i \in DOMAIN at'[p]
          PROVE  mem'[at'[p][i]] \in Values
      <4>1. CASE p = o
        BY <1>1, <2>1, <2>2, <2>3, <2>4, <2>5, <4>1 DEF MemoryInUse
      <4>2. CASE p # o
        BY <2>1, <2>5, <4>2 DEF MemoryInUse
      <4>. QED  BY <4>1, <4>2
    <3>2. ASSUME NEW i \in DOMAIN array' PROVE mem'[array'[i]] \in Values
      BY <2>1 DEF MemoryInUse
    <3>3. ASSUME NEW p \in Owners, NEW i \in DOMAIN at'[p],
                 NEW j \in DOMAIN at'[p], at'[p][i] = at'[p][j]
          PROVE  i = j
      <4>1. CASE p = o
        <5>1. /\ i \in 1..size[b] /\ j \in 1..size[b]
              /\ at[w][offset[b] + i] = at[w][offset[b] + j]
          BY <2>2, <2>4, <2>5, <3>3, <4>1
        <5>2. offset[b] + i = offset[b] + j
          BY <1>1, <2>3, <5>1 DEF MemoryInUse
        <5>. QED  BY <1>1, <5>1, <5>2
      <4>2. CASE p # o
        BY <2>5, <3>3, <4>2 DEF MemoryInUse
      <4>. QED  BY <4>1, <4>2
    <3>. QED  BY <3>1, <3>2, <3>3 DEF MemoryInUse
  <2>10. DeviceMemoryUnshared'
    <3>. SUFFICES ASSUME NEW p \in Owners, NEW r \in Owners, p # r,
                         ~spilled'[p], NEW i \in DOMAIN at'[p]
                  PROVE  /\ \A j \in DOMAIN at'[r] : at'[p][i] # at'[r][j]
                         /\ \A j \in DOMAIN array' : at'[p][i] # array'[j]
      BY DEF DeviceMemoryUnshared, Elements
    <3>1. p # o /\ at'[p] = at[p] /\ ~spilled[p] /\ p # w
      BY <1>1, <1>4, <2>5
    <3>2. \A t \in Owners \ {p} :
            /\ \A j \in DOMAIN at[t] : at[p][i] # at[t][j]
            /\ \A j \in DOMAIN array : at[p][i] # array[j]
      BY <3>1, UnsharedCells
    <3>3. CASE r = o
      BY <1>1, <2>2, <2>3, <2>4, <2>5, <3>1, <3>2, <3>3
    <3>4. CASE r # o
      BY <2>5, <3>1, <3>2, <3>4
    <3>. QED  BY <3>3, <3>4
  <2>. QED
    BY <2>1, <2>4, <2>5, <2>6, <2>7, <2>8, <2>9, <2>10 DEF Refills, TypeOK
<1>. QED  BY <1>3, <1>4

\* Spilling and unspilling an owner keep everybody's bytes.
LEMMA MoveMemory ==
    ASSUME TypeOK, MemoryInUse, DeviceMemoryUnshared,
           NEW o \in Owners, NEW host \in BOOLEAN,
           Move(o, host), array' = array
    PROVE  Refills(o, Data(o)) /\ spilled' = [spilled EXCEPT ![o] = host]
<1>1. at[o] \in Seq(Cells) /\ Len(at[o]) \in Nat
  BY DEF TypeOK
<1>2. Bytes(at[o]) \in [1..Len(at[o]) -> Values]
  BY DataValues DEF Data
<1>3. PICK q \in Allocations(Len(at[o])) :
        /\ MakeOwner(o, q, host)
        /\ mem' = Stored(q, Bytes(at[o]), OwnCells(o))
  BY DEF Move, MakeOwner
<1>4. \A p \in Owners \ {o} : \A i \in DOMAIN at[p] : at[p][i] \notin OwnCells(o)
  BY DEF OwnCells, Elements
<1>5. \A i \in DOMAIN array : array[i] \notin OwnCells(o)
  BY DEF OwnCells, Elements
<1>. QED  BY <1>1, <1>2, <1>3, <1>4, <1>5, NewMemory DEF Data, MakeOwner

\* So does moving an owner back to the device, which then is on the device.
LEMMA UnspillMemory ==
    ASSUME TypeOK, MemoryInUse, DeviceMemoryUnshared,
           NEW o \in Owners, Unspill(o), array' = array
    PROVE  Refills(o, Data(o)) /\ spilled' = [spilled EXCEPT ![o] = FALSE]
<1>1. CASE spilled[o] /\ Move(o, FALSE)
  BY <1>1, MoveMemory
<1>2. CASE ~spilled[o] /\ UNCHANGED <<at, spilled, mem>>
  <2>1. spilled' = [spilled EXCEPT ![o] = FALSE]
    BY <1>2 DEF TypeOK
  <2>2. MemoryInUse' /\ DeviceMemoryUnshared'
    BY <1>2 DEF MemoryInUse, DeviceMemoryUnshared
  <2>3. \A p \in Owners : at'[p] = at[p] /\ DataAfter(p) = Data(p)
    BY <1>2 DEF DataAfter, Data, Bytes
  <2>4. Len(at'[o]) = Len(Data(o))
    <3>1. at[o] \in Seq(Cells) /\ Len(at[o]) \in Nat  BY DEF TypeOK
    <3>2. Data(o) \in [1..Len(at[o]) -> Values]  BY DataValues
    <3>. QED  BY <1>2, <3>1, <3>2
  <2>. QED  BY <1>2, <2>1, <2>2, <2>3, <2>4 DEF Refills, TypeOK
<1>. QED  BY <1>1, <1>2 DEF Unspill

\* A move keeps the lengths, and what it moves.
LEMMA UnspillLengths ==
    ASSUME TypeOK, MemoryInUse, DeviceMemoryUnshared,
           NEW b \in Live, Unspill(owner[b]), array' = array
    PROVE  /\ at' \in [Owners -> Seq(Cells)] /\ spilled' \in [Owners -> BOOLEAN]
           /\ mem' \in [Cells -> Values \cup {None}] /\ array' \in Seq(Cells)
           /\ MemoryInUse' /\ DeviceMemoryUnshared'
           /\ \A o \in Owners : /\ Len(at'[o]) = Len(at[o])
                                /\ DataAfter(o) = Data(o)
           /\ spilled' = [spilled EXCEPT ![owner[b]] = FALSE]
<1>1. owner[b] \in Owners
  BY DEF TypeOK, Live, Exists
<1>2. PICK o \in Owners : o = owner[b]
  BY <1>1
<1>3. Refills(o, Data(o)) /\ spilled' = [spilled EXCEPT ![o] = FALSE]
  BY <1>2, UnspillMemory
<1>4. Len(at[o]) = Len(Data(o))
  <2>1. at[o] \in Seq(Cells) /\ Len(at[o]) \in Nat  BY DEF TypeOK
  <2>2. Data(o) \in [1..Len(at[o]) -> Values]  BY DataValues
  <2>. QED  BY <2>1, <2>2
<1>. QED  BY <1>2, <1>3, <1>4 DEF Refills

-----------------------------------------------------------------------------
(* Lemmas about buffers *)

\* SlicesKnown, buffer by buffer.
SlicesPointwise ==
    \A o \in Owners, b \in Buffers :
        b \in slices[o] <=> owner[b] = o /\ ~(pc = "swap" /\ self = b)

\* SlicesKnown says the same buffer by buffer.
LEMMA SlicesFacts == TypeOK => (SlicesKnown <=> SlicesPointwise)
<1>1. None \notin Owners
  BY CopyOnWriteAssumption
<1>2. TypeOK => \A o \in Owners : slices[o] \subseteq Buffers
  BY DEF TypeOK
<1>. QED  BY <1>1, <1>2 DEF SlicesKnown, SlicesPointwise, Live, Exists

\* The same in the next state.
LEMMA SlicesFactsNext == TypeOK' => (SlicesKnown' <=> SlicesPointwise')
BY SlicesFacts, PTL

\* A buffer that exists is a part of an owner, and an owner without memory has
\* no buffer.
LEMMA LiveFacts ==
    ASSUME TypeOK
    PROVE  /\ \A b \in Live : /\ b \in Buffers /\ owner[b] \in Owners
                              /\ owner[b] # None /\ at[owner[b]] # <<>>
                              /\ size[b] \in Nat /\ size[b] > 0
                              /\ offset[b] \in Nat
                              /\ offset[b] + size[b] <= Len(at[owner[b]])
           /\ \A o \in Owners : at[o] = <<>> => \A b \in Buffers : owner[b] # o
<1>1. None \notin Owners
  BY CopyOnWriteAssumption
<1>2. ASSUME NEW b \in Live
      PROVE  /\ b \in Buffers /\ owner[b] \in Owners
             /\ owner[b] # None /\ at[owner[b]] # <<>>
             /\ size[b] \in Nat /\ size[b] > 0
             /\ offset[b] \in Nat
             /\ offset[b] + size[b] <= Len(at[owner[b]])
  <2>1. /\ b \in Buffers /\ owner[b] \in Owners /\ owner[b] # None
        /\ offset[b] \in Nat /\ size[b] \in Nat /\ size[b] > 0
        /\ offset[b] + size[b] <= Len(at[owner[b]])
    BY DEF TypeOK, Live, Exists
  <2>2. at[owner[b]] # <<>>
    BY <2>1
  <2>. QED  BY <2>1, <2>2
<1>. QED  BY <1>1, <1>2 DEF Live, Exists

\* A buffer that stays where it is in an owner that keeps its bytes keeps its
\* content.
LEMMA ContentKept ==
    ASSUME TypeOK, TypeOK', NEW b \in Live,
           owner'[b] = owner[b], offset'[b] = offset[b], size'[b] = size[b],
           DataAfter(owner[b]) = Data(owner[b])
    PROVE  Content(b)' = Content(b)
<1>1. b \in Buffers /\ b \in Live'
  BY DEF Live, Exists
<1>2. Content(b)' = [i \in 1..size'[b] |-> DataAfter(owner'[b])[offset'[b] + i]]
  BY <1>1, ContentFactsNext DEF ContentIsPart, Data, Bytes, DataAfter
<1>3. Content(b) = [i \in 1..size[b] |-> Data(owner[b])[offset[b] + i]]
  BY ContentFacts DEF ContentIsPart
<1>. QED  BY <1>2, <1>3

-----------------------------------------------------------------------------
(* Every action keeps the invariant *)

\* What making the buffer b does to the fields of the buffers.
LEMMA MakeBufferFacts ==
    ASSUME TypeOK, NEW b \in Buffers, NEW o \in Owners, NEW lo \in Nat,
           NEW n \in Nat, MakeBuffer(b, o, lo, n)
    PROVE  /\ owner' \in [Buffers -> Owners \cup {None}]
           /\ offset' \in [Buffers -> Nat] /\ size' \in [Buffers -> Nat]
           /\ slices' \in [Owners -> SUBSET Buffers]
           /\ owner'[b] = o /\ offset'[b] = lo /\ size'[b] = n
           /\ \A c \in Buffers \ {b} : /\ owner'[c] = owner[c]
                                       /\ offset'[c] = offset[c]
                                       /\ size'[c] = size[c]
           /\ \A p \in Owners, c \in Buffers :
                c \in slices'[p] <=> c \in slices[p] \/ (p = o /\ c = b)
BY DEF MakeBuffer, TypeOK

\* A new buffer in an owner with the memory for it, while no ptr is read.
LEMMA NewBufferKeeps ==
    ASSUME IInv, Idle, NEW b \in Buffers, ~Exists(b),
           NEW o \in Owners, NEW lo \in Nat, NEW n \in Nat \ {0},
           MakeBuffer(b, o, lo, n),
           at' \in [Owners -> Seq(Cells)], spilled' \in [Owners -> BOOLEAN],
           mem' \in [Cells -> Values \cup {None}], array' \in Seq(Cells),
           MemoryInUse', DeviceMemoryUnshared',
           lo + n <= Len(at'[o]),
           \A c \in Live : at'[owner[c]] = at[owner[c]],
           UNCHANGED <<contextVars, exposed, locks, third, spilling, callVars>>
    PROVE  IInv'
<1>1. /\ TypeOK /\ ContextStacks /\ SlicesKnown /\ ContextsPinOwners
      /\ pc = "idle" /\ pc' = "idle" /\ owner[b] = None
      /\ modes' = modes /\ scopes' = scopes /\ exposed' = exposed
      /\ locks' = locks /\ third' = third /\ spilling' = spilling
      /\ self' = self /\ fresh' = fresh
  BY DEF IInv, Idle, Exists, contextVars, callVars
<1>2. /\ owner' \in [Buffers -> Owners \cup {None}]
      /\ offset' \in [Buffers -> Nat] /\ size' \in [Buffers -> Nat]
      /\ slices' \in [Owners -> SUBSET Buffers]
      /\ owner'[b] = o /\ offset'[b] = lo /\ size'[b] = n
      /\ \A c \in Buffers \ {b} : /\ owner'[c] = owner[c]
                                  /\ offset'[c] = offset[c]
                                  /\ size'[c] = size[c]
      /\ \A p \in Owners, c \in Buffers :
           c \in slices'[p] <=> c \in slices[p] \/ (p = o /\ c = b)
  BY <1>1, MakeBufferFacts
<1>3. None \notin Owners
  BY CopyOnWriteAssumption
<1>5. TypeOK'
  <2>1. ASSUME NEW c \in Buffers, owner'[c] # None
        PROVE  size'[c] > 0 /\ offset'[c] + size'[c] <= Len(at'[owner'[c]])
    <3>1. CASE c = b
      BY <1>2, <3>1
    <3>2. CASE c # b
      <4>1. /\ owner'[c] = owner[c] /\ size'[c] = size[c]
            /\ offset'[c] = offset[c] /\ c \in Live
        BY <1>2, <2>1, <3>2 DEF Live, Exists
      <4>. QED  BY <1>1, <4>1, LiveFacts
    <3>. QED  BY <3>1, <3>2
  <2>. QED  BY <1>1, <1>2, <2>1 DEF TypeOK
<1>6. ContextStacks'
  BY <1>1, <1>2, <1>3 DEF ContextStacks, Exists
<1>7. SlicesKnown'
  <2>1. SlicesPointwise  BY <1>1, SlicesFacts
  <2>2. ASSUME NEW p \in Owners, NEW c \in Buffers
        PROVE  c \in slices'[p] <=> owner'[c] = p
    <3>1. c \in slices[p] <=> owner[c] = p
      BY <1>1, <2>1 DEF SlicesPointwise
    <3>2. CASE c = b
      BY <1>1, <1>2, <1>3, <3>1, <3>2
    <3>3. CASE c # b
      BY <1>2, <3>1, <3>3
    <3>. QED  BY <3>2, <3>3
  <2>3. SlicesPointwise'
    BY <1>1, <2>2 DEF SlicesPointwise
  <2>. QED  BY <1>5, <2>3, SlicesFactsNext
<1>8. ContextsPinOwners'
  <2>. SUFFICES ASSUME spilling, NEW c \in Buffers, owner'[c] # None,
                       NEW i \in DOMAIN scopes[c], scopes[c][i] = "internal"
                PROVE  <<c, i>> \in locks[owner'[c]]
    BY <1>1 DEF ContextsPinOwners, Live, Exists
  <2>1. c # b
    BY <1>1 DEF ContextStacks, Exists
  <2>. QED  BY <1>1, <1>2, <2>1 DEF ContextsPinOwners, Live, Exists
<1>9. PointerUsedInPlace' /\ PtrSteps'
  BY <1>1 DEF PointerUsedInPlace, PtrSteps
<1>. QED  BY <1>5, <1>6, <1>7, <1>8, <1>9 DEF IInv

\* A new owner with a new buffer.
LEMMA NewOwnerKeeps ==
    ASSUME IInv, Idle, NEW b \in Buffers, ~Exists(b),
           NEW o \in Owners, at[o] = <<>>,
           NEW n \in Nat \ {0}, NEW x, Len(x) = n, Refills(o, x),
           MakeBuffer(b, o, 0, n),
           UNCHANGED <<contextVars, exposed, locks, third, spilling, callVars>>
    PROVE  IInv'
<1>1. /\ at' \in [Owners -> Seq(Cells)] /\ spilled' \in [Owners -> BOOLEAN]
      /\ mem' \in [Cells -> Values \cup {None}] /\ array' \in Seq(Cells)
      /\ Len(at'[o]) = n /\ MemoryInUse' /\ DeviceMemoryUnshared'
      /\ \A p \in Owners \ {o} : at'[p] = at[p]
  BY DEF Refills
<1>2. \A c \in Live : owner[c] # o /\ at'[owner[c]] = at[owner[c]]
  BY <1>1, LiveFacts DEF IInv
<1>3. 0 \in Nat /\ 0 + n <= Len(at'[o])
  BY <1>1
<1>. QED  BY <1>1, <1>2, <1>3, NewBufferKeeps

\* The memory of a new buffer.
LEMMA NewRefills ==
    ASSUME IInv, NEW b \in Buffers, NEW o \in Owners, NEW x \in Inputs,
           New(b, o, x) \/ NewFromHost(b, o, x)
    PROVE  /\ Refills(o, x) /\ Len(x) = MaxSize /\ Idle /\ ~Exists(b)
           /\ at[o] = <<>> /\ MakeBuffer(b, o, 0, MaxSize)
           /\ UNCHANGED <<contextVars, exposed, locks, third, spilling,
                          callVars>>
<1>1. MaxSize \in Nat /\ x \in [1..MaxSize -> Values] /\ Len(x) = MaxSize
  BY CopyOnWriteAssumption DEF Inputs
<1>2. /\ \A p \in Owners \ {o} : \A i \in DOMAIN at[p] : at[p][i] \notin {}
      /\ \A i \in DOMAIN array : array[i] \notin {}
  OBVIOUS
<1>3. PICK host \in BOOLEAN, q \in Allocations(MaxSize) :
        /\ MakeOwner(o, q, host) /\ mem' = Stored(q, x, {})
        /\ array' = array \/ (host /\ array' = q)
  BY <1>1 DEF New, NewFromHost
<1>4. \A S : S = {} => Refills(o, x)
  BY <1>1, <1>2, <1>3, NewMemory DEF IInv
<1>5. Refills(o, x)
  BY <1>4
<1>. QED  BY <1>1, <1>5 DEF New, NewFromHost

\* as_buffer, of device memory or of a host array.
LEMMA NewKeeps ==
    ASSUME IInv, NEW b \in Buffers, NEW o \in Owners, NEW x \in Inputs,
           New(b, o, x) \/ NewFromHost(b, o, x)
    PROVE  IInv'
BY NewRefills, NewOwnerKeeps, CopyOnWriteAssumption

\* The memory of a deep copy holds the content of the buffer that is copied.
LEMMA DeepCopyRefills ==
    ASSUME IInv, NEW b \in Buffers, NEW c \in Buffers, NEW o \in Owners,
           DeepCopy(b, c, o)
    PROVE  Refills(o, Content(b)) /\ Len(Content(b)) = size[b] /\ b \in Live
           /\ size[b] \in Nat \ {0}
<1>1. b \in Live /\ CopyInto(b, o) /\ array' = array /\ at[o] = <<>>
  BY DEF DeepCopy, Live
<1>2. size[b] \in Nat \ {0}
  BY <1>1, LiveFacts DEF IInv
<1>3. Content(b) \in [1..size[b] -> Values]
  BY <1>1, DataValues DEF IInv
<1>. QED  BY <1>1, <1>2, <1>3, CopyMemory DEF IInv

\* copy(deep=True) is a new owner with a new buffer.
LEMMA DeepCopyKeeps ==
    ASSUME IInv, NEW b \in Buffers, NEW c \in Buffers, NEW o \in Owners,
           DeepCopy(b, c, o)
    PROVE  IInv'
<1>1. /\ Refills(o, Content(b)) /\ Len(Content(b)) = size[b]
      /\ size[b] \in Nat \ {0}
  BY DeepCopyRefills
<1>2. /\ Idle /\ ~Exists(c) /\ at[o] = <<>> /\ MakeBuffer(c, o, 0, size[b])
      /\ UNCHANGED <<contextVars, exposed, locks, third, spilling, callVars>>
  BY DEF DeepCopy
<1>3. \A n \in Nat \ {0} : \A x : n = size[b] /\ x = Content(b) => IInv'
  BY <1>1, <1>2, NewOwnerKeeps
<1>. QED  BY <1>1, <1>3

\* Another slice of the owner of b.
LEMMA SliceKeeps ==
    ASSUME IInv, Idle, NEW b \in Live, NEW c \in Buffers, ~Exists(c),
           NEW lo \in Nat, NEW n \in Nat \ {0}, lo + n <= size[b],
           MakeBuffer(c, owner[b], offset[b] + lo, n),
           UNCHANGED <<contextVars, at, spilled, exposed, locks, memoryVars,
                       callVars>>
    PROVE  IInv'
<1>1. /\ owner[b] \in Owners /\ size[b] \in Nat /\ offset[b] \in Nat
      /\ offset[b] + size[b] <= Len(at[owner[b]])
  BY LiveFacts DEF IInv
<1>2. offset[b] + lo \in Nat /\ (offset[b] + lo) + n <= Len(at[owner[b]])
  <2>1. Len(at[owner[b]]) \in Nat
    BY <1>1 DEF IInv, TypeOK
  <2>. QED  BY <1>1, <2>1
<1>3. /\ at' \in [Owners -> Seq(Cells)] /\ spilled' \in [Owners -> BOOLEAN]
      /\ mem' \in [Cells -> Values \cup {None}] /\ array' \in Seq(Cells)
      /\ at' = at
      /\ UNCHANGED <<contextVars, exposed, locks, third, spilling, callVars>>
  BY DEF IInv, TypeOK, memoryVars
<1>4. MemoryInUse' /\ DeviceMemoryUnshared'
  BY DEF IInv, MemoryInUse, DeviceMemoryUnshared, memoryVars
<1>5. \A o \in Owners, l \in Nat : o = owner[b] /\ l = offset[b] + lo => IInv'
  BY <1>2, <1>3, <1>4, NewBufferKeeps
<1>. QED  BY <1>1, <1>2, <1>5

\* Entering an internal context: the owner gets the spill lock.
LEMMA EnterInternalKeeps ==
    ASSUME IInv, NEW b \in Buffers, NEW mode \in Modes, EnterInternal(b, mode)
    PROVE  IInv'
<1>. DEFINE k == Len(scopes[b]) + 1
<1>1. /\ TypeOK /\ ContextStacks /\ SlicesKnown /\ ContextsPinOwners
      /\ pc = "idle" /\ pc' = "idle" /\ owner[b] # None /\ b \in Live
      /\ modes' = [modes EXCEPT ![b] = Append(@, mode)]
      /\ scopes' = [scopes EXCEPT ![b] = Append(@, "internal")]
      /\ locks' = [locks EXCEPT ![owner[b]] =
                    IF spilling THEN @ \cup {<<b, k>>} ELSE @]
      /\ Len(modes[b]) < MaxDepth
      /\ owner' = owner /\ offset' = offset /\ size' = size
      /\ slices' = slices /\ at' = at /\ spilled' = spilled
      /\ exposed' = exposed /\ mem' = mem /\ array' = array /\ third' = third
      /\ spilling' = spilling /\ self' = self /\ fresh' = fresh
  BY DEF IInv, EnterInternal, Idle, Exists, Live, bufferVars, memoryVars, callVars
<1>2. /\ owner[b] \in Owners
      /\ modes[b] \in Seq(Modes) /\ scopes[b] \in Seq(Scopes)
      /\ Len(modes[b]) = Len(scopes[b]) /\ k \in 1..MaxDepth
      /\ "internal" \in Scopes
  <2>1. owner[b] \in Owners /\ modes[b] \in Seq(Modes) /\ scopes[b] \in Seq(Scopes)
    BY <1>1 DEF TypeOK
  <2>. QED  BY <1>1, <2>1, CopyOnWriteAssumption DEF ContextStacks, Scopes
<1>. HIDE DEF k
<1>3. /\ modes' \in [Buffers -> Seq(Modes)] /\ scopes' \in [Buffers -> Seq(Scopes)]
      /\ Len(modes'[b]) = k /\ Len(scopes'[b]) = k
      /\ \A c \in Buffers \ {b} : modes'[c] = modes[c] /\ scopes'[c] = scopes[c]
      /\ \A i \in DOMAIN scopes'[b] : i = k \/ (/\ i \in DOMAIN scopes[b]
                                                /\ scopes'[b][i] = scopes[b][i])
  <2>1. /\ Append(modes[b], mode) \in Seq(Modes)
        /\ Append(scopes[b], "internal") \in Seq(Scopes)
        /\ Len(Append(modes[b], mode)) = k /\ Len(Append(scopes[b], "internal")) = k
        /\ DOMAIN Append(scopes[b], "internal") = 1..k
        /\ DOMAIN scopes[b] = 1..(k - 1)
        /\ \A i \in 1..(k - 1) : Append(scopes[b], "internal")[i] = scopes[b][i]
    BY <1>2 DEF k
  <2>2. /\ modes'[b] = Append(modes[b], mode)
        /\ scopes'[b] = Append(scopes[b], "internal")
        /\ \A c \in Buffers \ {b} : modes'[c] = modes[c] /\ scopes'[c] = scopes[c]
    BY <1>1 DEF TypeOK
  <2>3. modes' \in [Buffers -> Seq(Modes)] /\ scopes' \in [Buffers -> Seq(Scopes)]
    BY <1>1, <2>1, <2>2 DEF TypeOK
  <2>. QED  BY <1>2, <2>1, <2>2, <2>3
<1>4. /\ locks' \in [Owners -> SUBSET Locks]
      /\ \A o \in Owners : locks[o] \subseteq locks'[o]
      /\ spilling => <<b, k>> \in locks'[owner[b]]
  <2>1. <<b, k>> \in Locks /\ locks \in [Owners -> SUBSET Locks]
    BY <1>1, <1>2 DEF TypeOK, Locks
  <2>. QED  BY <1>1, <1>2, <2>1
<1>5. TypeOK'
  BY <1>1, <1>3, <1>4 DEF TypeOK
<1>6. ContextStacks'
  <2>. SUFFICES ASSUME NEW c \in Buffers
                PROVE  /\ Len(modes'[c]) = Len(scopes'[c])
                       /\ Len(scopes'[c]) <= MaxDepth
                       /\ owner[c] = None => scopes'[c] = <<>>
    BY <1>1 DEF ContextStacks, Exists
  <2>1. CASE c = b
    BY <1>1, <1>2, <1>3, <2>1, CopyOnWriteAssumption
  <2>2. CASE c # b
    BY <1>1, <1>3, <2>2 DEF ContextStacks, Exists
  <2>. QED  BY <2>1, <2>2
<1>7. SlicesKnown'
  BY <1>1 DEF SlicesKnown, Live, Exists
<1>8. ContextsPinOwners'
  <2>. SUFFICES ASSUME spilling, NEW c \in Live,
                       NEW i \in DOMAIN scopes'[c], scopes'[c][i] = "internal"
                PROVE  <<c, i>> \in locks'[owner[c]]
    BY <1>1 DEF ContextsPinOwners, Live, Exists
  <2>1. owner[c] \in Owners /\ c \in Buffers
    BY <1>1, LiveFacts
  <2>2. CASE c = b /\ i = k
    BY <1>4, <2>2
  <2>3. CASE ~(c = b /\ i = k)
    <3>1. i \in DOMAIN scopes[c] /\ scopes[c][i] = "internal"
      BY <1>3, <2>1, <2>3
    <3>. QED  BY <1>1, <1>4, <2>1, <3>1 DEF ContextsPinOwners
  <2>. QED  BY <2>2, <2>3
<1>9. PointerUsedInPlace' /\ PtrSteps'
  BY <1>1 DEF PointerUsedInPlace, PtrSteps
<1>10. MemoryInUse' /\ DeviceMemoryUnshared'
  BY <1>1 DEF IInv, MemoryInUse, DeviceMemoryUnshared
<1>. QED  BY <1>5, <1>6, <1>7, <1>8, <1>9, <1>10 DEF IInv

\* The last context of b is left: only its own lock goes.
LEMMA ExitKeeps ==
    ASSUME IInv, NEW b \in Buffers, Exit(b)
    PROVE  IInv'
<1>. DEFINE k == Len(scopes[b])
<1>1. /\ TypeOK /\ ContextStacks /\ SlicesKnown /\ ContextsPinOwners
      /\ pc = "idle" /\ pc' = "idle" /\ scopes[b] # <<>>
      /\ modes' = [modes EXCEPT ![b] = SubSeq(@, 1, Len(@) - 1)]
      /\ scopes' = [scopes EXCEPT ![b] = SubSeq(@, 1, Len(@) - 1)]
      /\ locks' = [o \in Owners |-> locks[o] \ {<<b, k>>}]
      /\ owner' = owner /\ offset' = offset /\ size' = size
      /\ slices' = slices /\ at' = at /\ spilled' = spilled
      /\ exposed' = exposed /\ mem' = mem /\ array' = array /\ third' = third
      /\ spilling' = spilling /\ self' = self /\ fresh' = fresh
  BY DEF IInv, Exit, Idle, bufferVars, memoryVars, callVars
<1>2. /\ modes[b] \in Seq(Modes) /\ scopes[b] \in Seq(Scopes)
      /\ Len(modes[b]) = k /\ k \in Nat /\ k > 0 /\ k <= MaxDepth
      /\ owner[b] # None
  <2>1. modes[b] \in Seq(Modes) /\ scopes[b] \in Seq(Scopes)
    BY <1>1 DEF TypeOK
  <2>. QED  BY <1>1, <2>1 DEF ContextStacks, Exists
<1>. HIDE DEF k
<1>3. /\ SubSeq(modes[b], 1, k - 1) \in Seq(Modes)
      /\ SubSeq(scopes[b], 1, k - 1) \in Seq(Scopes)
      /\ Len(SubSeq(modes[b], 1, k - 1)) = k - 1
      /\ Len(SubSeq(scopes[b], 1, k - 1)) = k - 1
      /\ \A i \in 1..(k - 1) : SubSeq(scopes[b], 1, k - 1)[i] = scopes[b][i]
      /\ DOMAIN SubSeq(scopes[b], 1, k - 1) = 1..(k - 1)
      /\ DOMAIN scopes[b] = 1..k
  BY <1>2 DEF k
<1>4. /\ modes' \in [Buffers -> Seq(Modes)] /\ scopes' \in [Buffers -> Seq(Scopes)]
      /\ Len(modes'[b]) = k - 1 /\ Len(scopes'[b]) = k - 1
      /\ \A c \in Buffers \ {b} : modes'[c] = modes[c] /\ scopes'[c] = scopes[c]
      /\ \A i \in DOMAIN scopes'[b] : /\ i # k /\ i \in DOMAIN scopes[b]
                                      /\ scopes'[b][i] = scopes[b][i]
  <2>1. /\ modes'[b] = SubSeq(modes[b], 1, k - 1)
        /\ scopes'[b] = SubSeq(scopes[b], 1, k - 1)
        /\ \A c \in Buffers \ {b} : modes'[c] = modes[c] /\ scopes'[c] = scopes[c]
    BY <1>1, <1>2 DEF TypeOK, k
  <2>2. modes' \in [Buffers -> Seq(Modes)] /\ scopes' \in [Buffers -> Seq(Scopes)]
    BY <1>1, <1>3, <2>1 DEF TypeOK
  <2>. QED  BY <1>2, <1>3, <2>1, <2>2
<1>5. TypeOK'
  <2>1. locks' \in [Owners -> SUBSET Locks]
    BY <1>1 DEF TypeOK
  <2>. QED  BY <1>1, <1>4, <2>1 DEF TypeOK
<1>6. ContextStacks'
  <2>. SUFFICES ASSUME NEW c \in Buffers
                PROVE  /\ Len(modes'[c]) = Len(scopes'[c])
                       /\ Len(scopes'[c]) <= MaxDepth
                       /\ owner[c] = None => scopes'[c] = <<>>
    BY <1>1 DEF ContextStacks, Exists
  <2>1. CASE c = b
    BY <1>2, <1>4, <2>1, CopyOnWriteAssumption
  <2>2. CASE c # b
    BY <1>1, <1>4, <2>2 DEF ContextStacks, Exists
  <2>. QED  BY <2>1, <2>2
<1>7. SlicesKnown'
  BY <1>1 DEF SlicesKnown, Live, Exists
<1>8. ContextsPinOwners'
  <2>. SUFFICES ASSUME spilling, NEW c \in Live,
                       NEW i \in DOMAIN scopes'[c], scopes'[c][i] = "internal"
                PROVE  <<c, i>> \in locks'[owner[c]]
    BY <1>1 DEF ContextsPinOwners, Live, Exists
  <2>1. owner[c] \in Owners /\ c \in Buffers
    BY <1>1, LiveFacts
  <2>2. /\ i \in DOMAIN scopes[c] /\ scopes[c][i] = "internal"
        /\ <<c, i>> # <<b, k>>
    BY <1>4, <2>1
  <2>. QED  BY <1>1, <2>1, <2>2 DEF ContextsPinOwners
<1>9. PointerUsedInPlace' /\ PtrSteps'
  BY <1>1 DEF PointerUsedInPlace, PtrSteps
<1>10. MemoryInUse' /\ DeviceMemoryUnshared'
  BY <1>1 DEF IInv, MemoryInUse, DeviceMemoryUnshared
<1>. QED  BY <1>5, <1>6, <1>7, <1>8, <1>9, <1>10 DEF IInv

\* Entering an external context: the owner is back on the device, and exposed.
LEMMA EnterExternalKeeps ==
    ASSUME IInv, NEW b \in Buffers, NEW mode \in Modes, EnterExternal(b, mode)
    PROVE  IInv'
<1>. DEFINE k == Len(scopes[b]) + 1
<1>1. /\ TypeOK /\ ContextStacks /\ SlicesKnown /\ ContextsPinOwners
      /\ MemoryInUse /\ DeviceMemoryUnshared
      /\ pc = "idle" /\ pc' = "idle" /\ owner[b] # None /\ b \in Live
      /\ modes' = [modes EXCEPT ![b] = Append(@, mode)]
      /\ scopes' = [scopes EXCEPT ![b] = Append(@, "external")]
      /\ Unspill(owner[b])
      /\ exposed' = [exposed EXCEPT ![owner[b]] = spilling]
      /\ Len(modes[b]) < MaxDepth
      /\ owner' = owner /\ offset' = offset /\ size' = size
      /\ slices' = slices /\ locks' = locks /\ array' = array /\ third' = third
      /\ spilling' = spilling /\ self' = self /\ fresh' = fresh
  BY DEF IInv, EnterExternal, Idle, Exists, Live, bufferVars, callVars
<1>2. /\ owner[b] \in Owners
      /\ modes[b] \in Seq(Modes) /\ scopes[b] \in Seq(Scopes)
      /\ Len(modes[b]) = Len(scopes[b]) /\ k \in 1..MaxDepth
      /\ "external" \in Scopes
  <2>1. owner[b] \in Owners /\ modes[b] \in Seq(Modes) /\ scopes[b] \in Seq(Scopes)
    BY <1>1 DEF TypeOK
  <2>. QED  BY <1>1, <2>1, CopyOnWriteAssumption DEF ContextStacks, Scopes
<1>. HIDE DEF k
<1>3. /\ modes' \in [Buffers -> Seq(Modes)] /\ scopes' \in [Buffers -> Seq(Scopes)]
      /\ Len(modes'[b]) = k /\ Len(scopes'[b]) = k
      /\ \A c \in Buffers \ {b} : modes'[c] = modes[c] /\ scopes'[c] = scopes[c]
      /\ \A i \in DOMAIN scopes'[b] : \/ scopes'[b][i] = "external"
                                      \/ /\ i \in DOMAIN scopes[b]
                                         /\ scopes'[b][i] = scopes[b][i]
  <2>1. /\ Append(modes[b], mode) \in Seq(Modes)
        /\ Append(scopes[b], "external") \in Seq(Scopes)
        /\ Len(Append(modes[b], mode)) = k /\ Len(Append(scopes[b], "external")) = k
        /\ DOMAIN Append(scopes[b], "external") = 1..k
        /\ DOMAIN scopes[b] = 1..(k - 1)
        /\ \A i \in 1..(k - 1) : Append(scopes[b], "external")[i] = scopes[b][i]
        /\ Append(scopes[b], "external")[k] = "external"
    BY <1>2 DEF k
  <2>2. /\ modes'[b] = Append(modes[b], mode)
        /\ scopes'[b] = Append(scopes[b], "external")
        /\ \A c \in Buffers \ {b} : modes'[c] = modes[c] /\ scopes'[c] = scopes[c]
    BY <1>1 DEF TypeOK
  <2>3. modes' \in [Buffers -> Seq(Modes)] /\ scopes' \in [Buffers -> Seq(Scopes)]
    BY <1>1, <2>1, <2>2 DEF TypeOK
  <2>. QED  BY <1>2, <2>1, <2>2, <2>3
<1>4. /\ at' \in [Owners -> Seq(Cells)] /\ spilled' \in [Owners -> BOOLEAN]
      /\ mem' \in [Cells -> Values \cup {None}] /\ array' \in Seq(Cells)
      /\ MemoryInUse' /\ DeviceMemoryUnshared'
      /\ \A o \in Owners : Len(at'[o]) = Len(at[o])
  BY <1>1, UnspillLengths
<1>5. TypeOK'
  <2>1. exposed' \in [Owners -> BOOLEAN]
    BY <1>1 DEF TypeOK
  <2>2. \A c \in Buffers : owner[c] # None =>
            size[c] > 0 /\ offset[c] + size[c] <= Len(at'[owner[c]])
    BY <1>1, <1>4 DEF TypeOK, Live, Exists
  <2>. QED  BY <1>1, <1>3, <1>4, <2>1, <2>2 DEF TypeOK
<1>6. ContextStacks'
  <2>. SUFFICES ASSUME NEW c \in Buffers
                PROVE  /\ Len(modes'[c]) = Len(scopes'[c])
                       /\ Len(scopes'[c]) <= MaxDepth
                       /\ owner[c] = None => scopes'[c] = <<>>
    BY <1>1 DEF ContextStacks, Exists
  <2>1. CASE c = b
    BY <1>1, <1>2, <1>3, <2>1, CopyOnWriteAssumption
  <2>2. CASE c # b
    BY <1>1, <1>3, <2>2 DEF ContextStacks, Exists
  <2>. QED  BY <2>1, <2>2
<1>7. SlicesKnown'
  BY <1>1 DEF SlicesKnown, Live, Exists
<1>8. ContextsPinOwners'
  <2>. SUFFICES ASSUME spilling, NEW c \in Live,
                       NEW i \in DOMAIN scopes'[c], scopes'[c][i] = "internal"
                PROVE  <<c, i>> \in locks[owner[c]]
    BY <1>1 DEF ContextsPinOwners, Live, Exists
  <2>1. i \in DOMAIN scopes[c] /\ scopes[c][i] = "internal"
    BY <1>3 DEF Live
  <2>. QED  BY <1>1, <2>1 DEF ContextsPinOwners
<1>9. PointerUsedInPlace' /\ PtrSteps'
  BY <1>1 DEF PointerUsedInPlace, PtrSteps
<1>. QED  BY <1>4, <1>5, <1>6, <1>7, <1>8, <1>9 DEF IInv

\* b becomes the buffer whose ptr is read.  A slice that counts one slice is
\* alone.
LEMMA ReadPtrKeeps ==
    ASSUME IInv, NEW b \in Buffers, ReadPtr(b)
    PROVE  IInv'
<1>1. /\ TypeOK /\ ContextStacks /\ SlicesKnown /\ ContextsPinOwners
      /\ pc = "idle" /\ owner[b] # None /\ b \in Live /\ self' = b
      /\ pc' = IF Mode(b) = "write" /\ IsShared(b) THEN "copy" ELSE "owner"
      /\ modes' = modes /\ scopes' = scopes /\ locks' = locks
      /\ owner' = owner /\ offset' = offset /\ size' = size
      /\ slices' = slices /\ at' = at /\ spilled' = spilled
      /\ exposed' = exposed /\ mem' = mem /\ array' = array /\ third' = third
      /\ spilling' = spilling /\ fresh' = fresh
  BY DEF IInv, ReadPtr, Idle, Exists, Live, bufferVars, contextVars, ownerVars,
         memoryVars
<1>2. pc' \in {"copy", "owner"}
  BY <1>1
<1>3. TypeOK'
  BY <1>1, <1>2 DEF TypeOK
<1>4. SlicesPointwise /\ \A o \in Owners, c \in Buffers :
                            c \in slices[o] <=> owner[c] = o
  BY <1>1, SlicesFacts DEF SlicesPointwise
<1>5. SlicesKnown'
  <2>1. SlicesPointwise'
    BY <1>1, <1>2, <1>4 DEF SlicesPointwise
  <2>. QED  BY <1>3, <2>1, SlicesFactsNext
<1>6. PtrSteps'
  <2>1. b \in Live'
    BY <1>1 DEF Live, Exists
  <2>2. ASSUME pc' = "owner", Mode(b) = "write", NEW c \in Live \ {b}
        PROVE  owner[c] # owner[b]
    <3>. DEFINE S == slices[owner[b]]
    <3>1. owner[b] \in Owners /\ S \subseteq Buffers /\ b \in S /\ c \in Buffers
      BY <1>1, <1>4, LiveFacts DEF Live, TypeOK
    <3>2. IsFiniteSet(S)
      BY <3>1, CopyOnWriteAssumption, FS_Subset
    <3>3. Cardinality(S) \in Nat /\ ~(Cardinality(S) > 1)
      BY <1>1, <2>2, <3>2, FS_CardinalityType DEF IsShared
    <3>4. IsFiniteSet(S \ {b}) /\ Cardinality(S \ {b}) = Cardinality(S) - 1
      BY <3>1, <3>2, FS_RemoveElement
    <3>5. Cardinality(S \ {b}) \in Nat
      BY <3>4, FS_CardinalityType
    <3>6. Cardinality(S \ {b}) = 0
      BY <3>3, <3>4, <3>5
    <3>7. S \ {b} = {}
      BY <3>4, <3>6, FS_EmptySet
    <3>. QED  BY <1>4, <3>1, <3>7
  <2>3. Mode(self)' = Mode(b)
    BY <1>1 DEF Mode
  <2>. QED
    BY <1>1, <1>2, <2>1, <2>2, <2>3 DEF PtrSteps, Live, Exists
<1>7. ContextStacks' /\ ContextsPinOwners'
  BY <1>1 DEF ContextStacks, ContextsPinOwners, Live, Exists
<1>8. PointerUsedInPlace'
  BY <1>2 DEF PointerUsedInPlace
<1>9. MemoryInUse' /\ DeviceMemoryUnshared'
  BY <1>1 DEF IInv, MemoryInUse, DeviceMemoryUnshared
<1>. QED  BY <1>3, <1>5, <1>6, <1>7, <1>8, <1>9 DEF IInv

\* Memory that moves underneath, at any time: everybody keeps his bytes, and
\* an owner whose pointer is about to be used stays on the device.
LEMMA MemoryMovesKeeps ==
    ASSUME IInv,
           at' \in [Owners -> Seq(Cells)], spilled' \in [Owners -> BOOLEAN],
           mem' \in [Cells -> Values \cup {None}], array' \in Seq(Cells),
           MemoryInUse', DeviceMemoryUnshared',
           \A o \in Owners : Len(at'[o]) = Len(at[o]) /\ DataAfter(o) = Data(o),
           pc = "use" => ~spilled'[owner[self]],
           UNCHANGED <<bufferVars, contextVars, slices, exposed, locks, third,
                       spilling, callVars>>
    PROVE  IInv'
<1>1. /\ TypeOK /\ ContextStacks /\ SlicesKnown /\ ContextsPinOwners
      /\ PointerUsedInPlace /\ PtrSteps
      /\ pc' = pc /\ self' = self /\ fresh' = fresh
      /\ modes' = modes /\ scopes' = scopes /\ locks' = locks
      /\ owner' = owner /\ offset' = offset /\ size' = size
      /\ slices' = slices /\ exposed' = exposed /\ third' = third
      /\ spilling' = spilling
  BY DEF IInv, bufferVars, contextVars, callVars
<1>2. TypeOK'
  <2>1. \A c \in Buffers : owner[c] # None =>
            size[c] > 0 /\ offset[c] + size[c] <= Len(at'[owner[c]])
    BY <1>1 DEF TypeOK
  <2>. QED  BY <1>1, <2>1 DEF TypeOK
<1>3. SlicesKnown' /\ ContextStacks' /\ ContextsPinOwners'
  BY <1>1 DEF SlicesKnown, ContextStacks, ContextsPinOwners, Live, Exists
<1>4. PointerUsedInPlace'
  BY <1>1 DEF PointerUsedInPlace, spillable
<1>5. PtrSteps'
  <2>1. ASSUME pc = "swap"
        PROVE  Data(fresh)' = Content(self)'
    <3>1. fresh \in Owners /\ self \in Live /\ Data(fresh) = Content(self)
      BY <1>1, <2>1 DEF PtrSteps
    <3>2. PICK b \in Live : b = self
      BY <3>1
    <3>3. owner[b] \in Owners
      BY <1>1, LiveFacts
    <3>4. Content(b)' = Content(b)
      BY <1>1, <1>2, <3>3, ContentKept
    <3>5. Content(self)' = Content(b)'
      BY <1>1, <3>2 DEF Content, Window, Bytes
    <3>6. Data(fresh)' = DataAfter(fresh)
      BY <1>1 DEF Data, Bytes, DataAfter
    <3>. QED  BY <3>1, <3>2, <3>4, <3>5, <3>6
  <2>2. Mode(self)' = Mode(self)
    BY <1>1 DEF Mode
  <2>. QED  BY <1>1, <2>1, <2>2 DEF PtrSteps, Live, Exists
<1>. QED  BY <1>2, <1>3, <1>4, <1>5 DEF IInv

\* The bytes of an owner are as many as its cells.
LEMMA DataLength ==
    ASSUME TypeOK, MemoryInUse, NEW o \in Owners
    PROVE  Len(Data(o)) = Len(at[o])
<1>1. at[o] \in Seq(Cells) /\ Len(at[o]) \in Nat  BY DEF TypeOK
<1>2. Data(o) \in [1..Len(at[o]) -> Values]  BY DataValues
<1>. QED  BY <1>1, <1>2

\* Spilling moves the bytes of an owner to the host.
LEMMA SpillMoves ==
    ASSUME IInv, NEW o \in Owners, Spill(o)
    PROVE  /\ Refills(o, Data(o)) /\ Len(Data(o)) = Len(at[o])
           /\ spilled' = [spilled EXCEPT ![o] = TRUE]
BY MoveMemory, DataLength DEF IInv, Spill

\* The spill manager leaves the owner of a pointer in use alone: it is not
\* spillable.
LEMMA SpillKeeps ==
    ASSUME IInv, NEW o \in Owners, Spill(o)
    PROVE  IInv'
<1>1. /\ Refills(o, Data(o)) /\ Len(Data(o)) = Len(at[o])
      /\ spilled' = [spilled EXCEPT ![o] = TRUE]
  BY SpillMoves
<1>2. ASSUME pc = "use" PROVE ~spilled'[owner[self]]
  <2>1. /\ self \in Live /\ ~spilled[owner[self]] /\ ~spillable(owner[self])
        /\ spillable(o)
    BY <1>2 DEF IInv, PtrSteps, PointerUsedInPlace, Spill
  <2>2. owner[self] \in Owners /\ owner[self] # o
    BY <2>1, LiveFacts DEF IInv
  <2>. QED  BY <1>1, <2>1, <2>2 DEF IInv, TypeOK
<1>3. UNCHANGED <<bufferVars, contextVars, slices, exposed, locks, third,
                  spilling, callVars>>
  BY DEF Spill
<1>4. /\ at' \in [Owners -> Seq(Cells)] /\ spilled' \in [Owners -> BOOLEAN]
      /\ mem' \in [Cells -> Values \cup {None}] /\ array' \in Seq(Cells)
      /\ MemoryInUse' /\ DeviceMemoryUnshared'
      /\ \A p \in Owners : Len(at'[p]) = Len(at[p]) /\ DataAfter(p) = Data(p)
  BY <1>1 DEF Refills
<1>. QED  BY <1>2, <1>3, <1>4, MemoryMovesKeeps

\* Freeing cells that no owner has keeps everybody's bytes.
LEMMA FreedFacts ==
    ASSUME TypeOK, NEW S
    PROVE  /\ Stored(<<>>, <<>>, S) \in [Cells -> Values \cup {None}]
           /\ \A c \in Cells :
                Stored(<<>>, <<>>, S)[c] = IF c \in S THEN None ELSE mem[c]
<1>1. \A c \in Cells :
        Stored(<<>>, <<>>, S)[c] = IF c \in S THEN None ELSE mem[c]
  BY DEF Stored
<1>2. \A c \in Cells : mem[c] \in Values \cup {None}
  BY DEF TypeOK
<1>3. Stored(<<>>, <<>>, S) = [c \in Cells |-> Stored(<<>>, <<>>, S)[c]]
  BY DEF Stored
<1>. QED  BY <1>1, <1>2, <1>3

\* What the program's host array shares with an owner stays.
LEMMA DropArrayMemory ==
    ASSUME IInv, DropArray
    PROVE  /\ at' = at /\ spilled' = spilled /\ array' = <<>>
           /\ mem' \in [Cells -> Values \cup {None}]
           /\ \A o \in Owners : \A i \in DOMAIN at[o] :
                mem'[at[o][i]] = mem[at[o][i]]
           /\ \A o \in Owners : DataAfter(o) = Data(o)
<1>. DEFINE S == Elements(array) \ UNION {Elements(at[o]) : o \in Owners}
<1>1. /\ mem' = Stored(<<>>, <<>>, S) /\ at' = at /\ spilled' = spilled
      /\ array' = <<>> /\ TypeOK
  BY DEF DropArray, ownerVars, IInv
<1>2. \A o \in Owners : \A i \in DOMAIN at[o] :
        at[o][i] \in Cells /\ at[o][i] \notin S
  BY <1>1 DEF Elements, TypeOK
<1>. HIDE DEF S
<1>3. /\ mem' \in [Cells -> Values \cup {None}]
      /\ \A c \in Cells : mem'[c] = IF c \in S THEN None ELSE mem[c]
  BY <1>1, FreedFacts
<1>4. \A o \in Owners : \A i \in DOMAIN at[o] : mem'[at[o][i]] = mem[at[o][i]]
  BY <1>2, <1>3
<1>5. \A o \in Owners : DataAfter(o) = Data(o)
  BY <1>1, <1>4 DEF DataAfter, Data, Bytes
<1>. QED  BY <1>1, <1>3, <1>4, <1>5

\* The program drops its host array.
LEMMA DropArrayKeeps ==
    ASSUME IInv, DropArray
    PROVE  IInv'
<1>1. /\ at' = at /\ spilled' = spilled /\ array' = <<>>
      /\ mem' \in [Cells -> Values \cup {None}]
      /\ \A o \in Owners : \A i \in DOMAIN at[o] :
           mem'[at[o][i]] = mem[at[o][i]]
      /\ \A o \in Owners : DataAfter(o) = Data(o)
  BY DropArrayMemory
<1>2. at \in [Owners -> Seq(Cells)] /\ spilled \in [Owners -> BOOLEAN]
  BY DEF IInv, TypeOK
<1>3. array' \in Seq(Cells) /\ DOMAIN array' = {}
  BY <1>1
<1>4. MemoryInUse'
  BY <1>1, <1>3 DEF IInv, MemoryInUse
<1>5. DeviceMemoryUnshared'
  BY <1>1, <1>3 DEF IInv, DeviceMemoryUnshared, Elements
<1>6. /\ pc = "use" => ~spilled'[owner[self]]
      /\ UNCHANGED <<bufferVars, contextVars, slices, exposed, locks, third,
                     spilling, callVars>>
  BY <1>1 DEF IInv, PointerUsedInPlace, DropArray, ownerVars
<1>. QED  BY <1>1, <1>2, <1>3, <1>4, <1>5, <1>6, MemoryMovesKeeps

\* The copy of make_single_owner_inplace holds the content of the buffer.
LEMMA SingleCopyRefills ==
    ASSUME IInv, NEW o \in Owners, SingleCopy(o)
    PROVE  /\ self \in Live /\ owner[self] \in Owners /\ owner[self] # o
           /\ Refills(o, Content(self))
<1>1. self \in Live
  BY DEF IInv, PtrSteps, SingleCopy
<1>2. owner[self] \in Owners /\ owner[self] # o
  BY <1>1, LiveFacts DEF IInv, SingleCopy
<1>3. PICK b \in Live : b = self
  BY <1>1
<1>4. Refills(o, Content(b))
  BY <1>3, CopyMemory DEF IInv, SingleCopy
<1>. QED  BY <1>1, <1>2, <1>3, <1>4

\* make_single_owner_inplace has made the copy: it holds what the buffer holds.
LEMMA SingleCopyKeeps ==
    ASSUME IInv, NEW o \in Owners, SingleCopy(o)
    PROVE  IInv'
<1>1. /\ TypeOK /\ ContextStacks /\ SlicesKnown /\ ContextsPinOwners
      /\ pc = "copy" /\ pc' = "swap" /\ self' = self /\ fresh' = o
      /\ at[o] = <<>>
      /\ slices' = [slices EXCEPT ![owner[self]] = @ \ {self}]
      /\ modes' = modes /\ scopes' = scopes /\ locks' = locks
      /\ owner' = owner /\ offset' = offset /\ size' = size
      /\ exposed' = exposed /\ third' = third /\ array' = array
      /\ spilling' = spilling
  BY DEF IInv, SingleCopy, bufferVars, contextVars
<1>2. /\ self \in Live /\ owner[self] \in Owners /\ owner[self] # o
      /\ Refills(o, Content(self))
  BY SingleCopyRefills
<1>3. \A c \in Buffers : owner[c] # o
  BY <1>1, LiveFacts
<1>4. /\ at' \in [Owners -> Seq(Cells)] /\ spilled' \in [Owners -> BOOLEAN]
      /\ mem' \in [Cells -> Values \cup {None}] /\ array' \in Seq(Cells)
      /\ MemoryInUse' /\ DeviceMemoryUnshared' /\ DataAfter(o) = Content(self)
      /\ \A p \in Owners \ {o} : at'[p] = at[p] /\ DataAfter(p) = Data(p)
  BY <1>2 DEF Refills
<1>5. TypeOK'
  <2>1. \A c \in Buffers : owner[c] # None =>
            size[c] > 0 /\ offset[c] + size[c] <= Len(at'[owner[c]])
    BY <1>1, <1>3, <1>4 DEF TypeOK
  <2>2. slices' \in [Owners -> SUBSET Buffers]
    BY <1>1 DEF TypeOK
  <2>. QED  BY <1>1, <1>4, <2>1, <2>2 DEF TypeOK
<1>6. SlicesKnown'
  <2>1. SlicesPointwise  BY <1>1, SlicesFacts
  <2>2. \A p \in Owners, c \in Buffers :
          c \in slices'[p] <=> c \in slices[p] /\ ~(p = owner[self] /\ c = self)
    BY <1>1, <1>2 DEF TypeOK
  <2>3. SlicesPointwise'
    BY <1>1, <2>1, <2>2 DEF SlicesPointwise
  <2>. QED  BY <1>5, <2>3, SlicesFactsNext
<1>7. PtrSteps'
  <2>1. PICK b \in Live : b = self
    BY <1>2
  <2>2. Content(b)' = Content(b)
    BY <1>1, <1>2, <1>4, <1>5, <2>1, ContentKept
  <2>3. Content(self)' = Content(b)'
    BY <1>1, <2>1 DEF Content, Window, Bytes
  <2>4. Data(fresh)' = DataAfter(o)
    BY <1>1 DEF Data, Bytes, DataAfter
  <2>5. Data(fresh)' = Content(self)'
    BY <1>4, <2>1, <2>2, <2>3, <2>4
  <2>6. self' \in Live' /\ \A c \in Live' : owner'[c] # fresh'
    BY <1>1, <1>2, <1>3 DEF Live, Exists
  <2>. QED  BY <1>1, <2>5, <2>6 DEF PtrSteps
<1>8. ContextStacks' /\ ContextsPinOwners'
  BY <1>1 DEF ContextStacks, ContextsPinOwners, Live, Exists
<1>9. PointerUsedInPlace'
  BY <1>1 DEF PointerUsedInPlace
<1>. QED  BY <1>4, <1>5, <1>6, <1>7, <1>8, <1>9 DEF IInv

\* What SingleSwap starts from.
LEMMA SwapFacts ==
    ASSUME IInv, pc = "swap"
    PROVE  /\ self \in Live /\ self \in Buffers /\ fresh \in Owners
           /\ owner[self] \in Owners /\ owner[self] # fresh
           /\ \A b \in Buffers : owner[b] # fresh
           /\ size[self] \in Nat \ {0} /\ offset[self] \in Nat
           /\ Len(at[fresh]) = size[self]
           /\ Data(fresh) = Content(self)
<1>1. /\ self \in Live /\ fresh \in Owners /\ Data(fresh) = Content(self)
      /\ \A b \in Live : owner[b] # fresh
  BY DEF IInv, PtrSteps
<1>2. /\ self \in Buffers /\ owner[self] \in Owners /\ size[self] \in Nat \ {0}
      /\ offset[self] \in Nat
  BY <1>1, LiveFacts DEF IInv
<1>3. \A b \in Buffers : owner[b] # fresh
  BY <1>1, CopyOnWriteAssumption DEF Live, Exists
<1>4. /\ Data(fresh) \in [1..Len(at[fresh]) -> Values]
      /\ Content(self) \in [1..size[self] -> Values]
      /\ Len(at[fresh]) \in Nat
  <2>1. TypeOK /\ MemoryInUse /\ at[fresh] \in Seq(Cells)
    BY <1>1 DEF IInv, TypeOK
  <2>. QED  BY <1>1, <2>1, DataValues
<1>5. Len(at[fresh]) = size[self]
  <2>1. Len(Data(fresh)) = Len(at[fresh]) /\ Len(Content(self)) = size[self]
    BY <1>2, <1>4
  <2>. QED  BY <1>1, <2>1
<1>. QED  BY <1>1, <1>2, <1>3, <1>5

\* make_single_owner_inplace is done: the buffer is alone in its new owner,
\* which has the spill locks of the old one.
LEMMA SingleSwapKeeps ==
    ASSUME IInv, SingleSwap
    PROVE  IInv'
<1>1. /\ TypeOK /\ ContextStacks /\ SlicesKnown /\ ContextsPinOwners
      /\ pc = "swap" /\ pc' = "owner" /\ self' = self /\ fresh' = None
      /\ MakeBuffer(self, fresh, 0, size[self])
      /\ locks' = [locks EXCEPT ![fresh] = @ \cup locks[owner[self]]]
      /\ modes' = modes /\ scopes' = scopes
      /\ at' = at /\ spilled' = spilled /\ mem' = mem
      /\ exposed' = exposed /\ third' = third /\ array' = array
      /\ spilling' = spilling
  BY DEF IInv, SingleSwap, Transferred, contextVars, memoryVars
<1>2. /\ self \in Live /\ self \in Buffers /\ fresh \in Owners
      /\ owner[self] \in Owners /\ owner[self] # fresh
      /\ \A b \in Buffers : owner[b] # fresh
      /\ size[self] \in Nat \ {0} /\ Len(at[fresh]) = size[self]
  BY <1>1, SwapFacts
<1>3. None \notin Owners
  BY CopyOnWriteAssumption
<1>4. /\ owner' \in [Buffers -> Owners \cup {None}]
      /\ offset' \in [Buffers -> Nat] /\ size' \in [Buffers -> Nat]
      /\ slices' \in [Owners -> SUBSET Buffers]
      /\ owner'[self] = fresh /\ offset'[self] = 0 /\ size'[self] = size[self]
      /\ \A c \in Buffers \ {self} : /\ owner'[c] = owner[c]
                                     /\ offset'[c] = offset[c]
                                     /\ size'[c] = size[c]
      /\ \A p \in Owners, c \in Buffers :
           c \in slices'[p] <=> c \in slices[p] \/ (p = fresh /\ c = self)
  BY <1>1, <1>2 DEF MakeBuffer, TypeOK
<1>5. /\ locks' \in [Owners -> SUBSET Locks]
      /\ locks[owner[self]] \subseteq locks'[fresh]
      /\ \A p \in Owners : locks[p] \subseteq locks'[p]
  BY <1>1, <1>2 DEF TypeOK
<1>6. TypeOK'
  <2>1. ASSUME NEW c \in Buffers, owner'[c] # None
        PROVE  size'[c] > 0 /\ offset'[c] + size'[c] <= Len(at[owner'[c]])
    <3>1. CASE c = self
      BY <1>2, <1>4, <3>1
    <3>2. CASE c # self
      BY <1>1, <1>4, <2>1, <3>2 DEF TypeOK
    <3>. QED  BY <3>1, <3>2
  <2>. QED  BY <1>1, <1>4, <1>5, <2>1 DEF TypeOK
<1>7. SlicesKnown'
  <2>1. SlicesPointwise  BY <1>1, SlicesFacts
  <2>2. ASSUME NEW p \in Owners, NEW c \in Buffers
        PROVE  c \in slices'[p] <=> owner'[c] = p
    <3>1. c \in slices[p] <=> owner[c] = p /\ c # self
      BY <1>1, <2>1 DEF SlicesPointwise
    <3>2. CASE c = self
      BY <1>4, <3>1, <3>2
    <3>3. CASE c # self
      BY <1>4, <3>1, <3>3
    <3>. QED  BY <3>2, <3>3
  <2>3. SlicesPointwise'
    BY <1>1, <2>2 DEF SlicesPointwise
  <2>. QED  BY <1>6, <2>3, SlicesFactsNext
<1>8. ContextStacks'
  <2>1. \A c \in Buffers : owner'[c] = None => owner[c] = None
    BY <1>2, <1>3, <1>4
  <2>. QED  BY <1>1, <2>1 DEF ContextStacks, Exists
<1>9. ContextsPinOwners'
  <2>. SUFFICES ASSUME spilling, NEW c \in Buffers, owner'[c] # None,
                       NEW i \in DOMAIN scopes[c], scopes[c][i] = "internal"
                PROVE  <<c, i>> \in locks'[owner'[c]]
    BY <1>1 DEF ContextsPinOwners, Live, Exists
  <2>1. CASE c = self
    BY <1>1, <1>2, <1>4, <1>5, <2>1 DEF ContextsPinOwners
  <2>2. CASE c # self
    <3>1. c \in Live /\ owner'[c] = owner[c]
      BY <1>4, <2>2 DEF Live, Exists
    <3>2. owner[c] \in Owners
      BY <1>1, <3>1, LiveFacts
    <3>. QED  BY <1>1, <1>5, <3>1, <3>2 DEF ContextsPinOwners
  <2>. QED  BY <2>1, <2>2
<1>10. PtrSteps'
  <2>1. self' \in Live' /\ \A c \in Live' \ {self'} : owner'[c] # owner'[self']
    BY <1>1, <1>2, <1>3, <1>4 DEF Live, Exists
  <2>. QED  BY <1>1, <2>1 DEF PtrSteps
<1>11. PointerUsedInPlace'
  BY <1>1 DEF PointerUsedInPlace
<1>12. MemoryInUse' /\ DeviceMemoryUnshared'
  BY <1>1 DEF IInv, MemoryInUse, DeviceMemoryUnshared
<1>. QED
  BY <1>6, <1>7, <1>8, <1>9, <1>10, <1>11, <1>12 DEF IInv

\* The owner of the buffer is on the device, and exposed unless it is locked.
LEMMA OwnerPtrKeeps ==
    ASSUME IInv, OwnerPtr
    PROVE  IInv'
<1>. DEFINE o == owner[self]
<1>1. /\ TypeOK /\ ContextStacks /\ SlicesKnown /\ ContextsPinOwners /\ PtrSteps
      /\ MemoryInUse /\ DeviceMemoryUnshared
      /\ pc = "owner" /\ pc' = "use" /\ self' = self /\ fresh' = fresh
      /\ Unspill(o)
      /\ exposed' = [exposed EXCEPT ![o] = @ \/ (spilling /\ locks[o] = {})]
      /\ modes' = modes /\ scopes' = scopes /\ locks' = locks
      /\ owner' = owner /\ offset' = offset /\ size' = size /\ slices' = slices
      /\ third' = third /\ array' = array /\ spilling' = spilling
      /\ self \in Live
  BY DEF IInv, OwnerPtr, PtrSteps, bufferVars, contextVars
<1>2. /\ at' \in [Owners -> Seq(Cells)] /\ spilled' \in [Owners -> BOOLEAN]
      /\ mem' \in [Cells -> Values \cup {None}] /\ array' \in Seq(Cells)
      /\ MemoryInUse' /\ DeviceMemoryUnshared'
      /\ \A p \in Owners : Len(at'[p]) = Len(at[p])
      /\ spilled' = [spilled EXCEPT ![o] = FALSE]
  <2>1. PICK b \in Live : b = self  BY <1>1
  <2>. QED  BY <1>1, <2>1, UnspillLengths
<1>3. o \in Owners
  BY <1>1, LiveFacts
<1>4. TypeOK'
  <2>1. exposed' \in [Owners -> BOOLEAN]
    BY <1>1, <1>3 DEF TypeOK
  <2>2. \A c \in Buffers : owner[c] # None =>
            size[c] > 0 /\ offset[c] + size[c] <= Len(at'[owner[c]])
    BY <1>1, <1>2 DEF TypeOK
  <2>. QED  BY <1>1, <1>2, <2>1, <2>2 DEF TypeOK
<1>5. SlicesKnown' /\ ContextStacks' /\ ContextsPinOwners'
  BY <1>1 DEF SlicesKnown, ContextStacks, ContextsPinOwners, Live, Exists
<1>6. PointerUsedInPlace'
  <2>1. ~spilled'[o]
    BY <1>1, <1>2, <1>3 DEF TypeOK
  <2>2. ~(spilling /\ ~exposed'[o] /\ locks[o] = {})
    BY <1>1, <1>3 DEF TypeOK
  <2>. QED  BY <1>1, <2>1, <2>2 DEF PointerUsedInPlace, spillable
<1>7. PtrSteps'
  <2>1. Mode(self)' = Mode(self)
    BY <1>1 DEF Mode
  <2>. QED  BY <1>1, <2>1 DEF PtrSteps, Live, Exists
<1>. QED  BY <1>2, <1>4, <1>5, <1>6, <1>7 DEF IInv

\* The cells of a buffer.
LEMMA WindowFacts ==
    ASSUME TypeOK, NEW b \in Live
    PROVE  /\ Elements(Window(b)) \subseteq Cells
           /\ DOMAIN Window(b) = 1..size[b]
           /\ \A i \in 1..size[b] : /\ offset[b] + i \in DOMAIN at[owner[b]]
                                    /\ Window(b)[i] = at[owner[b]][offset[b] + i]
                                    /\ Window(b)[i] \in Cells
<1>1. /\ owner[b] \in Owners /\ at[owner[b]] \in Seq(Cells)
      /\ offset[b] \in Nat /\ size[b] \in Nat
      /\ offset[b] + size[b] <= Len(at[owner[b]])
  BY DEF TypeOK, Live, Exists
<1>2. Window(b) = [i \in 1..size[b] |-> at[owner[b]][offset[b] + i]]
  BY ContentFacts DEF ContentIsPart
<1>3. \A i \in 1..size[b] : /\ offset[b] + i \in DOMAIN at[owner[b]]
                            /\ at[owner[b]][offset[b] + i] \in Cells
  BY <1>1
<1>. QED  BY <1>2, <1>3 DEF Elements

\* Reading, or handing out the pointer, touches no memory.
LEMMA UseReadKeeps ==
    ASSUME IInv, UseRead
    PROVE  IInv'
<1>1. /\ TypeOK /\ ContextStacks /\ SlicesKnown /\ ContextsPinOwners
      /\ pc = "use" /\ pc' = "idle" /\ self' = None /\ fresh' = fresh
      /\ third' = [third EXCEPT ![self] = IF Scope(self) = "external"
                                      THEN Elements(Window(self)) ELSE @]
      /\ modes' = modes /\ scopes' = scopes /\ locks' = locks
      /\ owner' = owner /\ offset' = offset /\ size' = size
      /\ slices' = slices /\ at' = at /\ spilled' = spilled
      /\ exposed' = exposed /\ mem' = mem /\ array' = array
      /\ spilling' = spilling /\ self \in Live
  BY DEF IInv, PtrSteps, UseRead, bufferVars, contextVars, ownerVars
<1>2. third' \in [Buffers -> SUBSET Cells]
  BY <1>1, WindowFacts DEF TypeOK
<1>3. TypeOK'
  BY <1>1, <1>2 DEF TypeOK
<1>4. SlicesKnown' /\ ContextStacks' /\ ContextsPinOwners'
  BY <1>1 DEF SlicesKnown, ContextStacks, ContextsPinOwners, Live, Exists
<1>5. PointerUsedInPlace' /\ PtrSteps'
  BY <1>1 DEF PointerUsedInPlace, PtrSteps
<1>6. MemoryInUse' /\ DeviceMemoryUnshared'
  BY <1>1 DEF IInv, MemoryInUse, DeviceMemoryUnshared
<1>. QED  BY <1>3, <1>4, <1>5, <1>6 DEF IInv

\* The byte that is written belongs to the owner of the buffer alone.
LEMMA UseWriteMemory ==
    ASSUME IInv, NEW i \in Nat \ {0}, NEW v \in Values, UseWrite(i, v)
    PROVE  /\ self \in Live /\ i \in 1..size[self]
           /\ at[owner[self]][offset[self] + i] \in Cells
           /\ mem' = [mem EXCEPT ![at[owner[self]][offset[self] + i]] = v]
           /\ \A o \in Owners \ {owner[self]} : \A j \in DOMAIN at[o] :
                at[o][j] # at[owner[self]][offset[self] + i]
           /\ \A c \in Live \ {self} : owner[c] # owner[self]
<1>1. /\ TypeOK /\ pc = "use" /\ self \in Live /\ i <= size[self]
      /\ mem' = [mem EXCEPT ![Window(self)[i]] = v]
      /\ ~spilled[owner[self]] /\ DeviceMemoryUnshared
      /\ \A c \in Live \ {self} : owner[c] # owner[self]
  BY DEF IInv, PtrSteps, PointerUsedInPlace, UseWrite
<1>2. i \in 1..size[self] /\ owner[self] \in Owners
  BY <1>1, LiveFacts
<1>3. /\ offset[self] + i \in DOMAIN at[owner[self]]
      /\ Window(self)[i] = at[owner[self]][offset[self] + i]
      /\ Window(self)[i] \in Cells
  BY <1>1, <1>2, WindowFacts
<1>4. \A o \in Owners \ {owner[self]} : \A j \in DOMAIN at[o] :
        at[o][j] # at[owner[self]][offset[self] + i]
  BY <1>1, <1>2, <1>3, UnsharedCells
<1>. QED  BY <1>1, <1>2, <1>3, <1>4

\* Writing keeps memory in use and shared as it was.
LEMMA UseWriteKeeps ==
    ASSUME IInv, NEW i \in Nat \ {0}, NEW v \in Values, UseWrite(i, v)
    PROVE  IInv'
<1>1. /\ TypeOK /\ ContextStacks /\ SlicesKnown /\ ContextsPinOwners
      /\ pc = "use" /\ pc' = "idle" /\ self' = None /\ fresh' = fresh
      /\ modes' = modes /\ scopes' = scopes /\ locks' = locks
      /\ owner' = owner /\ offset' = offset /\ size' = size
      /\ slices' = slices /\ at' = at /\ spilled' = spilled
      /\ exposed' = exposed /\ array' = array /\ third' = third
      /\ spilling' = spilling
  BY DEF IInv, UseWrite, bufferVars, contextVars, ownerVars
<1>2. /\ at[owner[self]][offset[self] + i] \in Cells
      /\ mem' = [mem EXCEPT ![at[owner[self]][offset[self] + i]] = v]
  BY UseWriteMemory
<1>3. /\ mem' \in [Cells -> Values \cup {None}]
      /\ \A c \in Cells : mem[c] \in Values => mem'[c] \in Values
  BY <1>1, <1>2 DEF TypeOK
<1>4. TypeOK'
  BY <1>1, <1>3 DEF TypeOK
<1>5. MemoryInUse'
  <2>1. \A o \in Owners : \A j \in DOMAIN at[o] : at[o][j] \in Cells
    BY <1>1 DEF TypeOK
  <2>2. \A j \in DOMAIN array : array[j] \in Cells
    BY <1>1 DEF TypeOK
  <2>. QED  BY <1>1, <1>3, <2>1, <2>2 DEF IInv, MemoryInUse
<1>6. DeviceMemoryUnshared'
  BY <1>1 DEF IInv, DeviceMemoryUnshared
<1>7. SlicesKnown' /\ ContextStacks' /\ ContextsPinOwners'
  BY <1>1 DEF SlicesKnown, ContextStacks, ContextsPinOwners, Live, Exists
<1>8. PointerUsedInPlace' /\ PtrSteps'
  BY <1>1 DEF PointerUsedInPlace, PtrSteps
<1>. QED  BY <1>4, <1>5, <1>6, <1>7, <1>8 DEF IInv

\* An owner goes with its last buffer, and its memory only if nobody else has
\* it; the owners of the other buffers keep their bytes.
LEMMA DropMemory ==
    ASSUME IInv, NEW b \in Buffers, Drop(b)
    PROVE  /\ at' \in [Owners -> Seq(Cells)]
           /\ mem' \in [Cells -> Values \cup {None}]
           /\ MemoryInUse' /\ DeviceMemoryUnshared'
           /\ \A c \in Live \ {b} : /\ at'[owner[c]] = at[owner[c]]
                                    /\ DataAfter(owner[c]) = Data(owner[c])
                                    /\ locks'[owner[c]] = locks[owner[c]]
<1>. DEFINE o == owner[b]
            last == \A c \in Live \ {b} : owner[c] # o
<1>1. /\ TypeOK /\ MemoryInUse /\ DeviceMemoryUnshared /\ b \in Live
      /\ at' = [at EXCEPT ![o] = IF last THEN <<>> ELSE @]
      /\ spilled' = [spilled EXCEPT ![o] = ~last /\ @]
      /\ locks' = [locks EXCEPT ![o] = IF last THEN {} ELSE @]
      /\ mem' = IF last THEN Stored(<<>>, <<>>, OwnCells(o)) ELSE mem
      /\ array' = array
  BY DEF IInv, Drop, Live
<1>2. o \in Owners
  BY <1>1, LiveFacts
<1>3. CASE ~last
  <2>1. at' = at /\ spilled' = spilled /\ mem' = mem /\ locks' = locks
    BY <1>1, <1>2, <1>3 DEF TypeOK
  <2>2. MemoryInUse' /\ DeviceMemoryUnshared'
    BY <1>1, <2>1 DEF MemoryInUse, DeviceMemoryUnshared
  <2>. QED
    BY <1>1, <2>1, <2>2 DEF TypeOK, DataAfter, Data, Bytes
<1>4. CASE last
  <2>1. /\ at' \in [Owners -> Seq(Cells)] /\ at'[o] = <<>>
        /\ \A p \in Owners \ {o} : /\ at'[p] = at[p] /\ spilled'[p] = spilled[p]
                                   /\ locks'[p] = locks[p]
    <3>1. <<>> \in Seq(Cells)  OBVIOUS
    <3>. QED  BY <1>1, <1>2, <1>4, <3>1 DEF TypeOK
  <2>2. /\ mem' \in [Cells -> Values \cup {None}]
        /\ \A c \in Cells : mem'[c] = IF c \in OwnCells(o) THEN None ELSE mem[c]
    BY <1>1, <1>4, FreedFacts
  <2>3. \A p \in Owners \ {o} : \A i \in DOMAIN at[p] :
          at[p][i] \in Cells /\ at[p][i] \notin OwnCells(o)
    BY <1>1 DEF OwnCells, Elements, TypeOK
  <2>4. \A i \in DOMAIN array : array[i] \in Cells /\ array[i] \notin OwnCells(o)
    BY <1>1 DEF OwnCells, Elements, TypeOK
  <2>5. /\ \A p \in Owners \ {o} : \A i \in DOMAIN at[p] :
             mem'[at[p][i]] = mem[at[p][i]]
        /\ \A i \in DOMAIN array : mem'[array[i]] = mem[array[i]]
    BY <2>2, <2>3, <2>4
  <2>6. DOMAIN at'[o] = {}
    BY <2>1
  <2>7. MemoryInUse'
    <3>1. ASSUME NEW p \in Owners
          PROVE  /\ \A i \in DOMAIN at'[p] : mem'[at'[p][i]] \in Values
                 /\ \A i, j \in DOMAIN at'[p] : at'[p][i] = at'[p][j] => i = j
      <4>1. CASE p = o
        BY <2>6, <4>1
      <4>2. CASE p # o
        BY <1>1, <2>1, <2>5, <4>2 DEF MemoryInUse
      <4>. QED  BY <4>1, <4>2
    <3>2. \A i \in DOMAIN array' : mem'[array'[i]] \in Values
      BY <1>1, <2>5 DEF MemoryInUse
    <3>. QED  BY <3>1, <3>2 DEF MemoryInUse
  <2>8. DeviceMemoryUnshared'
    <3>. SUFFICES ASSUME NEW p \in Owners, NEW r \in Owners, p # r,
                         ~spilled'[p], NEW i \in DOMAIN at'[p]
                  PROVE  /\ \A j \in DOMAIN at'[r] : at'[p][i] # at'[r][j]
                         /\ \A j \in DOMAIN array' : at'[p][i] # array'[j]
      BY DEF DeviceMemoryUnshared, Elements
    <3>1. p # o /\ at'[p] = at[p] /\ ~spilled[p]
      BY <2>1, <2>6
    <3>2. \A t \in Owners \ {p} :
            /\ \A j \in DOMAIN at[t] : at[p][i] # at[t][j]
            /\ \A j \in DOMAIN array : at[p][i] # array[j]
      BY <1>1, <3>1, UnsharedCells
    <3>3. CASE r = o
      BY <1>1, <2>6, <3>1, <3>2, <3>3
    <3>4. CASE r # o
      BY <1>1, <2>1, <3>1, <3>2, <3>4
    <3>. QED  BY <3>3, <3>4
  <2>9. \A c \in Live \ {b} : owner[c] \in Owners \ {o}
    BY <1>1, <1>4, LiveFacts
  <2>10. \A p \in Owners \ {o} : DataAfter(p) = Data(p)
    BY <2>1, <2>5 DEF DataAfter, Data, Bytes
  <2>. QED  BY <2>1, <2>2, <2>7, <2>8, <2>9, <2>10
<1>. QED  BY <1>3, <1>4

\* A buffer goes, and with the last one its owner.
LEMMA DropKeeps ==
    ASSUME IInv, NEW b \in Buffers, Drop(b)
    PROVE  IInv'
<1>1. /\ TypeOK /\ ContextStacks /\ SlicesKnown /\ ContextsPinOwners
      /\ pc = "idle" /\ pc' = "idle" /\ self' = self /\ fresh' = fresh
      /\ b \in Live /\ scopes[b] = <<>>
      /\ modes' = [modes EXCEPT ![b] = <<>>]
      /\ owner' = [owner EXCEPT ![b] = None]
      /\ offset' = [offset EXCEPT ![b] = 0] /\ size' = [size EXCEPT ![b] = 0]
      /\ slices' = [slices EXCEPT ![owner[b]] = @ \ {b}]
      /\ scopes' = scopes /\ array' = array /\ third' = third
      /\ spilling' = spilling
  BY DEF IInv, Drop, Idle, Live, callVars
<1>2. /\ at' \in [Owners -> Seq(Cells)]
      /\ mem' \in [Cells -> Values \cup {None}]
      /\ MemoryInUse' /\ DeviceMemoryUnshared'
      /\ \A c \in Live \ {b} : /\ at'[owner[c]] = at[owner[c]]
                               /\ locks'[owner[c]] = locks[owner[c]]
  BY DropMemory
<1>3. owner[b] \in Owners /\ None \notin Owners
  BY <1>1, LiveFacts, CopyOnWriteAssumption
<1>4. /\ owner' \in [Buffers -> Owners \cup {None}]
      /\ offset' \in [Buffers -> Nat] /\ size' \in [Buffers -> Nat]
      /\ slices' \in [Owners -> SUBSET Buffers]
      /\ modes' \in [Buffers -> Seq(Modes)]
      /\ owner'[b] = None
      /\ \A c \in Buffers \ {b} : /\ owner'[c] = owner[c] /\ size'[c] = size[c]
                                  /\ offset'[c] = offset[c]
                                  /\ modes'[c] = modes[c]
      /\ modes'[b] = <<>>
      /\ \A p \in Owners, c \in Buffers :
           c \in slices'[p] <=> c \in slices[p] /\ ~(p = owner[b] /\ c = b)
  <2>1. <<>> \in Seq(Modes)  OBVIOUS
  <2>. QED  BY <1>1, <1>3, <2>1 DEF TypeOK
<1>5. /\ spilled' \in [Owners -> BOOLEAN] /\ exposed' \in [Owners -> BOOLEAN]
      /\ locks' \in [Owners -> SUBSET Locks]
  BY <1>1, <1>3 DEF Drop, TypeOK
<1>6. TypeOK'
  <2>1. ASSUME NEW c \in Buffers, owner'[c] # None
        PROVE  size'[c] > 0 /\ offset'[c] + size'[c] <= Len(at'[owner'[c]])
    <3>1. c \in Live \ {b} /\ c \in Buffers \ {b}
      BY <1>4, <2>1 DEF Live, Exists
    <3>2. /\ owner'[c] = owner[c] /\ size'[c] = size[c]
          /\ offset'[c] = offset[c] /\ at'[owner[c]] = at[owner[c]]
      BY <1>2, <1>4, <3>1
    <3>3. size[c] > 0 /\ offset[c] + size[c] <= Len(at[owner[c]])
      BY <1>1, <3>1, LiveFacts
    <3>. QED  BY <3>2, <3>3
  <2>. QED  BY <1>1, <1>2, <1>4, <1>5, <2>1 DEF TypeOK
<1>7. SlicesKnown'
  <2>1. SlicesPointwise  BY <1>1, SlicesFacts
  <2>2. ASSUME NEW p \in Owners, NEW c \in Buffers
        PROVE  c \in slices'[p] <=> owner'[c] = p
    <3>1. c \in slices[p] <=> owner[c] = p
      BY <1>1, <2>1 DEF SlicesPointwise
    <3>2. CASE c = b
      BY <1>3, <1>4, <3>1, <3>2
    <3>3. CASE c # b
      BY <1>4, <3>1, <3>3
    <3>. QED  BY <3>2, <3>3
  <2>3. SlicesPointwise'
    BY <1>1, <2>2 DEF SlicesPointwise
  <2>. QED  BY <1>6, <2>3, SlicesFactsNext
<1>8. ContextStacks'
  <2>. SUFFICES ASSUME NEW c \in Buffers
                PROVE  /\ Len(modes'[c]) = Len(scopes[c])
                       /\ Len(scopes[c]) <= MaxDepth
                       /\ owner'[c] = None => scopes[c] = <<>>
    BY <1>1 DEF ContextStacks, Exists
  <2>1. CASE c = b
    BY <1>1, <1>4, <2>1 DEF ContextStacks
  <2>2. CASE c # b
    BY <1>1, <1>4, <2>2 DEF ContextStacks, Exists
  <2>. QED  BY <2>1, <2>2
<1>9. ContextsPinOwners'
  <2>. SUFFICES ASSUME spilling, NEW c \in Buffers, owner'[c] # None,
                       NEW i \in DOMAIN scopes[c], scopes[c][i] = "internal"
                PROVE  <<c, i>> \in locks'[owner'[c]]
    BY <1>1 DEF ContextsPinOwners, Live, Exists
  <2>1. c \in Live \ {b} /\ c \in Buffers \ {b}
    BY <1>4 DEF Live, Exists
  <2>2. owner'[c] = owner[c] /\ locks'[owner[c]] = locks[owner[c]]
    BY <1>2, <1>4, <2>1
  <2>3. <<c, i>> \in locks[owner[c]]
    BY <1>1, <2>1 DEF ContextsPinOwners
  <2>. QED  BY <2>2, <2>3
<1>10. PointerUsedInPlace' /\ PtrSteps'
  BY <1>1 DEF PointerUsedInPlace, PtrSteps
<1>. QED  BY <1>2, <1>6, <1>7, <1>8, <1>9, <1>10 DEF IInv

-----------------------------------------------------------------------------
(* The invariant holds *)

\* The invariant holds initially.
LEMMA InitIInv == Init => IInv
<1>. SUFFICES ASSUME Init PROVE IInv
  OBVIOUS
<1>1. <<>> \in Seq(Modes) /\ <<>> \in Seq(Scopes) /\ <<>> \in Seq(Cells)
  OBVIOUS
<1>2. TypeOK
  BY <1>1, CopyOnWriteAssumption DEF Init, TypeOK
<1>3. MemoryInUse /\ DeviceMemoryUnshared
  BY DEF Init, MemoryInUse, DeviceMemoryUnshared, Elements
<1>4. ContextStacks /\ SlicesKnown /\ ContextsPinOwners
  BY CopyOnWriteAssumption
     DEF Init, ContextStacks, SlicesKnown, ContextsPinOwners, Live, Exists
<1>5. PointerUsedInPlace /\ PtrSteps
  BY DEF Init, PointerUsedInPlace, PtrSteps
<1>. QED  BY <1>2, <1>3, <1>4, <1>5 DEF IInv

\* What does not change anything keeps the invariant.
LEMMA StutterKeeps == IInv /\ UNCHANGED vars => IInv'
<1>. SUFFICES ASSUME IInv, UNCHANGED vars PROVE IInv'
  OBVIOUS
<1>1. /\ UNCHANGED <<bufferVars, contextVars, slices, exposed, locks, third,
                     spilling, callVars>>
      /\ at' = at /\ spilled' = spilled /\ mem' = mem /\ array' = array
      /\ owner' = owner /\ self' = self /\ pc' = pc
  BY DEF vars, ownerVars, memoryVars, callVars, bufferVars
<1>2. MemoryInUse' /\ DeviceMemoryUnshared'
  BY <1>1 DEF IInv, MemoryInUse, DeviceMemoryUnshared
<1>3. \A o \in Owners : DataAfter(o) = Data(o)
  BY <1>1 DEF DataAfter, Data, Bytes
<1>4. pc = "use" => ~spilled'[owner[self]]
  BY <1>1 DEF IInv, PointerUsedInPlace
<1>5. /\ at' \in [Owners -> Seq(Cells)] /\ spilled' \in [Owners -> BOOLEAN]
      /\ mem' \in [Cells -> Values \cup {None}] /\ array' \in Seq(Cells)
  BY <1>1 DEF IInv, TypeOK
<1>. QED  BY <1>1, <1>2, <1>3, <1>4, <1>5, MemoryMovesKeeps

\* Slices and shallow copies are new buffers in an old owner.
LEMMA SliceOrShallowCopyKeeps ==
    ASSUME IInv, NEW b \in Buffers, NEW c \in Buffers,
           \/ ShallowCopy(b, c)
           \/ \E lo \in 0..MaxSize, n \in 1..MaxSize : Slice(b, c, lo, n)
    PROVE  IInv'
<1>1. CASE ShallowCopy(b, c)
  <2>1. /\ Idle /\ b \in Live /\ ~Exists(c)
        /\ MakeBuffer(c, owner[b], offset[b], size[b])
        /\ UNCHANGED <<contextVars, at, spilled, exposed, locks, memoryVars,
                       callVars>>
    BY <1>1 DEF ShallowCopy, Live
  <2>2. size[b] \in Nat \ {0} /\ offset[b] \in Nat
    BY <2>1, LiveFacts DEF IInv
  <2>3. offset[b] + 0 = offset[b] /\ 0 + size[b] <= size[b] /\ 0 \in Nat
    BY <2>2
  <2>4. MakeBuffer(c, owner[b], offset[b] + 0, size[b])
    BY <2>1, <2>3
  <2>5. \A lo \in Nat, n \in Nat \ {0} : lo = 0 /\ n = size[b] => IInv'
    BY <2>1, <2>3, <2>4, SliceKeeps
  <2>. QED  BY <2>2, <2>3, <2>5
<1>2. ASSUME NEW lo \in 0..MaxSize, NEW n \in 1..MaxSize, Slice(b, c, lo, n)
      PROVE  IInv'
  <2>1. /\ Idle /\ b \in Live /\ ~Exists(c) /\ lo + n <= size[b]
        /\ MakeBuffer(c, owner[b], offset[b] + lo, n)
        /\ UNCHANGED <<contextVars, at, spilled, exposed, locks, memoryVars,
                       callVars>>
    BY <1>2 DEF Slice, Live
  <2>2. lo \in Nat /\ n \in Nat \ {0}
    OBVIOUS
  <2>. QED  BY <2>1, <2>2, SliceKeeps
<1>. QED  BY <1>1, <1>2

\* Every step keeps the invariant.
LEMMA NextIInv == IInv /\ [Next]_vars => IInv'
<1>. SUFFICES ASSUME IInv, [Next]_vars PROVE IInv'
  OBVIOUS
<1>1. CASE \E b \in Buffers, o \in Owners, x \in Inputs :
             New(b, o, x) \/ NewFromHost(b, o, x)
  BY <1>1, NewKeeps
<1>2. CASE \E b, c \in Buffers :
             \/ ShallowCopy(b, c)
             \/ \E o \in Owners : DeepCopy(b, c, o)
             \/ \E lo \in 0..MaxSize, n \in 1..MaxSize : Slice(b, c, lo, n)
  BY <1>2, SliceOrShallowCopyKeeps, DeepCopyKeeps
<1>3. CASE \E b \in Buffers :
             \/ Drop(b) \/ ReadPtr(b) \/ Exit(b)
             \/ \E mode \in Modes :
                  EnterInternal(b, mode) \/ EnterExternal(b, mode)
  BY <1>3, DropKeeps, ReadPtrKeeps, ExitKeeps, EnterInternalKeeps,
     EnterExternalKeeps
<1>4. CASE \E o \in Owners : SingleCopy(o) \/ Spill(o)
  BY <1>4, SingleCopyKeeps, SpillKeeps
<1>5. CASE \E i \in 1..MaxSize, v \in Values : UseWrite(i, v)
  BY <1>5, UseWriteKeeps
<1>6. CASE SingleSwap \/ OwnerPtr \/ UseRead \/ DropArray
  BY <1>6, SingleSwapKeeps, OwnerPtrKeeps, UseReadKeeps, DropArrayKeeps
<1>7. CASE UNCHANGED vars
  BY <1>7, StutterKeeps
<1>. QED  BY <1>1, <1>2, <1>3, <1>4, <1>5, <1>6, <1>7 DEF Next

\* The invariant holds always.
LEMMA SpecIInv == Spec => []IInv
BY InitIInv, NextIInv, PTL DEF Spec

\* The fields of Buffer and BufferOwner have their types, and every buffer is a
\* slice within the memory of its owner.
THEOREM TypesPreserved == Spec => []TypeOK
<1>1. IInv => TypeOK  BY DEF IInv
<1>. QED  BY <1>1, SpecIInv, PTL

\* The owners know their slices: the count that make_single_owner_inplace goes
\* by is right.
THEOREM OwnersKnowSlices == Spec => []SlicesKnown
<1>1. IInv => SlicesKnown  BY DEF IInv
<1>. QED  BY <1>1, SpecIInv, PTL

\* The locks of open internal contexts pin the owner that the buffer has now.
THEOREM OwnersPinned == Spec => []ContextsPinOwners
<1>1. IInv => ContextsPinOwners  BY DEF IInv
<1>. QED  BY <1>1, SpecIInv, PTL

\* A writable pointer is used only by the sole slice of its owner.
THEOREM WriterIsAlone == Spec => []SoleWriter
<1>1. IInv => SoleWriter  BY DEF IInv, PtrSteps, SoleWriter
<1>. QED  BY <1>1, SpecIInv, PTL

\* Memory is neither spilled nor spillable between reading its pointer and
\* using it.
THEOREM UsedInPlace == Spec => []PointerUsedInPlace
<1>1. IInv => PointerUsedInPlace  BY DEF IInv
<1>. QED  BY <1>1, SpecIInv, PTL

\* Two owners share only host memory.
THEOREM DeviceMemoryApart == Spec => []DeviceMemoryUnshared
<1>1. IInv => DeviceMemoryUnshared  BY DEF IInv
<1>. QED  BY <1>1, SpecIInv, PTL

-----------------------------------------------------------------------------
(* Exposure *)

\* What a step may do to the exposure of the owners.
ExposureStep ==
    \A o \in Owners : ~exposed[o] /\ exposed'[o]
        => \/ \E b \in Live : /\ owner[b] = o
                              /\ scopes'[b] = Append(scopes[b], "external")
           \/ Scope(self) = "external"
           \/ scopes[self] = <<>>

\* An internal context around the read holds a lock on the owner, so the read
\* does not expose it.
LEMMA OwnerPtrExposure ==
    ASSUME IInv, OwnerPtr
    PROVE  ExposureStep
<1>. SUFFICES ASSUME NEW o \in Owners, ~exposed[o], exposed'[o],
                     scopes[self] # <<>>
              PROVE  Scope(self) = "external"
  BY DEF ExposureStep
<1>1. /\ TypeOK /\ self \in Live /\ ContextsPinOwners
      /\ exposed' = [exposed EXCEPT ![owner[self]] =
                      @ \/ (spilling /\ locks[owner[self]] = {})]
  BY DEF IInv, PtrSteps, OwnerPtr
<1>2. owner[self] \in Owners /\ self \in Buffers
  BY <1>1, LiveFacts
<1>3. o = owner[self] /\ spilling /\ locks[o] = {}
  <2>1. exposed \in [Owners -> BOOLEAN] /\ spilling \in BOOLEAN
    BY <1>1 DEF TypeOK
  <2>. QED  BY <1>1, <1>2, <2>1
<1>4. scopes[self] \in Seq(Scopes)
  BY <1>1, <1>2 DEF TypeOK
<1>5. /\ Len(scopes[self]) \in DOMAIN scopes[self]
      /\ scopes[self][Len(scopes[self])] \in Scopes
  BY <1>4
<1>6. scopes[self][Len(scopes[self])] # "internal"
  BY <1>1, <1>3, <1>5 DEF ContextsPinOwners
<1>. QED  BY <1>5, <1>6 DEF Scope, Scopes

\* No step exposes an owner but those that InternalUseNeverExposes allows.
LEMMA NextExposure == IInv /\ [Next]_vars => [ExposureStep]_vars
<1>. SUFFICES ASSUME IInv, Next PROVE ExposureStep
  OBVIOUS
<1>0. TypeOK /\ exposed \in [Owners -> BOOLEAN]
  BY DEF IInv, TypeOK
<1>. USE DEF ExposureStep
<1>1. CASE \E b \in Buffers, o \in Owners, x \in Inputs :
             New(b, o, x) \/ NewFromHost(b, o, x)
  BY <1>1 DEF New, NewFromHost
<1>2. CASE \E b, c \in Buffers :
             \/ ShallowCopy(b, c)
             \/ \E o \in Owners : DeepCopy(b, c, o)
             \/ \E lo \in 0..MaxSize, n \in 1..MaxSize : Slice(b, c, lo, n)
  BY <1>2 DEF ShallowCopy, DeepCopy, Slice
<1>3. ASSUME NEW b \in Buffers, Drop(b) PROVE ExposureStep
  BY <1>0, <1>3 DEF Drop
<1>4. ASSUME NEW b \in Buffers, ReadPtr(b) \/ Exit(b) PROVE ExposureStep
  BY <1>4 DEF ReadPtr, Exit, ownerVars
<1>5. ASSUME NEW b \in Buffers, NEW mode \in Modes, EnterInternal(b, mode)
      PROVE  ExposureStep
  BY <1>5 DEF EnterInternal
<1>6. ASSUME NEW b \in Buffers, NEW mode \in Modes, EnterExternal(b, mode)
      PROVE  ExposureStep
  <2>1. /\ b \in Live /\ exposed' = [exposed EXCEPT ![owner[b]] = spilling]
        /\ scopes' = [scopes EXCEPT ![b] = Append(@, "external")]
    BY <1>6 DEF EnterExternal, Live
  <2>2. scopes'[b] = Append(scopes[b], "external")
    BY <1>0, <2>1 DEF TypeOK
  <2>3. \A o \in Owners : o # owner[b] => exposed'[o] = exposed[o]
    BY <1>0, <2>1
  <2>. QED  BY <2>1, <2>2, <2>3
<1>7. CASE \E o \in Owners : SingleCopy(o) \/ Spill(o)
  BY <1>7 DEF SingleCopy, Spill
<1>8. CASE \E i \in 1..MaxSize, v \in Values : UseWrite(i, v)
  BY <1>8 DEF UseWrite, ownerVars
<1>9. CASE SingleSwap \/ UseRead \/ DropArray
  BY <1>9 DEF SingleSwap, UseRead, DropArray, ownerVars
<1>10. CASE OwnerPtr
  BY <1>10, OwnerPtrExposure
<1>. QED
  BY <1>1, <1>2, <1>3, <1>4, <1>5, <1>6, <1>7, <1>8, <1>9, <1>10 DEF Next

\* An owner becomes exposed only by an external context or by reading ptr
\* outside of all contexts.
THEOREM InternalUseStaysSpillable == Spec => InternalUseNeverExposes
BY SpecIInv, NextExposure, PTL DEF Spec, InternalUseNeverExposes, ExposureStep

-----------------------------------------------------------------------------
(* CopyOnWrite implements ValueBuffers *)

\* The value of a buffer that exists, after the step.
LEMMA ContentAfter ==
    ASSUME TypeOK', NEW b \in Buffers, owner'[b] # None
    PROVE  /\ Content(b)' =
                [i \in 1..size'[b] |-> DataAfter(owner'[b])[offset'[b] + i]]
           /\ Value(b)' = Content(b)'
<1>1. b \in Live'
  BY DEF Live, Exists
<1>. QED
  BY <1>1, ContentFactsNext
     DEF ContentIsPart, Data, Bytes, DataAfter, Value, Exists

\* Who stays where he is, over bytes that stay, keeps his value.
LEMMA ValueKept ==
    ASSUME TypeOK, TypeOK', NEW b \in Buffers,
           owner'[b] = owner[b], offset'[b] = offset[b], size'[b] = size[b],
           b \in Live => DataAfter(owner[b]) = Data(owner[b])
    PROVE  Value(b)' = Value(b)
<1>1. CASE b \in Live
  <2>1. Content(b)' = Content(b)
    BY <1>1, ContentKept
  <2>. QED  BY <1>1, <2>1 DEF Value, Live, Exists
<1>2. CASE b \notin Live
  BY <1>2 DEF Value, Live, Exists
<1>. QED  BY <1>1, <1>2

\* The values of all the buffers.
Val == [b \in Buffers |-> Value(b)]

\* A step that changes the value of b to x and no other.
LEMMA OneValueChanges ==
    ASSUME NEW b \in Buffers, NEW x, Value(b)' = x,
           \A c \in Buffers \ {b} : Value(c)' = Value(c)
    PROVE  Val' = [Val EXCEPT ![b] = x]
BY DEF Val

\* No buffer exists initially, so none has a value.
LEMMA InitAbstract == Init => Abstract!Init
BY DEF Init, Abstract!Init, Value, Exists

\* A new buffer in a new owner takes the owner's bytes as its value.
LEMMA NewOwnerValue ==
    ASSUME IInv, IInv', NEW b \in Buffers, ~Exists(b),
           NEW o \in Owners, at[o] = <<>>,
           NEW n \in Nat \ {0}, NEW x, x = [i \in 1..n |-> x[i]], Refills(o, x),
           MakeBuffer(b, o, 0, n)
    PROVE  Val' = [Val EXCEPT ![b] = x]
<1>1. /\ TypeOK /\ TypeOK' /\ None \notin Owners
      /\ DataAfter(o) = x
      /\ \A p \in Owners \ {o} : DataAfter(p) = Data(p)
  BY CopyOnWriteAssumption DEF IInv, Refills
<1>2. /\ owner'[b] = o /\ offset'[b] = 0 /\ size'[b] = n
      /\ \A c \in Buffers \ {b} : /\ owner'[c] = owner[c]
                                  /\ offset'[c] = offset[c]
                                  /\ size'[c] = size[c]
  <2>1. 0 \in Nat /\ n \in Nat  OBVIOUS
  <2>. QED  BY <1>1, <2>1, MakeBufferFacts
<1>3. Value(b)' = x
  <2>1. Value(b)' = [i \in 1..n |-> x[0 + i]]
    BY <1>1, <1>2, ContentAfter
  <2>. QED  BY <2>1
<1>4. ASSUME NEW c \in Buffers \ {b} PROVE Value(c)' = Value(c)
  <2>1. c \in Live => DataAfter(owner[c]) = Data(owner[c])
    BY <1>1, LiveFacts
  <2>. QED  BY <1>1, <1>2, <2>1, ValueKept
<1>. QED  BY <1>3, <1>4, OneValueChanges

\* as_buffer makes the value it is given.
LEMMA NewMakes ==
    ASSUME IInv, IInv', NEW b \in Buffers, NEW o \in Owners, NEW x \in Inputs,
           New(b, o, x) \/ NewFromHost(b, o, x)
    PROVE  Abstract!Make(b)
<1>1. /\ Refills(o, x) /\ ~Exists(b) /\ at[o] = <<>>
      /\ MakeBuffer(b, o, 0, MaxSize)
  BY NewRefills
<1>2. /\ MaxSize \in Nat \ {0} /\ x \in [1..MaxSize -> Values]
      /\ x = [i \in 1..MaxSize |-> x[i]]
  BY CopyOnWriteAssumption DEF Inputs
<1>3. Val' = [Val EXCEPT ![b] = x]
  BY <1>1, <1>2, NewOwnerValue
<1>4. x \in Abstract!Bytes
  BY <1>2 DEF Abstract!Bytes
<1>5. Val[b] = <<>>
  BY <1>1 DEF Val, Value
<1>. QED  BY <1>3, <1>4, <1>5 DEF Abstract!Make, Val

\* The whole of a sequence is a subsequence.
LEMMA WholeSubSeq ==
    ASSUME NEW n \in Nat, NEW x, x = [i \in 1..n |-> x[i]]
    PROVE  SubSeq(x, 1, n) = x
<1>1. SubSeq(x, 1, n) = [i \in 1..n |-> x[i]]
  <2>1. x \in Seq({x[i] : i \in 1..n}) /\ Len(x) = n
    OBVIOUS
  <2>. QED  BY <2>1
<1>. QED  BY <1>1

\* A deep copy copies the whole value.
LEMMA DeepCopyCopies ==
    ASSUME IInv, IInv', NEW b \in Buffers, NEW c \in Buffers, NEW o \in Owners,
           DeepCopy(b, c, o)
    PROVE  Abstract!Copy(b, c)
<1>1. /\ Refills(o, Content(b)) /\ Len(Content(b)) = size[b] /\ b \in Live
      /\ size[b] \in Nat \ {0}
  BY DeepCopyRefills
<1>2. ~Exists(c) /\ at[o] = <<>> /\ MakeBuffer(c, o, 0, size[b])
  BY DEF DeepCopy
<1>3. Content(b) = [i \in 1..size[b] |-> Content(b)[i]]
  BY <1>1, DataValues DEF IInv
<1>4. \A n \in Nat \ {0} : \A x : n = size[b] /\ x = Content(b)
        => Val' = [Val EXCEPT ![c] = x]
  BY <1>1, <1>2, <1>3, NewOwnerValue
<1>5. Val' = [Val EXCEPT ![c] = Content(b)]
  BY <1>1, <1>4
<1>6. Val[b] = Content(b) /\ Val[c] = <<>>
  BY <1>1, <1>2 DEF Val, Value, Live
<1>7. SubSeq(Val[b], 1, size[b]) = Content(b)
  <2>1. \A n \in Nat : \A x : n = size[b] /\ x = Content(b) => SubSeq(x, 1, n) = x
    BY <1>3, WholeSubSeq
  <2>. QED  BY <1>1, <1>6, <2>1
<1>8. 1 \in 1..Len(Val[b]) /\ size[b] \in 1..Len(Val[b]) /\ 1 <= size[b]
  BY <1>1, <1>6
<1>. QED  BY <1>5, <1>6, <1>7, <1>8 DEF Abstract!Copy, Val

\* The value of a new slice is the part of the value it slices.
LEMMA SliceCopies ==
    ASSUME IInv, IInv', NEW b \in Live, NEW c \in Buffers, ~Exists(c),
           NEW lo \in Nat, NEW n \in Nat \ {0}, lo + n <= size[b],
           MakeBuffer(c, owner[b], offset[b] + lo, n),
           at' = at, mem' = mem
    PROVE  Abstract!Copy(b, c)
<1>1. TypeOK /\ TypeOK' /\ None \notin Owners /\ MemoryInUse
  BY CopyOnWriteAssumption DEF IInv
<1>2. /\ owner[b] \in Owners /\ size[b] \in Nat /\ offset[b] \in Nat
      /\ offset[b] + lo \in Nat /\ b \in Buffers
  BY <1>1, LiveFacts
<1>3. /\ owner'[c] = owner[b] /\ offset'[c] = offset[b] + lo /\ size'[c] = n
      /\ \A d \in Buffers \ {c} : /\ owner'[d] = owner[d]
                                  /\ offset'[d] = offset[d]
                                  /\ size'[d] = size[d]
  BY <1>1, <1>2 DEF MakeBuffer, TypeOK
<1>4. \A p \in Owners : DataAfter(p) = Data(p)
  BY DEF DataAfter, Data, Bytes
<1>5. ASSUME NEW d \in Buffers \ {c} PROVE Value(d)' = Value(d)
  <2>1. d \in Live => DataAfter(owner[d]) = Data(owner[d])
    BY <1>1, <1>4, LiveFacts
  <2>. QED  BY <1>1, <1>3, <2>1, ValueKept
<1>6. Content(b) = [i \in 1..size[b] |-> Data(owner[b])[offset[b] + i]]
  BY <1>1, ContentFacts DEF ContentIsPart
<1>7. Value(c)' = [i \in 1..n |-> Data(owner[b])[(offset[b] + lo) + i]]
  <2>1. owner'[c] # None
    BY <1>1, <1>2, <1>3
  <2>2. Value(c)' =
          [i \in 1..size'[c] |-> DataAfter(owner'[c])[offset'[c] + i]]
    BY <1>1, <2>1, ContentAfter
  <2>3. DataAfter(owner[b]) = Data(owner[b])
    BY <1>2, <1>4
  <2>. QED  BY <1>3, <2>2, <2>3
<1>8. SubSeq(Content(b), lo + 1, lo + n) = [i \in 1..n |-> Content(b)[lo + i]]
  <2>1. Content(b) \in Seq(Values) /\ Len(Content(b)) = size[b]
    <3>1. Content(b) \in [1..size[b] -> Values]
      BY <1>1, DataValues
    <3>. QED  BY <1>2, <3>1
  <2>2. \A q \in Seq(Values) :
          lo + n <= Len(q)
            => SubSeq(q, lo + 1, lo + n) = [i \in 1..n |-> q[lo + i]]
    BY PartOfSequence
  <2>3. lo + n <= Len(Content(b))
    BY <2>1
  <2>. QED  BY <2>1, <2>2, <2>3, Zenon
<1>9. \A i \in 1..n : Content(b)[lo + i] = Data(owner[b])[(offset[b] + lo) + i]
  <2>1. \A i \in 1..n : /\ lo + i \in 1..size[b]
                        /\ offset[b] + (lo + i) = (offset[b] + lo) + i
    BY <1>2
  <2>. QED  BY <1>6, <2>1
<1>10. Value(c)' = SubSeq(Content(b), lo + 1, lo + n)
  BY <1>7, <1>8, <1>9
<1>11. Val' = [Val EXCEPT ![c] = SubSeq(Content(b), lo + 1, lo + n)]
  BY <1>5, <1>10 DEF Val
<1>12. Val[b] = Content(b) /\ Val[c] = <<>> /\ Len(Val[b]) = size[b]
  BY <1>2, <1>6 DEF Val, Value, Live
<1>13. /\ lo + 1 \in 1..Len(Val[b]) /\ lo + n \in 1..Len(Val[b])
       /\ lo + 1 <= lo + n
  BY <1>2, <1>12
<1>. QED  BY <1>11, <1>12, <1>13 DEF Abstract!Copy, Val

\* Dropping a buffer, with its owner or not, takes away its value alone.
LEMMA DropDrops ==
    ASSUME IInv, IInv', NEW b \in Buffers, Drop(b)
    PROVE  Abstract!Drop(b)
<1>1. /\ TypeOK /\ TypeOK' /\ b \in Live
      /\ owner' = [owner EXCEPT ![b] = None]
      /\ offset' = [offset EXCEPT ![b] = 0] /\ size' = [size EXCEPT ![b] = 0]
  BY DEF IInv, Drop, Live
<1>2. \A c \in Live \ {b} : DataAfter(owner[c]) = Data(owner[c])
  BY DropMemory
<1>3. /\ owner'[b] = None
      /\ \A c \in Buffers \ {b} : /\ owner'[c] = owner[c] /\ size'[c] = size[c]
                                  /\ offset'[c] = offset[c]
  BY <1>1 DEF TypeOK
<1>4. \A c \in Buffers \ {b} : Value(c)' = Value(c)
  BY <1>1, <1>2, <1>3, ValueKept
<1>5. Value(b)' = <<>>
  BY <1>3 DEF Value, Exists
<1>. QED  BY <1>4, <1>5 DEF Abstract!Drop

\* A write changes the byte of its buffer, and nothing in any other.
LEMMA UseWriteWrites ==
    ASSUME IInv, IInv', NEW i \in Nat \ {0}, NEW v \in Values, UseWrite(i, v)
    PROVE  Abstract!Write(self)
<1>. DEFINE o == owner[self]
            cell == at[o][offset[self] + i]
<1>1. /\ TypeOK /\ TypeOK' /\ MemoryInUse
      /\ owner' = owner /\ offset' = offset /\ size' = size /\ at' = at
  BY DEF IInv, UseWrite, bufferVars, ownerVars
<1>2. /\ self \in Live /\ i \in 1..size[self] /\ cell \in Cells
      /\ mem' = [mem EXCEPT ![cell] = v]
      /\ \A p \in Owners \ {o} : \A j \in DOMAIN at[p] : at[p][j] # cell
      /\ \A c \in Live \ {self} : owner[c] # o
  BY UseWriteMemory
<1>3. /\ self \in Buffers /\ o \in Owners /\ size[self] \in Nat
      /\ offset[self] \in Nat /\ offset[self] + size[self] <= Len(at[o])
      /\ Len(at[o]) \in Nat /\ DOMAIN at[o] = 1..Len(at[o])
  <2>1. o \in Owners  BY <1>1, <1>2, LiveFacts
  <2>2. at[o] \in Seq(Cells)  BY <1>1, <2>1 DEF TypeOK
  <2>. QED  BY <1>1, <1>2, <2>1, <2>2, LiveFacts
<1>. HIDE DEF cell
<1>4. \A p \in Owners \ {o} : DataAfter(p) = Data(p)
  <2>1. \A p \in Owners \ {o} : \A j \in DOMAIN at[p] :
          mem'[at[p][j]] = mem[at[p][j]]
    BY <1>1, <1>2 DEF TypeOK
  <2>. QED  BY <1>1, <2>1 DEF DataAfter, Data, Bytes
<1>5. \A c \in Buffers \ {self} : Value(c)' = Value(c)
  <2>1. ASSUME NEW c \in Buffers \ {self} PROVE Value(c)' = Value(c)
    <3>1. c \in Live => DataAfter(owner[c]) = Data(owner[c])
      BY <1>1, <1>2, <1>4, LiveFacts
    <3>. QED  BY <1>1, <3>1, ValueKept
  <2>. QED  BY <2>1
<1>6. \A j \in 1..size[self] :
        mem'[at[o][offset[self] + j]] =
            IF j = i THEN v ELSE mem[at[o][offset[self] + j]]
  <2>. SUFFICES ASSUME NEW j \in 1..size[self]
                PROVE  mem'[at[o][offset[self] + j]] =
                           IF j = i THEN v ELSE mem[at[o][offset[self] + j]]
    OBVIOUS
  <2>0. i \in 1..size[self] /\ at[o] \in Seq(Cells)
    BY <1>1, <1>2, <1>3 DEF TypeOK
  <2>1. /\ offset[self] + j \in DOMAIN at[o] /\ offset[self] + i \in DOMAIN at[o]
        /\ (offset[self] + j = offset[self] + i => j = i)
    <3>. HIDE DEF o
    <3>. QED  BY <1>3, <2>0
  <2>2. at[o][offset[self] + j] \in Cells
    <3>. HIDE DEF o
    <3>. QED  BY <2>0, <2>1
  <2>3. at[o][offset[self] + j] = cell => j = i
    BY <1>1, <1>3, <2>1 DEF MemoryInUse, cell
  <2>4. mem \in [Cells -> Values \cup {None}]
    BY <1>1 DEF TypeOK
  <2>. QED  BY <1>2, <2>2, <2>3, <2>4 DEF cell
<1>7. /\ Content(self) = [j \in 1..size[self] |-> mem[at[o][offset[self] + j]]]
      /\ Content(self) \in [1..size[self] -> Values]
  <2>1. \A j \in 1..size[self] : offset[self] + j \in DOMAIN at[o]
    BY <1>3
  <2>. QED
    BY <1>1, <1>2, <2>1, ContentFacts, DataValues DEF ContentIsPart, Data, Bytes
<1>8. PICK b \in Buffers : b = self
  BY <1>3
<1>9. Value(b)' = [j \in 1..size[b] |-> mem'[at[o][offset[b] + j]]]
  <2>1. owner'[b] # None /\ owner'[b] = o
    BY <1>1, <1>2, <1>8 DEF Live, Exists
  <2>2. Value(b)' = [j \in 1..size'[b] |-> DataAfter(o)[offset'[b] + j]]
    BY <1>1, <2>1, ContentAfter
  <2>3. \A j \in 1..size[b] : offset[b] + j \in DOMAIN at[o]
    BY <1>3, <1>8
  <2>. QED  BY <1>1, <2>2, <2>3 DEF DataAfter
<1>10. Value(b) = Content(b)
  BY <1>2, <1>8 DEF Value, Live
<1>11. Value(b)' = [Content(b) EXCEPT ![i] = v]
  <2>1. Content(b) \in [1..size[b] -> Values] /\ i \in 1..size[b]
    BY <1>2, <1>7, <1>8
  <2>2. [Content(b) EXCEPT ![i] = v] =
            [j \in 1..size[b] |-> IF j = i THEN v ELSE Content(b)[j]]
    BY <2>1
  <2>3. \A j \in 1..size[b] : mem'[at[o][offset[b] + j]] =
            IF j = i THEN v ELSE Content(b)[j]
    BY <1>6, <1>7, <1>8
  <2>. QED  BY <1>9, <2>2, <2>3
<1>12. Val' = [Val EXCEPT ![b] = [Val[b] EXCEPT ![i] = v]]
  BY <1>5, <1>8, <1>10, <1>11 DEF Val
<1>13. i \in 1..Len(Val[b])
  BY <1>2, <1>3, <1>7, <1>8, <1>10 DEF Val
<1>. QED  BY <1>8, <1>12, <1>13 DEF Abstract!Write, Val

\* Copy-on-write gives the buffer another owner with the same bytes.
LEMMA SingleSwapStutters ==
    ASSUME IInv, IInv', SingleSwap
    PROVE  Val' = Val
<1>1. /\ TypeOK /\ TypeOK' /\ pc = "swap" /\ at' = at /\ mem' = mem
      /\ MakeBuffer(self, fresh, 0, size[self]) /\ None \notin Owners
  BY CopyOnWriteAssumption DEF IInv, SingleSwap, memoryVars
<1>2. /\ self \in Live /\ self \in Buffers /\ fresh \in Owners
      /\ size[self] \in Nat /\ Data(fresh) = Content(self)
  BY <1>1, SwapFacts
<1>3. /\ owner'[self] = fresh /\ offset'[self] = 0 /\ size'[self] = size[self]
      /\ \A c \in Buffers \ {self} : /\ owner'[c] = owner[c]
                                     /\ offset'[c] = offset[c]
                                     /\ size'[c] = size[c]
  BY <1>1, <1>2 DEF MakeBuffer, TypeOK
<1>4. \A p \in Owners : DataAfter(p) = Data(p)
  BY <1>1 DEF DataAfter, Data, Bytes
<1>5. ASSUME NEW c \in Buffers, c # self PROVE Value(c)' = Value(c)
  <2>1. c \in Live => DataAfter(owner[c]) = Data(owner[c])
    BY <1>1, <1>4, LiveFacts
  <2>. QED  BY <1>1, <1>3, <1>5, <2>1, ValueKept
<1>6. ASSUME NEW c \in Buffers, c = self PROVE Value(c)' = Value(c)
  <2>1. Content(c) \in [1..size[c] -> Values]
    BY <1>2, <1>6, DataValues DEF IInv
  <2>2. Value(c)' = [i \in 1..size[c] |-> Content(c)[0 + i]]
    BY <1>1, <1>2, <1>3, <1>4, <1>6, ContentAfter
  <2>3. Value(c) = Content(c)
    BY <1>2, <1>6 DEF Value, Live
  <2>. QED  BY <2>1, <2>2, <2>3
<1>. QED  BY <1>5, <1>6 DEF Val

\* A step that leaves the buffers and everybody's bytes alone.
LEMMA MovesStutter ==
    ASSUME IInv, IInv', owner' = owner, offset' = offset, size' = size,
           \A b \in Live : DataAfter(owner[b]) = Data(owner[b])
    PROVE  Val' = Val
<1>1. \A b \in Buffers : Value(b)' = Value(b)
  BY ValueKept DEF IInv
<1>. QED  BY <1>1 DEF Val

\* Every step is a step of ValueBuffers, or changes no value.
LEMMA NextAbstract ==
    IInv /\ IInv' /\ [Next]_vars
        => Abstract!Next \/ UNCHANGED [b \in Buffers |-> Value(b)]
<1>. SUFFICES ASSUME IInv, IInv', [Next]_vars
              PROVE  Abstract!Next \/ Val' = Val
  BY DEF Val
<1>1. ASSUME NEW b \in Buffers, NEW o \in Owners, NEW x \in Inputs,
             New(b, o, x) \/ NewFromHost(b, o, x)
      PROVE  Abstract!Next
  BY <1>1, NewMakes DEF Abstract!Next
<1>2. ASSUME NEW b \in Buffers, NEW c \in Buffers, NEW o \in Owners,
             DeepCopy(b, c, o)
      PROVE  Abstract!Next
  BY <1>2, DeepCopyCopies DEF Abstract!Next
<1>3. ASSUME NEW b \in Buffers, NEW c \in Buffers, ShallowCopy(b, c)
      PROVE  Abstract!Next
  <2>1. /\ b \in Live /\ ~Exists(c) /\ at' = at /\ mem' = mem
        /\ MakeBuffer(c, owner[b], offset[b], size[b])
    BY <1>3 DEF ShallowCopy, Live, memoryVars
  <2>2. size[b] \in Nat \ {0} /\ offset[b] \in Nat
    BY <2>1, LiveFacts DEF IInv
  <2>3. offset[b] + 0 = offset[b] /\ 0 + size[b] <= size[b] /\ 0 \in Nat
    BY <2>2
  <2>4. MakeBuffer(c, owner[b], offset[b] + 0, size[b])
    BY <2>1, <2>3
  <2>5. \A lo \in Nat, n \in Nat \ {0} :
          lo = 0 /\ n = size[b] => Abstract!Copy(b, c)
    BY <2>1, <2>3, <2>4, SliceCopies
  <2>6. Abstract!Copy(b, c)
    BY <2>2, <2>3, <2>5
  <2>. QED  BY <2>6 DEF Abstract!Next
<1>4. ASSUME NEW b \in Buffers, NEW c \in Buffers, NEW lo \in 0..MaxSize,
             NEW n \in 1..MaxSize, Slice(b, c, lo, n)
      PROVE  Abstract!Next
  <2>1. /\ b \in Live /\ ~Exists(c) /\ at' = at /\ mem' = mem
        /\ lo + n <= size[b] /\ MakeBuffer(c, owner[b], offset[b] + lo, n)
    BY <1>4 DEF Slice, Live, memoryVars
  <2>2. lo \in Nat /\ n \in Nat \ {0}
    OBVIOUS
  <2>3. Abstract!Copy(b, c)
    BY <2>1, <2>2, SliceCopies
  <2>. QED  BY <2>3 DEF Abstract!Next
<1>5. ASSUME NEW b \in Buffers, Drop(b) PROVE Abstract!Next
  BY <1>5, DropDrops DEF Abstract!Next
<1>6. ASSUME NEW i \in 1..MaxSize, NEW v \in Values, UseWrite(i, v)
      PROVE  Abstract!Next
  <2>1. Abstract!Write(self)
    BY <1>6, UseWriteWrites
  <2>2. self \in Buffers
    BY <1>6, UseWriteMemory DEF Live
  <2>. QED  BY <2>1, <2>2 DEF Abstract!Next
<1>7. ASSUME NEW b \in Buffers, NEW mode \in Modes, EnterExternal(b, mode)
      PROVE  Val' = Val
  <2>1. /\ b \in Live /\ Unspill(owner[b]) /\ array' = array
        /\ owner' = owner /\ offset' = offset /\ size' = size
    BY <1>7 DEF EnterExternal, Live, bufferVars
  <2>2. \A o \in Owners : DataAfter(o) = Data(o)
    BY <2>1, UnspillLengths DEF IInv
  <2>3. \A c \in Live : DataAfter(owner[c]) = Data(owner[c])
    BY <2>2, LiveFacts DEF IInv
  <2>. QED  BY <2>1, <2>3, MovesStutter
<1>8. ASSUME OwnerPtr PROVE Val' = Val
  <2>1. /\ self \in Live /\ Unspill(owner[self]) /\ array' = array
        /\ owner' = owner /\ offset' = offset /\ size' = size
    BY <1>8 DEF OwnerPtr, IInv, PtrSteps, bufferVars
  <2>2. \A b \in Live : b = self => \A o \in Owners : DataAfter(o) = Data(o)
    BY <2>1, UnspillLengths DEF IInv
  <2>3. \A c \in Live : DataAfter(owner[c]) = Data(owner[c])
    BY <2>1, <2>2, LiveFacts DEF IInv
  <2>. QED  BY <2>1, <2>3, MovesStutter
<1>9. ASSUME NEW o \in Owners, SingleCopy(o) PROVE Val' = Val
  <2>1. owner' = owner /\ offset' = offset /\ size' = size /\ at[o] = <<>>
    BY <1>9 DEF SingleCopy, bufferVars
  <2>2. \A p \in Owners \ {o} : DataAfter(p) = Data(p)
    BY <1>9, SingleCopyRefills DEF Refills
  <2>3. \A c \in Live : DataAfter(owner[c]) = Data(owner[c])
    BY <2>1, <2>2, LiveFacts DEF IInv
  <2>. QED  BY <2>1, <2>3, MovesStutter
<1>10. ASSUME NEW o \in Owners, Spill(o) PROVE Val' = Val
  <2>1. owner' = owner /\ offset' = offset /\ size' = size
    BY <1>10 DEF Spill, bufferVars
  <2>2. \A p \in Owners : DataAfter(p) = Data(p)
    BY <1>10, SpillMoves DEF Refills
  <2>3. \A c \in Live : DataAfter(owner[c]) = Data(owner[c])
    BY <2>2, LiveFacts DEF IInv
  <2>. QED  BY <2>1, <2>3, MovesStutter
<1>11. ASSUME DropArray PROVE Val' = Val
  <2>1. owner' = owner /\ offset' = offset /\ size' = size
    BY <1>11 DEF DropArray, bufferVars
  <2>2. \A c \in Live : DataAfter(owner[c]) = Data(owner[c])
    BY <1>11, DropArrayMemory, LiveFacts DEF IInv
  <2>. QED  BY <2>1, <2>2, MovesStutter
<1>12. ASSUME \/ \E b \in Buffers : ReadPtr(b) \/ Exit(b)
              \/ \E b \in Buffers, mode \in Modes : EnterInternal(b, mode)
              \/ UseRead \/ UNCHANGED vars
       PROVE  Val' = Val
  <2>1. /\ owner' = owner /\ offset' = offset /\ size' = size
        /\ at' = at /\ mem' = mem
    BY <1>12 DEF ReadPtr, Exit, EnterInternal, UseRead, vars, bufferVars,
                 ownerVars, memoryVars
  <2>2. \A c \in Live : DataAfter(owner[c]) = Data(owner[c])
    BY <2>1 DEF DataAfter, Data, Bytes
  <2>. QED  BY <2>1, <2>2, MovesStutter
<1>13. CASE SingleSwap
  BY <1>13, SingleSwapStutters
<1>. QED
  BY <1>1, <1>2, <1>3, <1>4, <1>5, <1>6, <1>7, <1>8, <1>9, <1>10, <1>11,
     <1>12, <1>13 DEF Next

\* Copy-on-write is invisible: every behaviour of the buffers is one of buffers
\* that have values of their own.
THEOREM ValuesImplemented == Spec => ImplementsValues
<1>1. Init => Abstract!Init
  BY InitAbstract
<1>2. IInv /\ IInv' /\ [Next]_vars
        => [Abstract!Next]_[b \in Buffers |-> Value(b)]
  BY NextAbstract
<1>. QED
  BY <1>1, <1>2, SpecIInv, PTL DEF Spec, ImplementsValues, Abstract!Spec

=============================================================================
