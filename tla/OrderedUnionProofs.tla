------------------------- MODULE OrderedUnionProofs -------------------------
(***************************************************************************)
(* Proofs about OrderedUnion, for any number of ranks, children and chunks *)
(* and for any estimates of the chunk counts.                              *)
(***************************************************************************)
EXTENDS OrderedUnion, SequenceLemmas, TLAPS

-----------------------------------------------------------------------------
(* Partitions and their owners *)

\* The quotient of two numbers, by its bounds.
LEMMA Quotient ==
    ASSUME NEW a \in Nat, NEW b \in Nat \ {0}, NEW q \in Nat
    PROVE  a \div b = q <=> q * b <= a /\ a < (q + 1) * b
  OBVIOUS

\* The quotient rounded up.
LEMMA QuotientUp ==
    ASSUME NEW a \in Nat, NEW b \in Nat \ {0}, NEW p \in Nat
    PROVE  /\ (a + b - 1) \div b \in Nat
           /\ (a + b - 1) \div b <= p <=> a <= p * b
  OBVIOUS

\* The destination that read_and_exchange computes for a partition agrees with
\* the range of partitions that _OrderedUnionPlan promises for a rank.
THEOREM OwnerOfPartition ==
    ASSUME NEW nranks \in Nat \ {0}, NEW npartitions \in Nat \ {0},
           NEW p \in 0..(npartitions - 1), NEW r \in 0..(nranks - 1)
    PROVE  PartitionOwner(p, nranks, npartitions) = r <=>
             /\ PartitionRange(r, nranks, npartitions)[1] <= p
             /\ p < PartitionRange(r, nranks, npartitions)[2]
<1>. DEFINE low == (r * npartitions + nranks - 1) \div nranks
            high == ((r + 1) * npartitions + nranks - 1) \div nranks
<1>1. /\ PartitionRange(r, nranks, npartitions)[1] = low
      /\ PartitionRange(r, nranks, npartitions)[2] = high
  BY DEF PartitionRange
<1>2. /\ p * nranks \in Nat /\ r * npartitions \in Nat
      /\ (r + 1) * npartitions \in Nat
  OBVIOUS
<1>3. PartitionOwner(p, nranks, npartitions) = r <=>
        r * npartitions <= p * nranks /\ p * nranks < (r + 1) * npartitions
  BY <1>2, Quotient DEF PartitionOwner
<1>4. low \in Nat /\ (low <= p <=> r * npartitions <= p * nranks)
  BY <1>2, QuotientUp
<1>5. high \in Nat /\ (high <= p <=> (r + 1) * npartitions <= p * nranks)
  BY <1>2, QuotientUp
<1>. HIDE DEF low, high
<1>. QED
  BY <1>1, <1>2, <1>3, <1>4, <1>5

\* Later partitions belong to the same or to later ranks, and to ranks there
\* are: what makes reading the ranks in order read the partitions in order.
THEOREM OwnersInOrder ==
    ASSUME NEW nranks \in Nat \ {0}, NEW npartitions \in Nat \ {0},
           NEW p \in 0..(npartitions - 1), NEW q \in 0..(npartitions - 1),
           p <= q
    PROVE  /\ PartitionOwner(p, nranks, npartitions) \in 0..(nranks - 1)
           /\ PartitionOwner(p, nranks, npartitions)
                <= PartitionOwner(q, nranks, npartitions)
<1>1. ASSUME NEW a \in Nat, NEW b \in Nat, a <= b
      PROVE  a \div npartitions <= b \div npartitions
  <2>1. PICK i \in Nat : i = a \div npartitions
    OBVIOUS
  <2>2. PICK j \in Nat : j = b \div npartitions
    OBVIOUS
  <2>3. i * npartitions <= a /\ b < (j + 1) * npartitions
    BY <2>1, <2>2, Quotient
  <2>4. i * npartitions < (j + 1) * npartitions
    BY <1>1, <2>3
  <2>5. ASSUME j + 1 <= i PROVE FALSE
    BY <2>4, <2>5
  <2>. QED
    BY <2>1, <2>2, <2>5
<1>2. /\ p * nranks \in Nat /\ q * nranks \in Nat /\ p * nranks <= q * nranks
      /\ p * nranks < nranks * npartitions
  OBVIOUS
<1>3. PICK o \in Nat : o = (p * nranks) \div npartitions
  BY <1>2
<1>4. o * npartitions <= p * nranks
  BY <1>2, <1>3, Quotient
<1>5. o * npartitions < nranks * npartitions
  BY <1>2, <1>4
<1>6. ASSUME nranks <= o PROVE FALSE
  BY <1>5, <1>6
<1>. QED
  BY <1>1, <1>2, <1>3, <1>6 DEF PartitionOwner

\* The ranges of the ranks follow each other without gaps, from the first
\* partition to the last.
THEOREM RangesTile ==
    ASSUME NEW nranks \in Nat \ {0}, NEW npartitions \in Nat,
           NEW r \in 0..(nranks - 1)
    PROVE  /\ PartitionRange(0, nranks, npartitions)[1] = 0
           /\ PartitionRange(r, nranks, npartitions)[2] =
                PartitionRange(r + 1, nranks, npartitions)[1]
           /\ PartitionRange(nranks - 1, nranks, npartitions)[2] = npartitions
<1>1. (0 * npartitions + nranks - 1) \div nranks = 0
  BY Quotient
<1>2. (nranks * npartitions + nranks - 1) \div nranks = npartitions
  <2>1. PICK u \in Nat : u = (nranks * npartitions + nranks - 1) \div nranks
    BY QuotientUp
  <2>2. u <= npartitions
    BY <2>1, QuotientUp
  <2>3. nranks * npartitions <= u * nranks
    BY <2>1, QuotientUp
  <2>. QED
    BY <2>1, <2>2, <2>3
<1>3. nranks - 1 + 1 = nranks
  OBVIOUS
<1>. QED
  BY <1>1, <1>2, <1>3 DEF PartitionRange

-----------------------------------------------------------------------------
(* The inductive invariant *)

\* The scenario is fixed and every rank has its entry of every variable.
Shape ==
    /\ in \in Scenarios
    /\ reader \in [Ranks -> {"insert", "gather", "read", "exchange", "done"}]
    /\ sampler \in [Ranks -> {"sample", "insert", "aggregate", "replay",
                              "done"}]
    /\ child \in [Ranks -> Children] /\ index \in [Ranks -> Nat]
    /\ emitted \in [Ranks -> Nat]
    /\ DOMAIN exchange = Children
    /\ \A c \in Children : DOMAIN exchange[c] = Ranks
    /\ DOMAIN exchanged = Ranks /\ DOMAIN store = Ranks
    /\ DOMAIN ch = Ranks /\ DOMAIN sample = Ranks

\* What waits in a queue, a channel or a sample is a sequence.
Queues ==
    \A r \in Ranks : /\ IsSequence(exchanged[r]) /\ IsSequence(ch[r])
                     /\ IsSequence(sample[r])

\* The children a rank has exchanged.
Taken(r) == IF reader[r] = "done" THEN Len(in.chunks) ELSE child[r] - 1

\* emit has taken, or finds in the queue, every child that the reader has
\* exchanged, and the reader ends with the last child.
Pipeline ==
    \A r \in Ranks :
        /\ reader[r] = "done" => child[r] = Len(in.chunks)
        /\ emitted[r] + Len(exchanged[r]) = Taken(r)

\* A rank has called insert_finished for the children before the one it reads
\* and, once it waits for the exchange, for that one.
FinishedChildren ==
    \A c \in Children, r \in Ranks :
        <<c, r>> \in finished <=>
            \/ c < child[r]
            \/ c = child[r] /\ reader[r] \in {"exchange", "done"}

\* The sampler goes on before it has too many chunks.
SampleRoom ==
    \A r \in Ranks : sampler[r] = "sample" => Len(sample[r]) < MaxChunks

\* The inductive invariant.
IInv ==
    TypeOK /\ Shape /\ Queues /\ Pipeline /\ FinishedChildren /\ SampleRoom

\* The scenario stays, and with it the ranks and the children.
LEMMA ScenarioStays ==
    ASSUME in' = in
    PROVE  Ranks' = Ranks /\ Children' = Children
  BY DEF Ranks, Children

\* Children are numbered from 1 and have a number of chunks on every rank.
LEMMA ScenarioNumbers ==
    ASSUME in \in Scenarios
    PROVE  /\ Len(in.chunks) \in Nat \ {0} /\ Children = 1..Len(in.chunks)
           /\ Ranks \subseteq Int
           /\ \A c \in Children, r \in Ranks : in.chunks[c][r] \in Nat
<1>1. /\ in.nranks \in Nat \ {0}
      /\ in.chunks \in Seq([0..(in.nranks - 1) -> Nat]) /\ Len(in.chunks) > 0
  BY ScenariosAssumption
<1>. QED
  BY <1>1 DEF Ranks, Children

\* Contributing to the AllGather keeps the invariant.
LEMMA ContributeKeeps ==
    ASSUME IInv, NEW r \in Ranks, Contribute(r)
    PROVE  IInv'
<1>0. TypeOK /\ Shape /\ Queues /\ Pipeline /\ FinishedChildren /\ SampleRoom
  BY DEF IInv
<1>1. in' = in /\ Ranks' = Ranks /\ Children' = Children
  BY ScenarioStays DEF Contribute
<1>2. /\ Len(in.chunks) \in Nat \ {0} /\ Children = 1..Len(in.chunks)
      /\ \A c \in Children, s \in Ranks : in.chunks[c][s] \in Nat
  BY <1>0, ScenarioNumbers DEF Shape
<1>. USE DEF Contribute, Goto, unionVars, emitVars, downVars
<1>3. TypeOK'
  BY <1>0, <1>1, <1>2 DEF TypeOK, Shape
<1>4. Shape'
  BY <1>0, <1>1, <1>2 DEF Shape
<1>5. Queues'
  BY <1>0, <1>1 DEF Queues, Shape
<1>6. Pipeline'
  BY <1>0, <1>1, <1>2 DEF Pipeline, Taken, Shape
<1>7. FinishedChildren'
  BY <1>0, <1>1, <1>2 DEF FinishedChildren, Shape
<1>8. SampleRoom'
  BY <1>0, <1>1 DEF SampleRoom, Shape
<1>. QED
  BY <1>3, <1>4, <1>5, <1>6, <1>7, <1>8 DEF IInv

\* So does having the plan.
LEMMA GatheredKeeps ==
    ASSUME IInv, NEW r \in Ranks, Gathered(r)
    PROVE  IInv'
<1>0. TypeOK /\ Shape /\ Queues /\ Pipeline /\ FinishedChildren /\ SampleRoom
  BY DEF IInv
<1>1. in' = in /\ Ranks' = Ranks /\ Children' = Children
  BY ScenarioStays DEF Gathered
<1>2. /\ Len(in.chunks) \in Nat \ {0} /\ Children = 1..Len(in.chunks)
      /\ \A c \in Children, s \in Ranks : in.chunks[c][s] \in Nat
  BY <1>0, ScenarioNumbers DEF Shape
<1>. USE DEF Gathered, Goto, unionVars, emitVars, downVars
<1>3. TypeOK'
  BY <1>0, <1>1, <1>2 DEF TypeOK, Shape
<1>4. Shape'
  BY <1>0, <1>1, <1>2 DEF Shape
<1>5. Queues'
  BY <1>0, <1>1 DEF Queues, Shape
<1>6. Pipeline'
  BY <1>0, <1>1, <1>2 DEF Pipeline, Taken, Shape
<1>7. FinishedChildren'
  BY <1>0, <1>1, <1>2 DEF FinishedChildren, Shape
<1>8. SampleRoom'
  BY <1>0, <1>1 DEF SampleRoom, Shape
<1>. QED
  BY <1>3, <1>4, <1>5, <1>6, <1>7, <1>8 DEF IInv

\* Reading a chunk: the rank has not finished the child it reads.
LEMMA ReadKeeps ==
    ASSUME IInv, NEW r \in Ranks, Read(r)
    PROVE  IInv'
<1>0. TypeOK /\ Shape /\ Queues /\ Pipeline /\ FinishedChildren /\ SampleRoom
  BY DEF IInv
<1>1. in' = in /\ Ranks' = Ranks /\ Children' = Children
  BY ScenarioStays DEF Read
<1>2. /\ Len(in.chunks) \in Nat \ {0} /\ Children = 1..Len(in.chunks)
      /\ \A c \in Children, s \in Ranks : in.chunks[c][s] \in Nat
  BY <1>0, ScenarioNumbers DEF Shape
<1>. USE DEF Read, Goto, unionVars, emitVars, downVars
<1>3. TypeOK'
  <2>1. ASSUME NEW s \in Ranks
        PROVE  child'[s] = child[s] /\ index'[s] \in 0..in.chunks[child[s]][s]
    <3>1. /\ child[s] \in Children /\ index[s] \in 0..in.chunks[child[s]][s]
          /\ in.chunks[child[s]][s] \in Nat
      BY <1>0, <1>2 DEF TypeOK
    <3>2. /\ index' = [index EXCEPT ![r] = @ + 1] /\ child' = child
          /\ index[r] < in.chunks[child[r]][r] /\ index \in [Ranks -> Nat]
      BY <1>0 DEF Shape
    <3>. QED
      BY <3>1, <3>2
  <2>. QED
    BY <1>0, <1>1, <2>1 DEF TypeOK
<1>4. Shape'
  BY <1>0, <1>1, <1>2 DEF Shape
<1>5. Queues'
  BY <1>0, <1>1 DEF Queues, Shape
<1>6. Pipeline'
  BY <1>0, <1>1, <1>2 DEF Pipeline, Taken, Shape
<1>7. FinishedChildren'
  BY <1>0, <1>1, <1>2 DEF FinishedChildren, Shape
<1>8. SampleRoom'
  BY <1>0, <1>1 DEF SampleRoom, Shape
<1>. QED
  BY <1>3, <1>4, <1>5, <1>6, <1>7, <1>8 DEF IInv

\* Calling insert_finished.
LEMMA InsertFinishedKeeps ==
    ASSUME IInv, NEW r \in Ranks, InsertFinished(r)
    PROVE  IInv'
<1>0. TypeOK /\ Shape /\ Queues /\ Pipeline /\ FinishedChildren /\ SampleRoom
  BY DEF IInv
<1>1. in' = in /\ Ranks' = Ranks /\ Children' = Children
  BY ScenarioStays DEF InsertFinished
<1>2. /\ Len(in.chunks) \in Nat \ {0} /\ Children = 1..Len(in.chunks)
      /\ \A c \in Children, s \in Ranks : in.chunks[c][s] \in Nat
  BY <1>0, ScenarioNumbers DEF Shape
<1>. USE DEF InsertFinished, Goto, unionVars, emitVars, downVars
<1>3. TypeOK'
  BY <1>0, <1>1, <1>2 DEF TypeOK, Shape
<1>4. Shape'
  BY <1>0, <1>1, <1>2 DEF Shape
<1>5. Queues'
  BY <1>0, <1>1 DEF Queues, Shape
<1>6. Pipeline'
  BY <1>0, <1>1, <1>2 DEF Pipeline, Taken, Shape
<1>7. FinishedChildren'
  BY <1>0, <1>1, <1>2 DEF FinishedChildren, Shape
<1>8. SampleRoom'
  BY <1>0, <1>1 DEF SampleRoom, Shape
<1>. QED
  BY <1>3, <1>4, <1>5, <1>6, <1>7, <1>8 DEF IInv

\* Taking a complete exchange and going on to the next child.
LEMMA ExchangedKeeps ==
    ASSUME IInv, NEW r \in Ranks, Exchanged(r)
    PROVE  IInv'
<1>0. TypeOK /\ Shape /\ Queues /\ Pipeline /\ FinishedChildren /\ SampleRoom
  BY DEF IInv
<1>1. in' = in /\ Ranks' = Ranks /\ Children' = Children
  BY ScenarioStays DEF Exchanged
<1>2. /\ Len(in.chunks) \in Nat \ {0} /\ Children = 1..Len(in.chunks)
      /\ \A c \in Children, s \in Ranks : in.chunks[c][s] \in Nat
  BY <1>0, ScenarioNumbers DEF Shape
<1>a. /\ exchanged' = [exchanged EXCEPT
                            ![r] = Append(@, Owned(child[r], r))]
      /\ reader[r] = "exchange"
      /\ UNCHANGED <<gathered, exchange, finished, emitVars, ch, downVars>>
  BY DEF Exchanged
<1>b. \/ /\ child[r] = Len(in.chunks)
         /\ reader' = [reader EXCEPT ![r] = "done"]
         /\ UNCHANGED <<child, index>>
      \/ /\ child[r] # Len(in.chunks)
         /\ reader' = [reader EXCEPT ![r] = "read"]
         /\ child' = [child EXCEPT ![r] = child[r] + 1]
         /\ index' = [index EXCEPT ![r] = 0]
  BY DEF Exchanged, Goto
<1>c. child[r] \in Children /\ child[r] + 1 \in Nat /\ emitted[r] \in Nat
      /\ (child[r] # Len(in.chunks) => child[r] + 1 \in Children)
  BY <1>0, <1>2 DEF Shape
<1>d. /\ IsSequence(exchanged'[r]) /\ Len(exchanged[r]) \in Nat
      /\ Len(exchanged'[r]) = Len(exchanged[r]) + 1
      /\ DOMAIN exchanged' = Ranks
      /\ \A s \in Ranks \ {r} : exchanged'[s] = exchanged[s]
  <2>1. IsSequence(exchanged[r])
    BY <1>0 DEF Queues
  <2>2. exchanged'[r] = Append(exchanged[r], Owned(child[r], r))
        /\ DOMAIN exchanged' = Ranks
        /\ \A s \in Ranks \ {r} : exchanged'[s] = exchanged[s]
    BY <1>0, <1>a DEF Shape
  <2>. QED
    BY <2>1, <2>2, AppendIsSequence
<1>e. \A s \in Ranks \ {r} : /\ reader'[s] = reader[s] /\ child'[s] = child[s]
                             /\ index'[s] = index[s]
  BY <1>0, <1>b DEF Shape
<1>f. \/ child[r] = Len(in.chunks) /\ reader'[r] = "done"
         /\ child'[r] = child[r] /\ index'[r] = index[r]
      \/ child[r] # Len(in.chunks) /\ reader'[r] = "read"
         /\ child'[r] = child[r] + 1 /\ index'[r] = 0
  BY <1>0, <1>b DEF Shape
<1>g. /\ reader' \in [Ranks -> {"insert", "gather", "read", "exchange", "done"}]
      /\ child' \in [Ranks -> Children] /\ index' \in [Ranks -> Nat]
  <2>1. CASE UNCHANGED <<child, index>>
             /\ reader' = [reader EXCEPT ![r] = "done"]
    BY <1>0, <2>1 DEF Shape
  <2>2. CASE /\ child[r] # Len(in.chunks)
             /\ reader' = [reader EXCEPT ![r] = "read"]
             /\ child' = [child EXCEPT ![r] = child[r] + 1]
             /\ index' = [index EXCEPT ![r] = 0]
    BY <1>0, <1>c, <2>2 DEF Shape
  <2>. QED
    BY <1>b, <2>1, <2>2
<1>3. TypeOK'
  <2>1. \A s \in Ranks : index'[s] \in 0..in.chunks[child'[s]][s]
    <3>1. \A s \in Ranks : index[s] \in 0..in.chunks[child[s]][s]
      BY <1>0 DEF TypeOK
    <3>2. index'[r] \in 0..in.chunks[child'[r]][r]
      BY <1>2, <1>c, <1>f, <3>1
    <3>. QED
      BY <1>e, <3>1, <3>2
  <2>. QED
    BY <1>0, <1>1, <1>a, <1>g, <2>1 DEF TypeOK, emitVars, downVars
<1>4. Shape'
  BY <1>0, <1>1, <1>a, <1>d, <1>g DEF Shape, emitVars, downVars
<1>5. Queues'
  BY <1>0, <1>1, <1>a, <1>d DEF Queues, downVars
<1>6. Pipeline'
  <2>1. \A s \in Ranks \ {r} : Taken(s)' = Taken(s)
    BY <1>1, <1>e DEF Taken
  <2>2. Taken(r)' = Taken(r) + 1
    BY <1>1, <1>2, <1>a, <1>c, <1>f DEF Taken
  <2>3. emitted'[r] + Len(exchanged'[r]) = Taken(r)'
    <3>1. emitted[r] + Len(exchanged[r]) = Taken(r)
      BY <1>0 DEF Pipeline
    <3>2. emitted'[r] = emitted[r]
      BY <1>a DEF emitVars
    <3>3. emitted[r] + (Len(exchanged[r]) + 1) = Taken(r) + 1
      BY <1>c, <1>d, <3>1
    <3>. QED
      BY <1>d, <2>2, <3>2, <3>3
  <2>4. \A s \in Ranks \ {r} : emitted'[s] + Len(exchanged'[s]) = Taken(s)'
    BY <1>0, <1>a, <1>d, <2>1 DEF Pipeline, emitVars
  <2>5. \A s \in Ranks : reader'[s] = "done" => child'[s] = Len(in.chunks)
    BY <1>0, <1>e, <1>f DEF Pipeline
  <2>. QED
    BY <1>1, <2>3, <2>4, <2>5 DEF Pipeline
<1>7. FinishedChildren'
  <2>1. ASSUME NEW c \in Children
        PROVE  <<c, r>> \in finished <=>
                 \/ c < child'[r]
                 \/ c = child'[r] /\ reader'[r] \in {"exchange", "done"}
    <3>1. <<c, r>> \in finished <=> c <= child[r]
      BY <1>0, <1>2, <1>a, <1>c DEF FinishedChildren
    <3>. QED
      BY <1>2, <1>c, <1>f, <3>1
  <2>2. ASSUME NEW c \in Children, NEW s \in Ranks \ {r}
        PROVE  <<c, s>> \in finished <=>
                 \/ c < child'[s]
                 \/ c = child'[s] /\ reader'[s] \in {"exchange", "done"}
    BY <1>0, <1>e DEF FinishedChildren
  <2>. QED
    BY <1>1, <1>a, <2>1, <2>2 DEF FinishedChildren
<1>8. SampleRoom'
  BY <1>0, <1>1, <1>a DEF SampleRoom, downVars
<1>. QED
  BY <1>3, <1>4, <1>5, <1>6, <1>7, <1>8 DEF IInv

\* Taking the chunks of a child from the queue.
LEMMA TakeStoreKeeps ==
    ASSUME IInv, NEW r \in Ranks, TakeStore(r)
    PROVE  IInv'
<1>0. TypeOK /\ Shape /\ Queues /\ Pipeline /\ FinishedChildren /\ SampleRoom
  BY DEF IInv
<1>1. in' = in /\ Ranks' = Ranks /\ Children' = Children
  BY ScenarioStays DEF TakeStore
<1>2. /\ Len(in.chunks) \in Nat \ {0} /\ Children = 1..Len(in.chunks)
      /\ \A c \in Children, s \in Ranks : in.chunks[c][s] \in Nat
  BY <1>0, ScenarioNumbers DEF Shape
<1>. USE DEF TakeStore, downVars
<1>a. IsSequence(exchanged[r]) /\ exchanged[r] # <<>>
  BY <1>0 DEF Queues
<1>b. /\ exchanged'[r] = Tail(exchanged[r]) /\ DOMAIN exchanged' = Ranks
      /\ \A s \in Ranks \ {r} : exchanged'[s] = exchanged[s]
  BY <1>0 DEF Shape
<1>c. /\ IsSequence(exchanged'[r]) /\ Len(exchanged[r]) \in Nat
      /\ Len(exchanged'[r]) = Len(exchanged[r]) - 1
      /\ Len(exchanged'[r]) \in Nat
  BY <1>a, <1>b, TailIsSequence DEF IsSequence
<1>d. /\ emitted' \in [Ranks -> Nat] /\ emitted'[r] = emitted[r] + 1
      /\ \A s \in Ranks \ {r} : emitted'[s] = emitted[s]
  BY <1>0 DEF Shape
<1>4. Shape'
  BY <1>0, <1>1, <1>b, <1>d DEF Shape
<1>5. Queues'
  BY <1>0, <1>1, <1>b, <1>c DEF Queues
<1>6. Pipeline'
  <2>1. emitted'[r] + Len(exchanged'[r]) = emitted[r] + Len(exchanged[r])
    BY <1>0, <1>c, <1>d DEF Shape
  <2>2. \A s \in Ranks : Taken(s)' = Taken(s)
    BY <1>1 DEF Taken
  <2>. QED
    BY <1>0, <1>1, <1>b, <1>d, <2>1, <2>2 DEF Pipeline
<1>3. TypeOK'
  <2>1. emitted'[r] \in 0..Len(in.chunks)
    <3>1. emitted'[r] + Len(exchanged'[r]) = Taken(r)'
      BY <1>1, <1>6 DEF Pipeline
    <3>2. Taken(r)' \in Nat /\ Taken(r)' <= Len(in.chunks)
      BY <1>0, <1>1, <1>2 DEF Taken, Shape
    <3>3. emitted'[r] \in Nat
      BY <1>d
    <3>. QED
      BY <1>2, <1>c, <3>1, <3>2, <3>3
  <2>2. \A s \in Ranks : emitted'[s] \in 0..Len(in.chunks)
    BY <1>0, <1>d, <2>1 DEF TypeOK
  <2>. QED
    BY <1>0, <1>1, <2>2 DEF TypeOK
<1>7. FinishedChildren'
  BY <1>0, <1>1 DEF FinishedChildren
<1>8. SampleRoom'
  BY <1>0, <1>1 DEF SampleRoom
<1>. QED
  BY <1>3, <1>4, <1>5, <1>6, <1>7, <1>8 DEF IInv

\* Sending a chunk when the channel has room.
LEMMA EmitKeeps ==
    ASSUME IInv, NEW r \in Ranks, Emit(r)
    PROVE  IInv'
<1>0. TypeOK /\ Shape /\ Queues /\ Pipeline /\ FinishedChildren /\ SampleRoom
  BY DEF IInv
<1>1. in' = in /\ Ranks' = Ranks /\ Children' = Children
  BY ScenarioStays DEF Emit
<1>2. /\ Len(in.chunks) \in Nat \ {0} /\ Children = 1..Len(in.chunks)
      /\ \A c \in Children, s \in Ranks : in.chunks[c][s] \in Nat
  BY <1>0, ScenarioNumbers DEF Shape
<1>. USE DEF Emit, unionVars, downVars
<1>a. IsSequence(ch[r]) /\ Len(ch[r]) < Capacity
  BY <1>0 DEF Queues
<1>b. /\ ch'[r] = Append(ch[r], Head(store[r])) /\ DOMAIN ch' = Ranks
      /\ \A s \in Ranks \ {r} : ch'[s] = ch[s]
  BY <1>0 DEF Shape
<1>c. IsSequence(ch'[r]) /\ Len(ch'[r]) <= Capacity
  BY <1>a, <1>b, AppendIsSequence, OrderedUnionAssumption
<1>3. TypeOK'
  BY <1>0, <1>1, <1>b, <1>c DEF TypeOK
<1>4. Shape'
  BY <1>0, <1>1, <1>b DEF Shape
<1>5. Queues'
  BY <1>0, <1>1, <1>b, <1>c DEF Queues
<1>6. Pipeline'
  BY <1>0, <1>1 DEF Pipeline, Taken
<1>7. FinishedChildren'
  BY <1>0, <1>1 DEF FinishedChildren
<1>8. SampleRoom'
  BY <1>0, <1>1 DEF SampleRoom
<1>. QED
  BY <1>3, <1>4, <1>5, <1>6, <1>7, <1>8 DEF IInv

\* Closing the channel.
LEMMA DrainKeeps ==
    ASSUME IInv, NEW r \in Ranks, Drain(r)
    PROVE  IInv'
<1>0. TypeOK /\ Shape /\ Queues /\ Pipeline /\ FinishedChildren /\ SampleRoom
  BY DEF IInv
<1>1. in' = in /\ Ranks' = Ranks /\ Children' = Children
  BY ScenarioStays DEF Drain
<1>2. /\ Len(in.chunks) \in Nat \ {0} /\ Children = 1..Len(in.chunks)
      /\ \A c \in Children, s \in Ranks : in.chunks[c][s] \in Nat
  BY <1>0, ScenarioNumbers DEF Shape
<1>. USE DEF Drain, Goto, unionVars, emitVars, downVars
<1>3. TypeOK'
  BY <1>0, <1>1, <1>2 DEF TypeOK, Shape
<1>4. Shape'
  BY <1>0, <1>1, <1>2 DEF Shape
<1>5. Queues'
  BY <1>0, <1>1 DEF Queues, Shape
<1>6. Pipeline'
  BY <1>0, <1>1, <1>2 DEF Pipeline, Taken, Shape
<1>7. FinishedChildren'
  BY <1>0, <1>1, <1>2 DEF FinishedChildren, Shape
<1>8. SampleRoom'
  BY <1>0, <1>1 DEF SampleRoom, Shape
<1>. QED
  BY <1>3, <1>4, <1>5, <1>6, <1>7, <1>8 DEF IInv

\* Sampling a chunk, or ending the sample.
LEMMA SampleKeeps ==
    ASSUME IInv, NEW r \in Ranks, Sample(r)
    PROVE  IInv'
<1>0. TypeOK /\ Shape /\ Queues /\ Pipeline /\ FinishedChildren /\ SampleRoom
  BY DEF IInv
<1>1. in' = in /\ Ranks' = Ranks /\ Children' = Children
  BY ScenarioStays DEF Sample
<1>2. /\ Len(in.chunks) \in Nat \ {0} /\ Children = 1..Len(in.chunks)
      /\ \A c \in Children, s \in Ranks : in.chunks[c][s] \in Nat
  BY <1>0, ScenarioNumbers DEF Shape
<1>a. /\ UNCHANGED <<gathered, unionVars, emitVars, sampled, output>>
      /\ ch' = ch \/ (ch[r] # <<>> /\ ch' = [ch EXCEPT ![r] = Tail(@)])
  BY DEF Sample
<1>b. ASSUME ch[r] # <<>>, ch' = [ch EXCEPT ![r] = Tail(@)]
      PROVE  /\ IsSequence(ch'[r]) /\ Len(ch'[r]) <= Capacity
             /\ DOMAIN ch' = Ranks /\ \A s \in Ranks \ {r} : ch'[s] = ch[s]
  <2>1. IsSequence(ch[r]) /\ Len(ch[r]) <= Capacity
    BY <1>0 DEF Queues, TypeOK
  <2>2. /\ ch'[r] = Tail(ch[r]) /\ DOMAIN ch' = Ranks
        /\ \A s \in Ranks \ {r} : ch'[s] = ch[s]
    BY <1>0, <1>b DEF Shape
  <2>. QED
    BY <1>b, <2>1, <2>2, TailIsSequence, OrderedUnionAssumption
<1>c. /\ DOMAIN ch' = Ranks
      /\ \A s \in Ranks : IsSequence(ch'[s]) /\ Len(ch'[s]) <= Capacity
  <2>1. CASE ch' = ch
    BY <1>0, <2>1 DEF Shape, Queues, TypeOK
  <2>2. CASE ch[r] # <<>> /\ ch' = [ch EXCEPT ![r] = Tail(@)]
    BY <1>0, <1>b, <2>2 DEF Queues, TypeOK
  <2>. QED
    BY <1>a, <2>1, <2>2
<1>d. /\ DOMAIN sample' = Ranks
      /\ sampler' \in [Ranks -> {"sample", "insert", "aggregate", "replay",
                                 "done"}]
      /\ \A s \in Ranks :
            /\ IsSequence(sample'[s]) /\ Len(sample'[s]) <= MaxChunks
            /\ sampler'[s] = "sample" => Len(sample'[s]) < MaxChunks
  <2>1. /\ sampler[r] = "sample" /\ IsSequence(sample[r])
        /\ Len(sample[r]) < MaxChunks
    BY <1>0 DEF Sample, Queues, SampleRoom
  <2>2. \A m : /\ IsSequence(Append(sample[r], m)) /\ Len(sample[r]) \in Nat
               /\ Len(Append(sample[r], m)) = Len(sample[r]) + 1
    BY <2>1, AppendIsSequence
  <2>3. \A s \in Ranks :
            /\ IsSequence(sample[s]) /\ Len(sample[s]) <= MaxChunks
            /\ sampler[s] = "sample" => Len(sample[s]) < MaxChunks
    BY <1>0 DEF Queues, TypeOK, SampleRoom
  <2>4. CASE /\ sample' = [sample EXCEPT ![r] = Append(@, Head(ch[r]))]
             /\ sampler' = [sampler EXCEPT
                    ![r] = IF Len(sample'[r]) = MaxChunks THEN "insert" ELSE @]
    <3>1. /\ sample'[r] = Append(sample[r], Head(ch[r]))
          /\ DOMAIN sample' = Ranks
          /\ \A s \in Ranks \ {r} : sample'[s] = sample[s]
                                    /\ sampler'[s] = sampler[s]
          /\ sampler'[r] = IF Len(sample'[r]) = MaxChunks THEN "insert"
                           ELSE "sample"
      BY <1>0, <2>1, <2>4 DEF Shape
    <3>2. sampler' \in [Ranks -> {"sample", "insert", "aggregate", "replay",
                                  "done"}]
      BY <1>0, <2>4 DEF Shape
    <3>3. /\ IsSequence(sample'[r]) /\ Len(sample'[r]) <= MaxChunks
          /\ sampler'[r] = "sample" => Len(sample'[r]) < MaxChunks
      BY <2>1, <2>2, <3>1, OrderedUnionAssumption
    <3>. QED
      BY <2>3, <3>1, <3>2, <3>3
  <2>5. CASE sample' = sample /\ sampler' = [sampler EXCEPT ![r] = "insert"]
    BY <1>0, <2>3, <2>5 DEF Shape
  <2>. QED
    BY <2>4, <2>5 DEF Sample
<1>3. TypeOK'
  BY <1>0, <1>1, <1>a, <1>c, <1>d DEF TypeOK, unionVars, emitVars
<1>4. Shape'
  BY <1>0, <1>1, <1>a, <1>c, <1>d DEF Shape, unionVars, emitVars
<1>5. Queues'
  BY <1>0, <1>1, <1>a, <1>c, <1>d DEF Queues, unionVars
<1>6. Pipeline'
  BY <1>0, <1>1, <1>a DEF Pipeline, Taken, unionVars, emitVars
<1>7. FinishedChildren'
  BY <1>0, <1>1, <1>a DEF FinishedChildren, unionVars
<1>8. SampleRoom'
  BY <1>0, <1>1, <1>d DEF SampleRoom
<1>. QED
  BY <1>3, <1>4, <1>5, <1>6, <1>7, <1>8 DEF IInv

\* Exchanging the statistics.
LEMMA AggregateKeeps ==
    ASSUME IInv, NEW r \in Ranks, Aggregate(r)
    PROVE  IInv'
<1>0. TypeOK /\ Shape /\ Queues /\ Pipeline /\ FinishedChildren /\ SampleRoom
  BY DEF IInv
<1>1. in' = in /\ Ranks' = Ranks /\ Children' = Children
  BY ScenarioStays DEF Aggregate
<1>2. /\ Len(in.chunks) \in Nat \ {0} /\ Children = 1..Len(in.chunks)
      /\ \A c \in Children, s \in Ranks : in.chunks[c][s] \in Nat
  BY <1>0, ScenarioNumbers DEF Shape
<1>. USE DEF Aggregate, Goto, unionVars, emitVars, downVars
<1>3. TypeOK'
  BY <1>0, <1>1, <1>2 DEF TypeOK, Shape
<1>4. Shape'
  BY <1>0, <1>1, <1>2 DEF Shape
<1>5. Queues'
  BY <1>0, <1>1 DEF Queues, Shape
<1>6. Pipeline'
  BY <1>0, <1>1, <1>2 DEF Pipeline, Taken, Shape
<1>7. FinishedChildren'
  BY <1>0, <1>1, <1>2 DEF FinishedChildren, Shape
<1>8. SampleRoom'
  BY <1>0, <1>1 DEF SampleRoom, Shape
<1>. QED
  BY <1>3, <1>4, <1>5, <1>6, <1>7, <1>8 DEF IInv

\* Replaying the sample and the rest of the input.
LEMMA ReplayKeeps ==
    ASSUME IInv, NEW r \in Ranks, Replay(r)
    PROVE  IInv'
<1>0. TypeOK /\ Shape /\ Queues /\ Pipeline /\ FinishedChildren /\ SampleRoom
  BY DEF IInv
<1>1. in' = in /\ Ranks' = Ranks /\ Children' = Children
  BY ScenarioStays DEF Replay
<1>2. /\ Len(in.chunks) \in Nat \ {0} /\ Children = 1..Len(in.chunks)
      /\ \A c \in Children, s \in Ranks : in.chunks[c][s] \in Nat
  BY <1>0, ScenarioNumbers DEF Shape
<1>a. /\ UNCHANGED <<gathered, unionVars, emitVars, sampled>>
      /\ ch' = ch \/ (ch[r] # <<>> /\ ch' = [ch EXCEPT ![r] = Tail(@)])
  BY DEF Replay
<1>b. ASSUME ch[r] # <<>>, ch' = [ch EXCEPT ![r] = Tail(@)]
      PROVE  /\ IsSequence(ch'[r]) /\ Len(ch'[r]) <= Capacity
             /\ DOMAIN ch' = Ranks /\ \A s \in Ranks \ {r} : ch'[s] = ch[s]
  <2>1. IsSequence(ch[r]) /\ Len(ch[r]) <= Capacity
    BY <1>0 DEF Queues, TypeOK
  <2>2. /\ ch'[r] = Tail(ch[r]) /\ DOMAIN ch' = Ranks
        /\ \A s \in Ranks \ {r} : ch'[s] = ch[s]
    BY <1>0, <1>b DEF Shape
  <2>. QED
    BY <1>b, <2>1, <2>2, TailIsSequence, OrderedUnionAssumption
<1>c. /\ DOMAIN ch' = Ranks
      /\ \A s \in Ranks : IsSequence(ch'[s]) /\ Len(ch'[s]) <= Capacity
  <2>1. CASE ch' = ch
    BY <1>0, <2>1 DEF Shape, Queues, TypeOK
  <2>2. CASE ch[r] # <<>> /\ ch' = [ch EXCEPT ![r] = Tail(@)]
    BY <1>0, <1>b, <2>2 DEF Queues, TypeOK
  <2>. QED
    BY <1>a, <2>1, <2>2
<1>d. /\ DOMAIN sample' = Ranks
      /\ sampler' \in [Ranks -> {"sample", "insert", "aggregate", "replay",
                                 "done"}]
      /\ \A s \in Ranks :
            /\ IsSequence(sample'[s]) /\ Len(sample'[s]) <= MaxChunks
            /\ sampler'[s] = "sample" => Len(sample'[s]) < MaxChunks
  <2>1. \A s \in Ranks :
            /\ IsSequence(sample[s]) /\ Len(sample[s]) <= MaxChunks
            /\ sampler[s] = "sample" => Len(sample[s]) < MaxChunks
    BY <1>0 DEF Queues, TypeOK, SampleRoom
  <2>2. /\ sampler[r] = "replay"
        /\ sampler' = sampler \/ sampler' = [sampler EXCEPT ![r] = "done"]
    BY DEF Replay
  <2>3. /\ sampler' \in [Ranks -> {"sample", "insert", "aggregate", "replay",
                                   "done"}]
        /\ sampler'[r] # "sample"
        /\ \A s \in Ranks \ {r} : sampler'[s] = sampler[s]
    BY <1>0, <2>2 DEF Shape
  <2>4. CASE sample[r] # <<>> /\ sample' = [sample EXCEPT ![r] = Tail(@)]
    <3>1. /\ sample'[r] = Tail(sample[r]) /\ DOMAIN sample' = Ranks
          /\ \A s \in Ranks \ {r} : sample'[s] = sample[s]
      BY <1>0, <2>4 DEF Shape
    <3>2. IsSequence(sample'[r]) /\ Len(sample'[r]) <= MaxChunks
      BY <2>1, <2>4, <3>1, TailIsSequence, OrderedUnionAssumption
    <3>. QED
      BY <2>1, <2>3, <3>1, <3>2
  <2>5. CASE sample' = sample
    BY <1>0, <2>1, <2>3, <2>5 DEF Shape
  <2>. QED
    BY <2>4, <2>5 DEF Replay
<1>3. TypeOK'
  BY <1>0, <1>1, <1>a, <1>c, <1>d DEF TypeOK, unionVars, emitVars
<1>4. Shape'
  BY <1>0, <1>1, <1>a, <1>c, <1>d DEF Shape, unionVars, emitVars
<1>5. Queues'
  BY <1>0, <1>1, <1>a, <1>c, <1>d DEF Queues, unionVars
<1>6. Pipeline'
  BY <1>0, <1>1, <1>a DEF Pipeline, Taken, unionVars, emitVars
<1>7. FinishedChildren'
  BY <1>0, <1>1, <1>a DEF FinishedChildren, unionVars
<1>8. SampleRoom'
  BY <1>0, <1>1, <1>d DEF SampleRoom
<1>. QED
  BY <1>3, <1>4, <1>5, <1>6, <1>7, <1>8 DEF IInv

\* The invariant holds at the start.
LEMMA InitInvariant == Init => IInv
<1>. SUFFICES ASSUME Init PROVE IInv
  OBVIOUS
<1>1. /\ Len(in.chunks) \in Nat \ {0} /\ Children = 1..Len(in.chunks)
      /\ \A c \in Children, s \in Ranks : in.chunks[c][s] \in Nat
  BY ScenarioNumbers DEF Init
<1>2. IsSequence(<<>>) /\ Len(<<>>) = 0
  BY EmptySeq DEF IsSequence
<1>. USE DEF Init
<1>3. TypeOK
  BY <1>1, <1>2, OrderedUnionAssumption DEF TypeOK
<1>4. Shape
  BY <1>1 DEF Shape
<1>5. Queues
  BY <1>2 DEF Queues
<1>6. Pipeline
  BY <1>1, <1>2 DEF Pipeline, Taken
<1>7. FinishedChildren
  BY <1>1 DEF FinishedChildren
<1>8. SampleRoom
  BY <1>2, OrderedUnionAssumption DEF SampleRoom
<1>. QED
  BY <1>3, <1>4, <1>5, <1>6, <1>7, <1>8 DEF IInv

\* Every step of a rank keeps it.
LEMMA NextInvariant == IInv /\ [Next]_vars => IInv'
<1>. SUFFICES ASSUME IInv, [Next]_vars PROVE IInv'
  OBVIOUS
<1>1. CASE UNCHANGED vars
  <2>1. /\ Ranks' = Ranks /\ Children' = Children
    BY <1>1, ScenarioStays DEF vars
  <2>. QED
    BY <1>1, <2>1 DEF vars, unionVars, emitVars, downVars, IInv, TypeOK, Shape,
                      Queues, Pipeline, Taken, FinishedChildren, SampleRoom
<1>2. ASSUME NEW r \in Ranks, Step(r) PROVE IInv'
  BY <1>2, ContributeKeeps, GatheredKeeps, ReadKeeps, InsertFinishedKeeps,
     ExchangedKeeps, TakeStoreKeeps, EmitKeeps, DrainKeeps, SampleKeeps,
     AggregateKeeps, ReplayKeeps DEF Step
<1>. QED
  BY <1>1, <1>2 DEF Next

\* A rank that reads a child has not called insert_finished for it, so its
\* chunk goes into an open exchange; no other step changes an exchange.
LEMMA InsertsWhileOpen ==
    ASSUME IInv, [Next]_vars, NEW c \in Children, NEW r \in Ranks,
           <<c, r>> \in finished
    PROVE  exchange'[c][r] = exchange[c][r]
<1>1. CASE exchange' = exchange
  BY <1>1
<1>2. ASSUME NEW s \in Ranks, Read(s) PROVE exchange'[c][r] = exchange[c][r]
  <2>. DEFINE d == Destination(in, child[s], s, index[s])
  <2>1. /\ reader[s] = "read"
        /\ \/ exchange' = exchange
           \/ exchange' = [exchange EXCEPT ![child[s]][s][d] =
                                Append(@, <<child[s], s, index[s]>>)]
    BY <1>2 DEF Read
  <2>. HIDE DEF d
  <2>2. Shape /\ FinishedChildren
    BY DEF IInv
  <2>3. child[s] \in Children /\ Children \subseteq Int
    BY <2>2, ScenarioNumbers DEF Shape
  <2>4. <<child[s], s>> \notin finished
    BY <2>1, <2>2, <2>3 DEF FinishedChildren
  <2>5. c # child[s] \/ r # s
    BY <2>4
  <2>. QED
    BY <2>1, <2>2, <2>5 DEF Shape
<1>3. exchange' = exchange \/ \E s \in Ranks : Read(s)
  BY DEF Next, Step, vars, unionVars, Contribute, Gathered, InsertFinished,
         Exchanged, TakeStore, Emit, Drain, Sample, Aggregate, Replay
<1>. QED
  BY <1>1, <1>2, <1>3

-----------------------------------------------------------------------------
(* Theorems about the specification *)

\* The inductive invariant holds in every reachable state.
THEOREM Invariance == Spec => []IInv
  BY InitInvariant, NextInvariant, PTL DEF Spec

\* ch_out never holds more than Capacity chunks and the sampler never takes
\* more than MaxChunks; emit never takes more children than there are.
THEOREM TypesPreserved == Spec => []TypeOK
<1>1. IInv => TypeOK
  BY DEF IInv
<1>. QED
  BY <1>1, Invariance, PTL

\* After insert_finished a rank adds nothing to the exchange of a child,
\* whatever the estimates were: _exchange_child inserts all the chunks that
\* there are, and the child that is read is always one not finished yet.
THEOREM ExchangesComplete == Spec => FinishedIsFinal
<1>1. IInv /\ [Next]_vars =>
        [\A c \in Children, r \in Ranks :
            <<c, r>> \in finished => exchange'[c][r] = exchange[c][r]]_vars
  BY InsertsWhileOpen
<1>. QED
  BY <1>1, Invariance, PTL DEF Spec, FinishedIsFinal

-----------------------------------------------------------------------------
(* Sequences in the order of the rows *)

\* The chunks of q are in the order of the rows.
Sorted(q) == \A i, j \in DOMAIN q : i < j => Before(q[i], q[j])

\* The chunks of A come before those of B.
AllBefore(A, B) == \A a \in A, b \in B : Before(a, b)

\* Sequences in order, one before the other, make one in order.
LEMMA ConcatenationSorted ==
    ASSUME NEW S, NEW p \in Seq(S), NEW q \in Seq(S), Sorted(p), Sorted(q),
           AllBefore(Range(p), Range(q))
    PROVE  Sorted(p \o q)
<1>1. /\ DOMAIN (p \o q) = 1..(Len(p) + Len(q))
      /\ Len(p) \in Nat /\ Len(q) \in Nat
      /\ DOMAIN p = 1..Len(p) /\ DOMAIN q = 1..Len(q)
  OBVIOUS
<1>2. \A i \in 1..Len(p) : (p \o q)[i] = p[i]
  OBVIOUS
<1>3. \A i \in 1..(Len(p) + Len(q)) :
        i \notin 1..Len(p) => /\ i - Len(p) \in 1..Len(q) /\ i > Len(p)
                              /\ (p \o q)[i] = q[i - Len(p)]
  OBVIOUS
<1>. SUFFICES ASSUME NEW i \in 1..(Len(p) + Len(q)),
                     NEW j \in 1..(Len(p) + Len(q)), i < j
              PROVE  Before((p \o q)[i], (p \o q)[j])
  BY <1>1 DEF Sorted
<1>4. CASE i \in 1..Len(p) /\ j \in 1..Len(p)
  BY <1>1, <1>2, <1>4 DEF Sorted
<1>5. CASE i \in 1..Len(p) /\ j \notin 1..Len(p)
  <2>1. (p \o q)[i] \in Range(p) /\ (p \o q)[j] \in Range(q)
    BY <1>1, <1>2, <1>3, <1>5 DEF Range
  <2>. QED
    BY <2>1 DEF AllBefore
<1>6. CASE i \notin 1..Len(p)
  <2>1. j \notin 1..Len(p) /\ i - Len(p) < j - Len(p)
    BY <1>1, <1>6
  <2>2. /\ i - Len(p) \in DOMAIN q /\ (p \o q)[i] = q[i - Len(p)]
        /\ j - Len(p) \in DOMAIN q /\ (p \o q)[j] = q[j - Len(p)]
    BY <1>1, <1>3, <1>6, <2>1
  <2>. QED
    BY <2>1, <2>2 DEF Sorted
<1>. QED
  BY <1>4, <1>5, <1>6

\* The same for any number of sequences.
LEMMA FlattenedSorted ==
    ASSUME NEW S, NEW q \in Seq(Seq(S)), q # <<>>,
           \A i \in DOMAIN q : Sorted(q[i]),
           \A i, j \in DOMAIN q : i < j => AllBefore(Range(q[i]), Range(q[j]))
    PROVE  /\ FlattenSeq(q) \in Seq(S) /\ Sorted(FlattenSeq(q))
           /\ \A x : x \in Range(FlattenSeq(q)) <=>
                    \E i \in DOMAIN q : x \in Range(q[i])
<1>1. PICK f : Concatenates(f, q, Len(q)) /\ FlattenSeq(q) = f[Len(q)]
  BY Flattened
<1>2. /\ Len(q) \in Nat /\ Len(q) >= 1 /\ DOMAIN q = 1..Len(q)
      /\ \A i \in 1..Len(q) : q[i] \in Seq(S)
  OBVIOUS
<1>3. \A i \in 1..Len(q) : f[i] = IF i = 1 THEN q[i] ELSE f[i - 1] \o q[i]
  BY <1>1 DEF Concatenates
<1>. DEFINE Good(n) == /\ f[n] \in Seq(S) /\ Sorted(f[n])
                       /\ \A x : x \in Range(f[n]) <=> \E i \in 1..n : x \in Range(q[i])
            T == {n \in Nat : n \in 1..Len(q) => Good(n)}
<1>4. 0 \in T
  OBVIOUS
<1>5. ASSUME NEW n \in T PROVE n + 1 \in T
  <2>. SUFFICES ASSUME n + 1 \in 1..Len(q) PROVE Good(n + 1)
    OBVIOUS
  <2>1. CASE n = 0
    <3>1. f[1] = q[1] /\ 1 \in 1..Len(q)
      BY <1>2, <1>3
    <3>2. \A i : i \in 1..1 <=> i = 1
      OBVIOUS
    <3>. QED
      BY <1>2, <2>1, <3>1, <3>2
  <2>2. CASE n # 0
    <3>a. n \in Nat /\ n \in 1..Len(q) /\ (n + 1) - 1 = n /\ n + 1 # 1
      BY <1>2, <2>2
    <3>b. Good(n)
      BY <3>a
    <3>c. f[n + 1] = f[n] \o q[n + 1]
      BY <1>3, <3>a
    <3>1. /\ n \in 1..Len(q) /\ f[n + 1] = f[n] \o q[n + 1]
          /\ f[n] \in Seq(S) /\ Sorted(f[n])
          /\ \A x : x \in Range(f[n]) <=> \E i \in 1..n : x \in Range(q[i])
      BY <3>a, <3>b, <3>c
    <3>2. q[n + 1] \in Seq(S) /\ Sorted(q[n + 1])
      BY <1>2
    <3>3. AllBefore(Range(f[n]), Range(q[n + 1]))
      <4>1. ASSUME NEW a \in Range(f[n]), NEW b \in Range(q[n + 1])
            PROVE  Before(a, b)
        <5>1. PICK i \in 1..n : a \in Range(q[i])
          BY <3>1
        <5>2. i \in DOMAIN q /\ n + 1 \in DOMAIN q /\ i < n + 1
          BY <1>2, <3>1
        <5>. QED
          BY <5>1, <5>2 DEF AllBefore
      <4>. QED
        BY <4>1 DEF AllBefore
    <3>4. /\ f[n] \o q[n + 1] \in Seq(S)
          /\ Range(f[n] \o q[n + 1]) = Range(f[n]) \cup Range(q[n + 1])
      BY <3>1, <3>2, RangeOfConcatenation
    <3>5. Sorted(f[n] \o q[n + 1])
      BY <3>1, <3>2, <3>3, ConcatenationSorted
    <3>6. \A i : i \in 1..(n + 1) <=> i \in 1..n \/ i = n + 1
      BY <3>a
    <3>7. \A x : x \in Range(f[n] \o q[n + 1]) <=>
                 \E i \in 1..(n + 1) : x \in Range(q[i])
      BY <3>1, <3>4, <3>6
    <3>. QED
      BY <3>1, <3>4, <3>5, <3>7
  <2>. QED
    BY <2>1, <2>2
<1>6. T \in SUBSET Nat
  OBVIOUS
<1>. HIDE DEF T
<1>7. T = Nat
  BY <1>4, <1>5, <1>6, Induction
<1>. HIDE DEF Good
<1>8. Good(Len(q))
  BY <1>2, <1>7 DEF T
<1>. QED
  BY <1>1, <1>2, <1>8 DEF Good

-----------------------------------------------------------------------------
(* Sums *)

\* f has the sums of the first entries of a, as SumBefore computes them.
Sums(f, a, n) ==
    f = [k \in 0..n |-> IF k = 0 THEN 0 ELSE f[k - 1] + a[k - 1]]

\* There is such a function for every a ...
LEMMA SumsExist ==
    ASSUME NEW a, NEW n \in Nat
    PROVE  \E f : Sums(f, a, n)
<1>. DEFINE S == {m \in Nat : \E f : Sums(f, a, m)}
<1>1. 0 \in S
  <2>. DEFINE f == [k \in 0..0 |-> 0]
  <2>1. f = [k \in 0..0 |-> IF k = 0 THEN 0 ELSE f[k - 1] + a[k - 1]]
    OBVIOUS
  <2>. HIDE DEF f
  <2>2. \E g : Sums(g, a, 0)
    BY <2>1 DEF Sums
  <2>. QED
    BY <2>2
<1>2. ASSUME NEW m \in S PROVE m + 1 \in S
  <2>1. PICK f : Sums(f, a, m)
    OBVIOUS
  <2>. DEFINE g == [k \in 0..(m + 1) |->
                      IF k = m + 1 THEN f[m] + a[m] ELSE f[k]]
  <2>2. ASSUME NEW k \in 0..(m + 1)
        PROVE  g[k] = IF k = 0 THEN 0 ELSE g[k - 1] + a[k - 1]
    <3>1. CASE k = m + 1
      BY <3>1
    <3>2. CASE k # m + 1
      <4>1. k \in 0..m /\ (k # 0 => k - 1 \in 0..m)
        BY <3>2
      <4>2. f[k] = IF k = 0 THEN 0 ELSE f[k - 1] + a[k - 1]
        BY <2>1, <4>1 DEF Sums
      <4>3. g[k] = f[k] /\ (k # 0 => g[k - 1] = f[k - 1])
        BY <3>2, <4>1
      <4>. QED
        BY <4>2, <4>3
    <3>. QED
      BY <3>1, <3>2
  <2>3. g = [k \in 0..(m + 1) |-> g[k]]
    OBVIOUS
  <2>. HIDE DEF g
  <2>4. g = [k \in 0..(m + 1) |-> IF k = 0 THEN 0 ELSE g[k - 1] + a[k - 1]]
    BY <2>2, <2>3
  <2>5. \E h : Sums(h, a, m + 1)
    BY <2>4 DEF Sums
  <2>. QED
    BY <2>5
<1>3. S \in SUBSET Nat
  OBVIOUS
<1>. HIDE DEF S
<1>4. S = Nat
  BY <1>1, <1>2, <1>3, Induction
<1>. QED
  BY <1>4 DEF S

\* ... and its values are determined.
LEMMA SumsAgree ==
    ASSUME NEW a, NEW m \in Nat, NEW n \in Nat, NEW f, NEW g,
           Sums(f, a, m), Sums(g, a, n)
    PROVE  \A k \in Nat : k <= m /\ k <= n => f[k] = g[k]
<1>. DEFINE S == {k \in Nat : k <= m /\ k <= n => f[k] = g[k]}
<1>0. /\ \A k \in 0..m : f[k] = IF k = 0 THEN 0 ELSE f[k - 1] + a[k - 1]
      /\ \A k \in 0..n : g[k] = IF k = 0 THEN 0 ELSE g[k - 1] + a[k - 1]
  BY DEF Sums
<1>1. 0 \in S
  BY <1>0
<1>2. ASSUME NEW k \in S PROVE k + 1 \in S
  <2>. SUFFICES ASSUME k + 1 <= m, k + 1 <= n PROVE f[k + 1] = g[k + 1]
    OBVIOUS
  <2>1. /\ k \in Nat /\ k + 1 \in 0..m /\ k + 1 \in 0..n /\ k + 1 # 0
        /\ (k + 1) - 1 = k
    OBVIOUS
  <2>2. f[k] = g[k]
    BY <2>1
  <2>3. f[k + 1] = f[k] + a[k] /\ g[k + 1] = g[k] + a[k]
    BY <1>0, <2>1
  <2>. QED
    BY <2>2, <2>3
<1>3. S \in SUBSET Nat
  OBVIOUS
<1>. HIDE DEF S
<1>4. S = Nat
  BY <1>1, <1>2, <1>3, Induction
<1>. QED
  BY <1>4 DEF S

\* What SumBefore computes.
LEMMA Summed ==
    ASSUME NEW a, NEW n \in Nat
    PROVE  \E f : Sums(f, a, n) /\ SumBefore(a, n) = f[n]
<1>. DEFINE f == CHOOSE g : g = [k \in 0..n |->
                                  IF k = 0 THEN 0 ELSE g[k - 1] + a[k - 1]]
<1>1. \E g : g = [k \in 0..n |-> IF k = 0 THEN 0 ELSE g[k - 1] + a[k - 1]]
  BY SumsExist DEF Sums
<1>2. f = [k \in 0..n |-> IF k = 0 THEN 0 ELSE f[k - 1] + a[k - 1]]
  BY <1>1
<1>3. SumBefore(a, n) = f[n]
  BY Zenon DEF SumBefore
<1>. QED
  BY <1>2, <1>3 DEF Sums

\* The sum of no entries, and of one entry more.
LEMMA SumSteps ==
    ASSUME NEW a, NEW n \in Nat
    PROVE  /\ SumBefore(a, 0) = 0
           /\ SumBefore(a, n + 1) = SumBefore(a, n) + a[n]
<1>1. PICK z : Sums(z, a, 0) /\ SumBefore(a, 0) = z[0]
  BY Summed
<1>2. PICK f : Sums(f, a, n) /\ SumBefore(a, n) = f[n]
  BY Summed
<1>3. n + 1 \in Nat
  OBVIOUS
<1>4. PICK g : Sums(g, a, n + 1) /\ SumBefore(a, n + 1) = g[n + 1]
  BY <1>3, Summed
<1>5. f[n] = g[n]
  BY <1>2, <1>3, <1>4, SumsAgree
<1>6. \A k \in 0..(n + 1) : g[k] = IF k = 0 THEN 0 ELSE g[k - 1] + a[k - 1]
  BY <1>4 DEF Sums
<1>7. g[n + 1] = g[n] + a[n]
  <2>1. n + 1 \in 0..(n + 1) /\ n + 1 # 0 /\ (n + 1) - 1 = n
    OBVIOUS
  <2>. QED
    BY <1>6, <2>1
<1>8. z[0] = 0
  BY <1>1 DEF Sums
<1>. QED
  BY <1>1, <1>2, <1>4, <1>5, <1>7, <1>8

\* Sums of numbers are numbers.
LEMMA SumIsNumber ==
    ASSUME NEW m \in Nat, NEW a \in [0..(m - 1) -> Nat], NEW n \in 0..m
    PROVE  SumBefore(a, n) \in Nat
<1>. DEFINE S == {k \in Nat : k <= m => SumBefore(a, k) \in Nat}
<1>1. 0 \in S
  BY SumSteps
<1>2. ASSUME NEW k \in S PROVE k + 1 \in S
  <2>. SUFFICES ASSUME k + 1 <= m PROVE SumBefore(a, k + 1) \in Nat
    OBVIOUS
  <2>1. k \in Nat /\ SumBefore(a, k) \in Nat /\ k \in 0..(m - 1)
    OBVIOUS
  <2>2. a[k] \in Nat
    BY <2>1
  <2>3. SumBefore(a, k + 1) = SumBefore(a, k) + a[k]
    BY <2>1, SumSteps
  <2>. QED
    BY <2>1, <2>2, <2>3
<1>3. S \in SUBSET Nat
  OBVIOUS
<1>. HIDE DEF S
<1>4. S = Nat
  BY <1>1, <1>2, <1>3, Induction
<1>. QED
  BY <1>4 DEF S

\* An entry and those before it are among the entries before a later one.
LEMMA SumGrows ==
    ASSUME NEW m \in Nat, NEW a \in [0..(m - 1) -> Nat],
           NEW i \in 0..(m - 1), NEW j \in 0..m, i < j
    PROVE  /\ SumBefore(a, i) \in Nat /\ SumBefore(a, j) \in Nat
           /\ a[i] \in Nat /\ SumBefore(a, i) + a[i] <= SumBefore(a, j)
<1>. DEFINE S == {k \in Nat : i < k /\ k <= m =>
                    SumBefore(a, i) + a[i] <= SumBefore(a, k)}
<1>a. i \in Nat /\ i \in 0..m /\ a[i] \in Nat
  OBVIOUS
<1>b. SumBefore(a, i) \in Nat /\ SumBefore(a, j) \in Nat
  BY <1>a, SumIsNumber
<1>c. SumBefore(a, i + 1) = SumBefore(a, i) + a[i]
  BY <1>a, SumSteps
<1>0. /\ i \in Nat /\ i \in 0..m /\ a[i] \in Nat /\ SumBefore(a, i) \in Nat
      /\ SumBefore(a, j) \in Nat /\ SumBefore(a, i + 1) = SumBefore(a, i) + a[i]
  BY <1>a, <1>b, <1>c
<1>1. 0 \in S
  BY <1>0
<1>2. ASSUME NEW k \in S PROVE k + 1 \in S
  <2>. SUFFICES ASSUME i < k + 1, k + 1 <= m
                PROVE  SumBefore(a, i) + a[i] <= SumBefore(a, k + 1)
    OBVIOUS
  <2>1. /\ k \in Nat /\ k \in 0..(m - 1) /\ k \in 0..m /\ (k = i \/ i < k)
        /\ k <= m
    BY <1>0
  <2>2. a[k] \in Nat /\ SumBefore(a, k) \in Nat
    BY <2>1, SumIsNumber
  <2>3. SumBefore(a, k + 1) = SumBefore(a, k) + a[k]
    BY <2>1, SumSteps
  <2>4. CASE k = i
    BY <1>0, <2>2, <2>3, <2>4
  <2>5. CASE i < k
    <3>1. SumBefore(a, i) + a[i] <= SumBefore(a, k)
      BY <2>1, <2>5
    <3>. QED
      BY <1>0, <2>2, <2>3, <3>1
  <2>. QED
    BY <2>1, <2>4, <2>5
<1>3. S \in SUBSET Nat
  OBVIOUS
<1>. HIDE DEF S
<1>4. S = Nat
  BY <1>1, <1>2, <1>3, Induction
<1>. QED
  BY <1>0, <1>4 DEF S

\* Every number below the sum belongs to an entry.
LEMMA SumFinds ==
    ASSUME NEW m \in Nat, NEW a \in [0..(m - 1) -> Nat], NEW p \in Nat,
           p < SumBefore(a, m)
    PROVE  \E i \in 0..(m - 1) :
              SumBefore(a, i) <= p /\ p < SumBefore(a, i) + a[i]
<1>. DEFINE S == {k \in Nat : k <= m /\ p < SumBefore(a, k)}
<1>1. S \in SUBSET Nat /\ S # {}
  OBVIOUS
<1>2. \A k \in S : k \in Nat /\ k <= m /\ p < SumBefore(a, k)
  OBVIOUS
<1>3. \A k \in Nat : k <= m /\ p < SumBefore(a, k) => k \in S
  OBVIOUS
<1>. HIDE DEF S
<1>4. PICK k \in S : \A l \in S : k <= l
  BY <1>1, Least
<1>5. k # 0
  BY <1>2, SumSteps
<1>6. k - 1 \in Nat /\ k - 1 \in 0..(m - 1) /\ k - 1 <= m /\ (k - 1) + 1 = k
      /\ k - 1 \in 0..m
  BY <1>2, <1>5
<1>7. SumBefore(a, k - 1) <= p
  <2>1. SumBefore(a, k - 1) \in Nat
    BY <1>6, SumIsNumber
  <2>2. ~(k <= k - 1)
    BY <1>2, <1>6
  <2>3. k - 1 \notin S
    BY <1>4, <2>2
  <2>4. ~(p < SumBefore(a, k - 1))
    BY <1>3, <1>6, <2>3
  <2>. QED
    BY <2>1, <2>4
<1>8. SumBefore(a, (k - 1) + 1) = SumBefore(a, k - 1) + a[k - 1]
  BY <1>6, SumSteps
<1>. QED
  BY <1>2, <1>6, <1>7, <1>8

-----------------------------------------------------------------------------
(* The plan: blocks of estimated chunks, and where a chunk goes *)

\* The children and the ranks of a scenario.
ChildrenOf(s) == 1..Len(s.chunks)
RanksOf(s) == 0..(s.nranks - 1)

\* Estimates are numbers.
LEMMA EstimateNumbers ==
    ASSUME NEW s \in Scenarios
    PROVE  /\ s.nranks \in Nat \ {0} /\ Len(s.chunks) \in Nat \ {0}
           /\ \A c \in ChildrenOf(s) :
                \A r \in RanksOf(s) :
                    /\ s.counts[c][r] \in Nat /\ s.chunks[c][r] \in Nat
                    /\ Count(s, c, r) \in Nat
<1>1. /\ s.nranks \in Nat \ {0}
      /\ s.chunks \in Seq([0..(s.nranks - 1) -> Nat])
      /\ s.counts \in Seq([0..(s.nranks - 1) -> Nat])
      /\ Len(s.chunks) > 0 /\ Len(s.counts) = Len(s.chunks)
  BY ScenariosAssumption
<1>2. ASSUME NEW c \in ChildrenOf(s)
      PROVE  /\ s.counts[c] \in [0..(s.nranks - 1) -> Nat]
             /\ s.chunks[c] \in [0..(s.nranks - 1) -> Nat]
  BY <1>1 DEF ChildrenOf
<1>3. ASSUME NEW c \in ChildrenOf(s), NEW r \in RanksOf(s)
      PROVE  /\ s.counts[c][r] \in Nat /\ s.chunks[c][r] \in Nat
             /\ Count(s, c, r) \in Nat
  BY <1>2 DEF RanksOf, Count
<1>4. Len(s.chunks) \in Nat
  BY <1>1
<1>. QED
  BY <1>1, <1>3, <1>4

\* So are the sums over a child and over all children.
LEMMA PlanNumbers ==
    ASSUME NEW s \in Scenarios
    PROVE  /\ \A c \in ChildrenOf(s) :
                /\ ChildCounts(s, c) \in [0..(s.nranks - 1) -> Nat]
                /\ \A r \in RanksOf(s) :
                    ChildCounts(s, c)[r] = Count(s, c, r)
           /\ ChildTotals(s) \in [0..(Len(s.chunks) - 1) -> Nat]
           /\ \A c \in ChildrenOf(s) : ChildTotals(s)[c - 1] =
                SumBefore(ChildCounts(s, c), s.nranks)
           /\ Total(s) \in Nat
<1>1. /\ s.nranks \in Nat \ {0} /\ Len(s.chunks) \in Nat \ {0}
      /\ \A c \in ChildrenOf(s) :
            \A r \in RanksOf(s) : Count(s, c, r) \in Nat
  BY EstimateNumbers
<1>2. ASSUME NEW c \in ChildrenOf(s)
      PROVE  /\ ChildCounts(s, c) \in [0..(s.nranks - 1) -> Nat]
             /\ \A r \in RanksOf(s) : ChildCounts(s, c)[r] = Count(s, c, r)
  BY <1>1 DEF ChildCounts, RanksOf
<1>3. ASSUME NEW c \in ChildrenOf(s)
      PROVE  SumBefore(ChildCounts(s, c), s.nranks) \in Nat
  <2>1. s.nranks \in 0..s.nranks
    BY <1>1
  <2>. QED
    BY <1>1, <1>2, <2>1, SumIsNumber
<1>4. \A k \in 0..(Len(s.chunks) - 1) :
        k + 1 \in ChildrenOf(s)
  BY <1>1 DEF ChildrenOf
<1>5. ChildTotals(s) \in [0..(Len(s.chunks) - 1) -> Nat]
  BY <1>3, <1>4 DEF ChildTotals
<1>6. ASSUME NEW c \in ChildrenOf(s)
      PROVE  ChildTotals(s)[c - 1] = SumBefore(ChildCounts(s, c), s.nranks)
  <2>1. c - 1 \in 0..(Len(s.chunks) - 1) /\ (c - 1) + 1 = c
    BY <1>1 DEF ChildrenOf
  <2>. QED
    BY <2>1 DEF ChildTotals
<1>7. Total(s) \in Nat
  <2>1. Len(s.chunks) \in 0..Len(s.chunks)
    BY <1>1
  <2>. QED
    BY <1>1, <1>5, <2>1, SumIsNumber DEF Total
<1>. QED
  BY <1>2, <1>5, <1>6, <1>7

\* The estimated chunks of a rank and child lie within the child's, and the
\* child's within the total.
LEMMA BlockWithin ==
    ASSUME NEW s \in Scenarios, NEW c \in ChildrenOf(s), NEW r \in RanksOf(s)
    PROVE  /\ SumBefore(ChildTotals(s), c - 1) \in Nat
           /\ SumBefore(ChildCounts(s, c), r) \in Nat
           /\ Offset(s, c, r) \in Nat /\ Count(s, c, r) \in Nat
           /\ Offset(s, c, r) + Count(s, c, r) <=
                SumBefore(ChildTotals(s), c - 1) + ChildTotals(s)[c - 1]
           /\ SumBefore(ChildTotals(s), c - 1) + ChildTotals(s)[c - 1]
                <= Total(s)
           /\ Offset(s, c, r) + Count(s, c, r) <= Total(s)
<1>1. s.nranks \in Nat \ {0} /\ Len(s.chunks) \in Nat \ {0}
  BY EstimateNumbers
<1>2. /\ ChildCounts(s, c) \in [0..(s.nranks - 1) -> Nat]
      /\ ChildCounts(s, c)[r] = Count(s, c, r)
      /\ ChildTotals(s) \in [0..(Len(s.chunks) - 1) -> Nat]
      /\ ChildTotals(s)[c - 1] = SumBefore(ChildCounts(s, c), s.nranks)
  BY PlanNumbers
<1>3. /\ r \in 0..(s.nranks - 1) /\ s.nranks \in 0..s.nranks /\ r < s.nranks
      /\ c - 1 \in 0..(Len(s.chunks) - 1)
      /\ Len(s.chunks) \in 0..Len(s.chunks) /\ c - 1 < Len(s.chunks)
  BY <1>1 DEF ChildrenOf, RanksOf
<1>4. /\ SumBefore(ChildCounts(s, c), r) \in Nat
      /\ ChildCounts(s, c)[r] \in Nat
      /\ SumBefore(ChildCounts(s, c), s.nranks) \in Nat
      /\ SumBefore(ChildCounts(s, c), r) + ChildCounts(s, c)[r]
            <= SumBefore(ChildCounts(s, c), s.nranks)
  BY <1>1, <1>2, <1>3, SumGrows
<1>5. /\ SumBefore(ChildTotals(s), c - 1) \in Nat
      /\ ChildTotals(s)[c - 1] \in Nat /\ Total(s) \in Nat
      /\ SumBefore(ChildTotals(s), c - 1) + ChildTotals(s)[c - 1] <= Total(s)
  BY <1>1, <1>2, <1>3, SumGrows DEF Total
<1>6. Offset(s, c, r) =
        SumBefore(ChildTotals(s), c - 1) + SumBefore(ChildCounts(s, c), r)
  BY DEF Offset
<1>. QED
  BY <1>2, <1>4, <1>5, <1>6

\* The blocks follow each other in the order of children and ranks.
LEMMA BlocksInOrder ==
    ASSUME NEW s \in Scenarios, NEW c \in ChildrenOf(s), NEW r \in RanksOf(s),
           NEW d \in ChildrenOf(s), NEW t \in RanksOf(s),
           c < d \/ (c = d /\ r < t)
    PROVE  Offset(s, c, r) + Count(s, c, r) <= Offset(s, d, t)
<1>1. s.nranks \in Nat \ {0} /\ Len(s.chunks) \in Nat \ {0}
  BY EstimateNumbers
<1>2. /\ Offset(s, c, r) \in Nat /\ Count(s, c, r) \in Nat
      /\ Offset(s, c, r) + Count(s, c, r) <=
            SumBefore(ChildTotals(s), c - 1) + ChildTotals(s)[c - 1]
  BY BlockWithin
<1>3. /\ SumBefore(ChildTotals(s), d - 1) \in Nat
      /\ SumBefore(ChildCounts(s, d), t) \in Nat
      /\ Offset(s, d, t) = SumBefore(ChildTotals(s), d - 1)
                            + SumBefore(ChildCounts(s, d), t)
  BY BlockWithin DEF Offset
<1>4. CASE c < d
  <2>1. /\ c - 1 \in 0..(Len(s.chunks) - 1) /\ d - 1 \in 0..Len(s.chunks)
        /\ c - 1 < d - 1
    BY <1>1, <1>4 DEF ChildrenOf
  <2>2. ChildTotals(s) \in [0..(Len(s.chunks) - 1) -> Nat]
    BY PlanNumbers
  <2>3. /\ SumBefore(ChildTotals(s), c - 1) \in Nat
        /\ ChildTotals(s)[c - 1] \in Nat
        /\ SumBefore(ChildTotals(s), c - 1) + ChildTotals(s)[c - 1]
            <= SumBefore(ChildTotals(s), d - 1)
    BY <1>1, <2>1, <2>2, SumGrows
  <2>. QED
    BY <1>2, <1>3, <2>3
<1>5. CASE c = d /\ r < t
  <2>1. /\ r \in 0..(s.nranks - 1) /\ t \in 0..s.nranks
    BY <1>1 DEF RanksOf
  <2>2. /\ ChildCounts(s, c) \in [0..(s.nranks - 1) -> Nat]
        /\ ChildCounts(s, c)[r] = Count(s, c, r)
    BY PlanNumbers
  <2>3. /\ SumBefore(ChildCounts(s, c), r) \in Nat
        /\ SumBefore(ChildCounts(s, c), r) + ChildCounts(s, c)[r]
            <= SumBefore(ChildCounts(s, c), t)
    BY <1>1, <1>5, <2>1, <2>2, SumGrows
  <2>4. Offset(s, c, r) = SumBefore(ChildTotals(s), c - 1)
                            + SumBefore(ChildCounts(s, c), r)
    BY DEF Offset
  <2>5. d = c
    BY <1>5
  <2>. QED
    BY <1>2, <1>3, <2>2, <2>3, <2>4, <2>5
<1>. QED
  BY <1>4, <1>5

\* Every partition lies in a block.
LEMMA BlocksCover ==
    ASSUME NEW s \in Scenarios, NEW p \in Nat, p < Total(s)
    PROVE  \E c \in ChildrenOf(s), r \in RanksOf(s) :
              Offset(s, c, r) <= p /\ p < Offset(s, c, r) + Count(s, c, r)
<1>1. s.nranks \in Nat \ {0} /\ Len(s.chunks) \in Nat \ {0}
  BY EstimateNumbers
<1>2. ChildTotals(s) \in [0..(Len(s.chunks) - 1) -> Nat]
  BY PlanNumbers
<1>3. PICK k \in 0..(Len(s.chunks) - 1) :
        /\ SumBefore(ChildTotals(s), k) <= p
        /\ p < SumBefore(ChildTotals(s), k) + ChildTotals(s)[k]
  BY <1>1, <1>2, SumFinds DEF Total
<1>4. PICK c \in ChildrenOf(s) : k = c - 1
  <2>1. k + 1 \in ChildrenOf(s) /\ k = (k + 1) - 1
    BY <1>1 DEF ChildrenOf
  <2>. QED
    BY <2>1
<1>5. /\ ChildCounts(s, c) \in [0..(s.nranks - 1) -> Nat]
      /\ ChildTotals(s)[k] = SumBefore(ChildCounts(s, c), s.nranks)
  BY <1>4, PlanNumbers
<1>6. SumBefore(ChildTotals(s), k) \in Nat
  <2>1. k \in 0..Len(s.chunks)
    BY <1>1
  <2>. QED
    BY <1>1, <1>2, <2>1, SumIsNumber
<1>7. PICK w \in Nat : w = p - SumBefore(ChildTotals(s), k)
  BY <1>3, <1>6
<1>8. w < SumBefore(ChildCounts(s, c), s.nranks)
  <2>1. ChildTotals(s)[k] \in Nat
    BY <1>2
  <2>. QED
    BY <1>3, <1>5, <1>6, <1>7, <2>1
<1>9. PICK r \in 0..(s.nranks - 1) :
        /\ SumBefore(ChildCounts(s, c), r) <= w
        /\ w < SumBefore(ChildCounts(s, c), r) + ChildCounts(s, c)[r]
  BY <1>1, <1>5, <1>8, SumFinds
<1>10. /\ r \in RanksOf(s) /\ ChildCounts(s, c)[r] = Count(s, c, r)
       /\ SumBefore(ChildCounts(s, c), r) \in Nat /\ Count(s, c, r) \in Nat
  <2>1. r \in RanksOf(s)
    BY DEF RanksOf
  <2>. QED
    BY <2>1, PlanNumbers, BlockWithin
<1>11. Offset(s, c, r) = SumBefore(ChildTotals(s), k)
                            + SumBefore(ChildCounts(s, c), r)
  BY <1>4 DEF Offset
<1>12. Offset(s, c, r) <= p /\ p < Offset(s, c, r) + Count(s, c, r)
  BY <1>6, <1>7, <1>9, <1>10, <1>11
<1>. QED
  BY <1>10, <1>12

\* The partition of a chunk, when there are any.
Partition(s, c, r, i) ==
    LET last == Offset(s, c, r)
                    + (IF Count(s, c, r) = 0 THEN 0 ELSE Count(s, c, r) - 1)
    IN  IF i < Count(s, c, r) THEN Offset(s, c, r) + i
        ELSE IF last < Total(s) THEN last ELSE Total(s) - 1

\* A chunk goes to the rank that owns its partition.
LEMMA DestinationOwns ==
    ASSUME NEW s \in Scenarios, NEW c \in ChildrenOf(s), NEW r \in RanksOf(s),
           NEW i \in Nat
    PROVE  /\ Total(s) = 0 => Destination(s, c, r, i) = 0
           /\ Total(s) # 0 =>
                /\ Partition(s, c, r, i) \in 0..(Total(s) - 1)
                /\ Destination(s, c, r, i) =
                    PartitionOwner(Partition(s, c, r, i), s.nranks, Total(s))
<1>1. /\ Offset(s, c, r) \in Nat /\ Count(s, c, r) \in Nat
      /\ Total(s) \in Nat /\ Offset(s, c, r) + Count(s, c, r) <= Total(s)
  BY BlockWithin, PlanNumbers
<1>2. CASE Total(s) = 0
  BY <1>1, <1>2 DEF Destination, OverflowDestination
<1>3. CASE Total(s) # 0
  <2>1. Partition(s, c, r, i) \in 0..(Total(s) - 1)
    BY <1>1, <1>3 DEF Partition
  <2>2. Destination(s, c, r, i) =
            PartitionOwner(Partition(s, c, r, i), s.nranks, Total(s))
    BY <1>3 DEF Partition, Destination, OverflowDestination
  <2>. QED
    BY <1>3, <2>1, <2>2
<1>. QED
  BY <1>2, <1>3

\* Chunks that come later in the rows go to the same or to later ranks, whether
\* they were estimated or not.
LEMMA DestinationsInOrder ==
    ASSUME NEW s \in Scenarios, NEW c \in ChildrenOf(s), NEW r \in RanksOf(s),
           NEW i \in Nat, NEW d \in ChildrenOf(s), NEW t \in RanksOf(s),
           NEW j \in Nat, Before(<<c, r, i>>, <<d, t, j>>)
    PROVE  /\ Destination(s, c, r, i) \in RanksOf(s)
           /\ Destination(s, d, t, j) \in RanksOf(s)
           /\ Destination(s, c, r, i) <= Destination(s, d, t, j)
<1>1. s.nranks \in Nat \ {0}
  BY EstimateNumbers
<1>2. /\ Offset(s, c, r) \in Nat /\ Count(s, c, r) \in Nat
      /\ Offset(s, d, t) \in Nat /\ Count(s, d, t) \in Nat
      /\ Total(s) \in Nat
      /\ Offset(s, c, r) + Count(s, c, r) <= Total(s)
      /\ Offset(s, d, t) + Count(s, d, t) <= Total(s)
  BY BlockWithin, PlanNumbers
<1>3. /\ c \in Nat /\ d \in Nat /\ r \in Nat /\ t \in Nat
  BY <1>1, EstimateNumbers DEF ChildrenOf, RanksOf
<1>4. \/ c < d \/ (c = d /\ r < t)
      \/ (c = d /\ r = t /\ i < j)
  BY DEF Before
<1>5. CASE Total(s) = 0
  <2>1. Destination(s, c, r, i) = 0 /\ Destination(s, d, t, j) = 0
    BY <1>5, DestinationOwns
  <2>. QED
    BY <1>1, <2>1 DEF RanksOf
<1>6. CASE Total(s) # 0
  <2>1. Partition(s, c, r, i) <= Partition(s, d, t, j)
    <3>1. CASE c < d \/ (c = d /\ r < t)
      <4>1. Offset(s, c, r) + Count(s, c, r) <= Offset(s, d, t)
        BY <3>1, BlocksInOrder
      <4>. QED
        BY <1>2, <1>6, <4>1 DEF Partition
    <3>2. CASE c = d /\ r = t /\ i < j
      BY <1>2, <1>6, <3>2 DEF Partition
    <3>. QED
      BY <1>4, <3>1, <3>2
  <2>2. /\ Partition(s, c, r, i) \in 0..(Total(s) - 1)
        /\ Partition(s, d, t, j) \in 0..(Total(s) - 1)
        /\ Destination(s, c, r, i) =
            PartitionOwner(Partition(s, c, r, i), s.nranks, Total(s))
        /\ Destination(s, d, t, j) =
            PartitionOwner(Partition(s, d, t, j), s.nranks, Total(s))
    BY <1>6, DestinationOwns
  <2>3. Total(s) \in Nat \ {0}
    BY <1>2, <1>6
  <2>4. /\ PartitionOwner(Partition(s, c, r, i), s.nranks, Total(s))
            \in 0..(s.nranks - 1)
        /\ PartitionOwner(Partition(s, c, r, i), s.nranks, Total(s)) <=
            PartitionOwner(Partition(s, d, t, j), s.nranks, Total(s))
    BY <1>1, <2>1, <2>2, <2>3, OwnersInOrder
  <2>5. Partition(s, d, t, j) <= Partition(s, d, t, j)
    BY <1>2, <2>2
  <2>6. PartitionOwner(Partition(s, d, t, j), s.nranks, Total(s))
            \in 0..(s.nranks - 1)
    BY <1>1, <2>2, <2>3, <2>5, OwnersInOrder
  <2>. QED
    BY <2>2, <2>4, <2>6 DEF RanksOf
<1>. QED
  BY <1>5, <1>6

-----------------------------------------------------------------------------
(* The order invariant *)

\* The rank that owns a chunk.
Owner(x) == Destination(in, x[1], x[2], x[3])

\* The chunks of a child that a rank has read.
Progress(c, s) ==
    IF c < child[s] THEN in.chunks[c][s]
    ELSE IF c = child[s] THEN index[s] ELSE 0

\* The chunks that the downstream actor of a rank has replayed or sampled, and
\* those that emit has sent or is sending, one after the other.
Line(r) == (output[r] \o sample[r]) \o (ch[r] \o store[r])

\* Everything that is exchanged, queued, sent and replayed is a chunk.
Carried ==
    /\ exchange \in [Children -> [Ranks -> [Ranks -> Seq(Everything)]]]
    /\ exchanged \in [Ranks -> Seq(Seq(Everything))]
    /\ store \in [Ranks -> Seq(Everything)]
    /\ ch \in [Ranks -> Seq(Everything)]
    /\ sample \in [Ranks -> Seq(Everything)]
    /\ output \in [Ranks -> Seq(Everything)]

\* A rank reads a child to its end before insert_finished.
ReadToTheEnd ==
    \A r \in Ranks : reader[r] \in {"exchange", "done"} =>
        index[r] = in.chunks[child[r]][r]

\* A rank has inserted the chunks it has read, each for its owner, in order.
ExchangeHolds ==
    \A c \in Children, s \in Ranks, d \in Ranks :
        /\ Sorted(exchange[c][s][d])
        /\ \A x \in Everything :
            x \in Range(exchange[c][s][d]) <=>
                /\ x[1] = c /\ x[2] = s /\ x[3] < Progress(c, s)
                /\ Owner(x) = d

\* The queue has one entry for every exchanged child that emit has not taken,
\* with all chunks of it that the rank owns, in order.
QueueHolds ==
    \A r \in Ranks : \A k \in DOMAIN exchanged[r] :
        /\ Sorted(exchanged[r][k])
        /\ \A x \in Everything :
            x \in Range(exchanged[r][k]) <=>
                x[1] = emitted[r] + k /\ Owner(x) = r

\* What emit has taken is on its way or replayed, in order and all of it.
LineHolds ==
    \A r \in Ranks :
        /\ Sorted(Line(r))
        /\ \A x \in Everything :
            x \in Range(Line(r)) <=> x[1] <= emitted[r] /\ Owner(x) = r

\* The channel is closed after the last child, and the downstream actor ends
\* when it has replayed what was sampled and sent.
EndsEmpty ==
    \A r \in Ranks :
        /\ r \in closed => emitted[r] = Len(in.chunks) /\ store[r] = <<>>
        /\ sampler[r] = "done" =>
            r \in closed /\ sample[r] = <<>> /\ ch[r] = <<>>

\* The inductive invariant of the order.
OrderInv ==
    /\ Carried /\ ReadToTheEnd /\ ExchangeHolds /\ QueueHolds /\ LineHolds
    /\ EndsEmpty

\* The beginning of a sequence in order is in order.
LEMMA PrefixSorted ==
    ASSUME NEW S, NEW p \in Seq(S), NEW q \in Seq(S), Sorted(p \o q)
    PROVE  Sorted(p)
<1>1. /\ DOMAIN (p \o q) = 1..(Len(p) + Len(q))
      /\ Len(p) \in Nat /\ Len(q) \in Nat /\ DOMAIN p = 1..Len(p)
  OBVIOUS
<1>2. \A i \in 1..Len(p) : (p \o q)[i] = p[i]
  OBVIOUS
<1>3. \A i \in 1..Len(p) : i \in 1..(Len(p) + Len(q))
  BY <1>1
<1>. QED
  BY <1>1, <1>2, <1>3 DEF Sorted

\* One element more.
LEMMA AppendSorted ==
    ASSUME NEW S, NEW q \in Seq(S), NEW x \in S, Sorted(q),
           \A y \in Range(q) : Before(y, x)
    PROVE  /\ Append(q, x) \in Seq(S) /\ Sorted(Append(q, x))
           /\ \A y : y \in Range(Append(q, x)) <=> y \in Range(q) \/ y = x
<1>1. /\ Append(q, x) \in Seq(S) /\ Len(q) \in Nat /\ DOMAIN q = 1..Len(q)
      /\ DOMAIN Append(q, x) = 1..(Len(q) + 1)
  OBVIOUS
<1>2. /\ \A i \in 1..Len(q) : Append(q, x)[i] = q[i]
      /\ Append(q, x)[Len(q) + 1] = x
  OBVIOUS
<1>3. \A i : i \in 1..(Len(q) + 1) <=> i \in 1..Len(q) \/ i = Len(q) + 1
  BY <1>1
<1>4. Sorted(Append(q, x))
  <2>1. ASSUME NEW i \in 1..(Len(q) + 1), NEW j \in 1..(Len(q) + 1), i < j
        PROVE  Before(Append(q, x)[i], Append(q, x)[j])
    <3>1. i \in 1..Len(q)
      BY <1>1, <2>1
    <3>2. CASE j \in 1..Len(q)
      BY <1>1, <1>2, <2>1, <3>1, <3>2 DEF Sorted
    <3>3. CASE j = Len(q) + 1
      BY <1>1, <1>2, <3>1, <3>3 DEF Range
    <3>. QED
      BY <1>3, <3>2, <3>3
  <2>. QED
    BY <1>1, <2>1 DEF Sorted
<1>5. ASSUME NEW y
      PROVE  y \in Range(Append(q, x)) <=> y \in Range(q) \/ y = x
  <2>1. y \in Range(Append(q, x)) <=>
            \E i \in 1..(Len(q) + 1) : y = Append(q, x)[i]
    BY <1>1 DEF Range
  <2>2. y \in Range(q) <=> \E i \in 1..Len(q) : y = q[i]
    BY <1>1 DEF Range
  <2>. QED
    BY <1>2, <1>3, <2>1, <2>2
<1>. QED
  BY <1>1, <1>4, <1>5

\* What a chunk is.
LEMMA ChunkParts ==
    ASSUME in \in Scenarios
    PROVE  /\ Children = ChildrenOf(in) /\ Ranks = RanksOf(in)
           /\ \A x : x \in Everything <=>
                \E c \in Children, s \in Ranks :
                    /\ ~Dropped(in, c, s)
                    /\ \E i \in 0..(in.chunks[c][s] - 1) : x = <<c, s, i>>
<1>1. Children = ChildrenOf(in) /\ Ranks = RanksOf(in)
  BY ScenarioNumbers DEF ChildrenOf, RanksOf, Ranks
<1>2. ASSUME NEW x
      PROVE  x \in Everything <=>
                \E b \in {d \in Children \X Ranks : ~Dropped(in, d[1], d[2])} :
                    x \in {<<b[1], b[2], i>> :
                            i \in 0..(in.chunks[b[1]][b[2]] - 1)}
  BY DEF Everything
<1>3. ASSUME NEW x
      PROVE  (\E b \in {d \in Children \X Ranks : ~Dropped(in, d[1], d[2])} :
                    x \in {<<b[1], b[2], i>> :
                            i \in 0..(in.chunks[b[1]][b[2]] - 1)}) <=>
                \E c \in Children, s \in Ranks :
                    /\ ~Dropped(in, c, s)
                    /\ \E i \in 0..(in.chunks[c][s] - 1) : x = <<c, s, i>>
  <2>1. ASSUME NEW b \in Children \X Ranks, ~Dropped(in, b[1], b[2]),
               x \in {<<b[1], b[2], i>> : i \in 0..(in.chunks[b[1]][b[2]] - 1)}
        PROVE  \E c \in Children, s \in Ranks :
                    /\ ~Dropped(in, c, s)
                    /\ \E i \in 0..(in.chunks[c][s] - 1) : x = <<c, s, i>>
    <3>1. b[1] \in Children /\ b[2] \in Ranks
      OBVIOUS
    <3>2. \E i \in 0..(in.chunks[b[1]][b[2]] - 1) : x = <<b[1], b[2], i>>
      BY <2>1
    <3>. QED
      BY <2>1, <3>1, <3>2
  <2>2. ASSUME NEW c \in Children, NEW s \in Ranks, ~Dropped(in, c, s),
               NEW i \in 0..(in.chunks[c][s] - 1), x = <<c, s, i>>
        PROVE  \E b \in {d \in Children \X Ranks : ~Dropped(in, d[1], d[2])} :
                    x \in {<<b[1], b[2], k>> :
                            k \in 0..(in.chunks[b[1]][b[2]] - 1)}
    <3>1. /\ <<c, s>> \in Children \X Ranks /\ <<c, s>>[1] = c
          /\ <<c, s>>[2] = s
      OBVIOUS
    <3>. QED
      BY <2>2, <3>1
  <2>. QED
    BY <2>1, <2>2
<1>. QED
  BY <1>1, <1>2, <1>3

\* Chunks have their numbers in range, and go to a rank.
LEMMA ChunkNumbers ==
    ASSUME in \in Scenarios, NEW x \in Everything
    PROVE  /\ x[1] \in Children /\ x[2] \in Ranks /\ x[3] \in Nat
           /\ x[3] < in.chunks[x[1]][x[2]] /\ in.chunks[x[1]][x[2]] \in Nat
           /\ ~Dropped(in, x[1], x[2]) /\ x = <<x[1], x[2], x[3]>>
           /\ x[1] \in Nat /\ x[2] \in Nat /\ Owner(x) \in Ranks
<1>1. PICK c \in Children, s \in Ranks :
        /\ ~Dropped(in, c, s)
        /\ \E i \in 0..(in.chunks[c][s] - 1) : x = <<c, s, i>>
  BY ChunkParts
<1>2. PICK i \in 0..(in.chunks[c][s] - 1) : x = <<c, s, i>>
  BY <1>1
<1>3. /\ Children = ChildrenOf(in) /\ Ranks = RanksOf(in)
  BY ChunkParts
<1>4. /\ in.chunks[c][s] \in Nat /\ c \in Nat /\ s \in Nat
  <2>1. in.nranks \in Nat \ {0} /\ Len(in.chunks) \in Nat \ {0}
    BY EstimateNumbers
  <2>. QED
    BY <1>3, <2>1, EstimateNumbers DEF ChildrenOf, RanksOf
<1>5. /\ x[1] = c /\ x[2] = s /\ x[3] = i /\ i \in Nat
      /\ i < in.chunks[c][s]
  BY <1>2, <1>4
<1>6. Before(<<c, s, i>>, <<c, s, i + 1>>) /\ i + 1 \in Nat
  BY <1>5 DEF Before
<1>7. Destination(in, c, s, i) \in Ranks
  BY <1>3, <1>5, <1>6, DestinationsInOrder
<1>. QED
  BY <1>1, <1>2, <1>4, <1>5, <1>7 DEF Owner

\* With the scenario the chunks and their owners stay.
LEMMA ChunksStay ==
    ASSUME in' = in
    PROVE  /\ Ranks' = Ranks /\ Children' = Children
           /\ Everything' = Everything
           /\ \A x : Owner(x)' = Owner(x)
<1>1. Ranks' = Ranks /\ Children' = Children
  BY ScenarioStays
<1>2. Everything' = Everything
  BY <1>1 DEF Everything, Dropped
<1>3. \A x : Owner(x)' = Owner(x)
  BY DEF Owner
<1>. QED
  BY <1>1, <1>2, <1>3

\* What the parts of the invariant depend on.
LEMMA ExchangeStays ==
    ASSUME in' = in, UNCHANGED <<exchange, child, index>>, ExchangeHolds
    PROVE  ExchangeHolds'
<1>1. /\ Ranks' = Ranks /\ Children' = Children /\ Everything' = Everything
      /\ \A x : Owner(x)' = Owner(x)
  BY ChunksStay
<1>2. \A c, s : Progress(c, s)' = Progress(c, s)
  BY DEF Progress
<1>. QED
  BY <1>1, <1>2 DEF ExchangeHolds

\* A step that leaves the exchanges and what was emitted leaves the queues.
LEMMA QueueStays ==
    ASSUME in' = in, UNCHANGED <<exchanged, emitted>>, QueueHolds
    PROVE  QueueHolds'
<1>1. /\ Ranks' = Ranks /\ Everything' = Everything
      /\ \A x : Owner(x)' = Owner(x)
  BY ChunksStay
<1>. QED
  BY <1>1 DEF QueueHolds

\* A step that moves chunks along the line of a rank leaves their order.
LEMMA LineStays ==
    ASSUME in' = in, emitted' = emitted, LineHolds,
           \A r \in Ranks : Line(r)' = Line(r)
    PROVE  LineHolds'
<1>1. /\ Ranks' = Ranks /\ Everything' = Everything
      /\ \A x : Owner(x)' = Owner(x)
  BY ChunksStay
<1>. QED
  BY <1>1 DEF LineHolds

\* The steps that move no chunk and end no child.
LEMMA QuietStepsKeepOrder ==
    ASSUME OrderInv, IInv, NEW r \in Ranks,
           Contribute(r) \/ Gathered(r) \/ InsertFinished(r) \/ Aggregate(r)
             \/ Drain(r)
    PROVE  OrderInv'
<1>1. /\ in' = in
      /\ UNCHANGED <<child, index, exchange, exchanged, emitted, store, ch,
                     sample, output>>
  BY DEF Contribute, Gathered, InsertFinished, Aggregate, Drain, unionVars,
         emitVars, downVars
<1>2. /\ Carried /\ ReadToTheEnd /\ ExchangeHolds /\ QueueHolds /\ LineHolds
      /\ EndsEmpty
  BY DEF OrderInv
<1>3. Ranks' = Ranks /\ Children' = Children /\ Everything' = Everything
  BY <1>1, ChunksStay
<1>4. Carried'
  BY <1>1, <1>2, <1>3 DEF Carried
<1>5. ReadToTheEnd'
  <2>1. CASE Contribute(r) \/ Gathered(r) \/ InsertFinished(r)
    <3>1. /\ reader' = [reader EXCEPT ![r] = "gather"]
             \/ reader' = [reader EXCEPT ![r] = "read"]
             \/ (reader' = [reader EXCEPT ![r] = "exchange"]
                 /\ index[r] = in.chunks[child[r]][r])
      BY <2>1 DEF Contribute, Gathered, InsertFinished, Goto
    <3>2. reader \in [Ranks -> {"insert", "gather", "read", "exchange", "done"}]
      BY DEF IInv, Shape
    <3>. QED
      BY <1>1, <1>2, <1>3, <3>1, <3>2 DEF ReadToTheEnd
  <2>2. CASE Aggregate(r) \/ Drain(r)
    <3>1. reader' = reader
      BY <2>2 DEF Aggregate, Drain, unionVars
    <3>. QED
      BY <1>1, <1>2, <1>3, <3>1 DEF ReadToTheEnd
  <2>. QED
    BY <2>1, <2>2
<1>6. ExchangeHolds'
  BY <1>1, <1>2, ExchangeStays
<1>7. QueueHolds'
  BY <1>1, <1>2, QueueStays
<1>8. LineHolds'
  <2>1. \A s \in Ranks : Line(s)' = Line(s)
    BY <1>1 DEF Line
  <2>. QED
    BY <1>1, <1>2, <2>1, LineStays
<1>9. EndsEmpty'
  <2>1. CASE Contribute(r) \/ Gathered(r) \/ InsertFinished(r)
    <3>1. closed' = closed /\ sampler' = sampler
      BY <2>1 DEF Contribute, Gathered, InsertFinished, emitVars, downVars
    <3>. QED
      BY <1>1, <1>2, <1>3, <3>1 DEF EndsEmpty
  <2>2. CASE Aggregate(r)
    <3>1. /\ closed' = closed
          /\ sampler' = [sampler EXCEPT ![r] = "aggregate"]
             \/ sampler' = [sampler EXCEPT ![r] = "replay"]
      BY <2>2 DEF Aggregate, emitVars
    <3>2. DOMAIN sampler = Ranks
      BY DEF IInv, Shape
    <3>3. \A s \in Ranks : sampler'[s] = "done" => sampler[s] = "done"
      BY <3>1, <3>2
    <3>. QED
      BY <1>1, <1>2, <1>3, <3>1, <3>3 DEF EndsEmpty
  <2>3. CASE Drain(r)
    <3>1. /\ closed' = closed \cup {r} /\ sampler' = sampler
          /\ emitted[r] = Len(in.chunks) /\ store[r] = <<>>
      BY <2>3 DEF Drain, downVars
    <3>. QED
      BY <1>1, <1>2, <1>3, <3>1 DEF EndsEmpty
  <2>. QED
    BY <2>1, <2>2, <2>3
<1>. QED
  BY <1>4, <1>5, <1>6, <1>7, <1>8, <1>9 DEF OrderInv

\* A chunk that is read is put after those of the same child, rank and owner.
LEMMA ReadKeepsOrder ==
    ASSUME OrderInv, IInv, NEW r \in Ranks, Read(r)
    PROVE  OrderInv'
<1>. DEFINE c == child[r]
            i == index[r]
            d == Destination(in, c, r, i)
            x == <<c, r, i>>
<1>1. /\ in' = in /\ reader[r] = "read" /\ i < in.chunks[c][r]
      /\ UNCHANGED <<reader, child, exchanged, emitted, store, ch, closed,
                     sampler, sample, output>>
      /\ exchange' = IF Dropped(in, c, r) THEN exchange
                     ELSE [exchange EXCEPT ![c][r][d] = Append(@, x)]
      /\ index' = [index EXCEPT ![r] = i + 1]
  BY DEF Read, emitVars, downVars
<1>2. /\ Carried /\ ReadToTheEnd /\ ExchangeHolds /\ QueueHolds /\ LineHolds
      /\ EndsEmpty /\ in \in Scenarios
  BY DEF OrderInv, IInv, Shape
<1>3. /\ Ranks' = Ranks /\ Children' = Children /\ Everything' = Everything
      /\ \A y : Owner(y)' = Owner(y)
  BY <1>1, ChunksStay
<1>4. /\ c \in Children /\ i \in Nat /\ index \in [Ranks -> Nat]
      /\ child \in [Ranks -> Children] /\ Children \subseteq Int
      /\ \A b \in Children, s \in Ranks : in.chunks[b][s] \in Nat
  BY <1>2, ScenarioNumbers DEF IInv, Shape
<1>5. ~Dropped(in, c, r) => x \in Everything
  <2>1. i \in 0..(in.chunks[c][r] - 1)
    BY <1>1, <1>4
  <2>. QED
    BY <1>2, <1>4, <2>1, ChunkParts
<1>6. x[1] = c /\ x[2] = r /\ x[3] = i /\ Owner(x) = d
  BY DEF Owner
<1>7. /\ \A b \in Children, s \in Ranks :
            <<b, s>> # <<c, r>> => Progress(b, s)' = Progress(b, s)
      /\ \A b \in Children : b = c =>
            Progress(b, r) = i /\ Progress(b, r)' = i + 1
  <2>1. index'[r] = i + 1 /\ \A s \in Ranks \ {r} : index'[s] = index[s]
    BY <1>1, <1>4
  <2>2. \A b \in Children : b = c =>
            Progress(b, r) = i /\ Progress(b, r)' = i + 1
    BY <1>1, <1>4, <2>1 DEF Progress
  <2>3. ASSUME NEW b \in Children, NEW s \in Ranks, <<b, s>> # <<c, r>>
        PROVE  Progress(b, s)' = Progress(b, s)
    <3>1. CASE s # r
      BY <1>1, <2>1, <3>1 DEF Progress
    <3>2. CASE s = r /\ b # c
      BY <1>1, <3>2 DEF Progress
    <3>. QED
      BY <2>3, <3>1, <3>2
  <2>. QED
    BY <2>2, <2>3
<1>. HIDE DEF c, i, d, x
<1>8. ASSUME Dropped(in, c, r) PROVE Carried' /\ ExchangeHolds'
  <2>1. exchange' = exchange
    BY <1>1, <1>8
  <2>2. Carried'
    BY <1>1, <1>2, <1>3, <2>1 DEF Carried
  <2>3. ExchangeHolds'
    <3>1. ASSUME NEW b \in Children, NEW s \in Ranks, NEW y \in Everything,
                 y[1] = b, y[2] = s
          PROVE  Progress(b, s)' = Progress(b, s)
      <4>1. ~Dropped(in, b, s)
        BY <1>2, <3>1, ChunkNumbers
      <4>2. <<b, s>> # <<c, r>>
        BY <1>8, <4>1
      <4>. QED
        BY <1>7, <4>2
    <3>. QED
      BY <1>2, <1>3, <2>1, <3>1 DEF ExchangeHolds
  <2>. QED
    BY <2>2, <2>3
<1>9. ASSUME ~Dropped(in, c, r) PROVE Carried' /\ ExchangeHolds'
  <2>0. x \in Everything /\ d \in Ranks
    <3>1. x \in Everything
      BY <1>5, <1>9
    <3>. QED
      BY <1>2, <1>6, <3>1, ChunkNumbers
  <2>. DEFINE q == exchange[c][r][d]
  <2>1. /\ exchange \in [Children -> [Ranks -> [Ranks -> Seq(Everything)]]]
        /\ exchange' = [exchange EXCEPT ![c][r][d] = Append(@, x)]
    BY <1>1, <1>2, <1>9 DEF Carried
  <2>2. q \in Seq(Everything) /\ Sorted(q)
        /\ \A y \in Everything : y \in Range(q) <=>
             y[1] = c /\ y[2] = r /\ y[3] < i /\ Owner(y) = d
    BY <1>2, <1>4, <1>7, <2>0, <2>1 DEF ExchangeHolds
  <2>3. /\ exchange'[c][r][d] = Append(q, x)
        /\ \A b \in Children, s \in Ranks, e \in Ranks :
             <<b, s, e>> # <<c, r, d>> =>
                exchange'[b][s][e] = exchange[b][s][e]
    <3>1. exchange'[c][r][d] = Append(q, x)
      BY <1>4, <2>0, <2>1
    <3>2. ASSUME NEW b \in Children, NEW s \in Ranks, NEW e \in Ranks,
                 b # c \/ s # r \/ e # d
          PROVE  exchange'[b][s][e] = exchange[b][s][e]
      BY <1>4, <2>0, <2>1, <3>2
    <3>. QED
      BY <3>1, <3>2
  <2>. HIDE DEF q
  <2>4. \A y \in Range(q) : y \in Everything
    BY <2>2, SeqDef DEF Range
  <2>5. \A y \in Range(q) : Before(y, x)
    BY <1>6, <2>2, <2>4 DEF Before
  <2>6. /\ Append(q, x) \in Seq(Everything) /\ Sorted(Append(q, x))
        /\ \A y : y \in Range(Append(q, x)) <=> y \in Range(q) \/ y = x
    BY <2>0, <2>2, <2>5, AppendSorted
  <2>7. Carried'
    <3>1. exchange' \in [Children -> [Ranks -> [Ranks -> Seq(Everything)]]]
      BY <1>4, <2>0, <2>1, <2>6 DEF q
    <3>. QED
      BY <1>1, <1>2, <1>3, <3>1 DEF Carried
  <2>8. \A y \in Everything : y \in Range(Append(q, x)) <=>
            y[1] = c /\ y[2] = r /\ y[3] < i + 1 /\ Owner(y) = d
    <3>1. ASSUME NEW y \in Everything
          PROVE  y \in Range(Append(q, x)) <=>
                    y[1] = c /\ y[2] = r /\ y[3] < i + 1 /\ Owner(y) = d
      <4>1. y = <<y[1], y[2], y[3]>> /\ y[3] \in Nat
        BY <1>2, ChunkNumbers
      <4>2. y = x <=> y[1] = c /\ y[2] = r /\ y[3] = i
        BY <1>6, <4>1 DEF x
      <4>3. y[3] < i + 1 <=> y[3] < i \/ y[3] = i
        BY <1>4, <4>1
      <4>. QED
        BY <1>6, <2>2, <2>6, <4>2, <4>3
    <3>. QED
      BY <3>1
  <2>9. ExchangeHolds'
    <3>1. ASSUME NEW b \in Children, NEW s \in Ranks, NEW e \in Ranks
          PROVE  /\ Sorted(exchange'[b][s][e])
                 /\ \A y \in Everything :
                        y \in Range(exchange'[b][s][e]) <=>
                            /\ y[1] = b /\ y[2] = s /\ y[3] < Progress(b, s)'
                            /\ Owner(y) = e
      <4>0. /\ Sorted(exchange[b][s][e])
            /\ \A y \in Everything :
                  y \in Range(exchange[b][s][e]) <=>
                     /\ y[1] = b /\ y[2] = s /\ y[3] < Progress(b, s)
                     /\ Owner(y) = e
        BY <1>2 DEF ExchangeHolds
      <4>1. CASE <<b, s, e>> = <<c, r, d>>
        <5>1. b = c /\ s = r /\ e = d
          BY <4>1
        <5>. QED
          BY <1>7, <2>3, <2>6, <2>8, <5>1
      <4>2. CASE <<b, s>> # <<c, r>>
        <5>1. exchange'[b][s][e] = exchange[b][s][e]
          BY <2>3, <4>2
        <5>2. Progress(b, s)' = Progress(b, s)
          BY <1>7, <4>2
        <5>. QED
          BY <4>0, <5>1, <5>2
      <4>3. CASE b = c /\ s = r /\ e # d
        <5>1. exchange'[b][s][e] = exchange[b][s][e]
          BY <2>3, <4>3
        <5>2. Progress(b, s) = i /\ Progress(b, s)' = i + 1
          BY <1>7, <4>3
        <5>3. ASSUME NEW y \in Everything, y[1] = b, y[2] = s, Owner(y) = e
              PROVE  y[3] < i <=> y[3] < i + 1
          <6>1. y = <<y[1], y[2], y[3]>> /\ y[3] \in Nat
            BY <1>2, ChunkNumbers
          <6>2. y[3] # i
            BY <1>6, <4>3, <5>3, <6>1 DEF x
          <6>. QED
            BY <1>4, <6>1, <6>2
        <5>. QED
          BY <4>0, <5>1, <5>2, <5>3
      <4>. QED
        BY <4>1, <4>2, <4>3
    <3>. QED
      BY <1>3, <3>1 DEF ExchangeHolds
  <2>. QED
    BY <2>7, <2>9
<1>10. ReadToTheEnd'
  <2>1. \A s \in Ranks : s # r => index'[s] = index[s]
    BY <1>1, <1>4
  <2>. QED
    BY <1>1, <1>2, <1>3, <2>1 DEF ReadToTheEnd
<1>11. QueueHolds'
  BY <1>1, <1>2, QueueStays
<1>12. LineHolds'
  <2>1. \A s \in Ranks : Line(s)' = Line(s)
    BY <1>1 DEF Line
  <2>. QED
    BY <1>1, <1>2, <2>1, LineStays
<1>13. EndsEmpty'
  BY <1>1, <1>2, <1>3 DEF EndsEmpty
<1>. QED
  BY <1>8, <1>9, <1>10, <1>11, <1>12, <1>13 DEF OrderInv

\* When every rank has finished a child, what a rank takes from its exchange is
\* all it owns of the child, in order.
LEMMA OwnedIsComplete ==
    ASSUME OrderInv, IInv, NEW r \in Ranks, NEW c \in Children,
           \A s \in Ranks : <<c, s>> \in finished
    PROVE  /\ Owned(c, r) \in Seq(Everything) /\ Sorted(Owned(c, r))
           /\ \A x \in Everything : x \in Range(Owned(c, r)) <=>
                x[1] = c /\ Owner(x) = r
<1>. DEFINE q == [k \in 1..in.nranks |-> exchange[c][k - 1][r]]
<1>1. /\ Carried /\ ReadToTheEnd /\ ExchangeHolds /\ in \in Scenarios
      /\ FinishedChildren /\ Shape
  BY DEF OrderInv, IInv, Shape
<1>2. /\ in.nranks \in Nat \ {0} /\ Ranks = 0..(in.nranks - 1)
      /\ Children \subseteq Int
  BY <1>1, EstimateNumbers, ScenarioNumbers DEF Ranks
<1>3. \A k \in 1..in.nranks : k - 1 \in Ranks
  BY <1>2
<1>4. exchange \in [Children -> [Ranks -> [Ranks -> Seq(Everything)]]]
  BY <1>1 DEF Carried
<1>5. \A s \in Ranks : exchange[c][s][r] \in Seq(Everything)
  BY <1>4
<1>6. /\ q \in Seq(Seq(Everything)) /\ q # <<>> /\ DOMAIN q = 1..in.nranks
      /\ \A k \in 1..in.nranks : q[k] = exchange[c][k - 1][r]
  <2>1. q \in [1..in.nranks -> Seq(Everything)]
    BY <1>3, <1>5
  <2>2. \A k \in 1..in.nranks : q[k] = exchange[c][k - 1][r]
    OBVIOUS
  <2>. HIDE DEF q
  <2>3. /\ q \in Seq(Seq(Everything)) /\ Len(q) = in.nranks
        /\ DOMAIN q = 1..in.nranks
    BY <1>2, <2>1, FunctionIsSequence
  <2>4. q # <<>>
    BY <1>2, <2>3
  <2>. QED
    BY <2>2, <2>3, <2>4
<1>. HIDE DEF q
<1>7. ASSUME NEW s \in Ranks
      PROVE  Progress(c, s) = in.chunks[c][s]
  <2>1. c < child[s] \/ (c = child[s] /\ reader[s] \in {"exchange", "done"})
    BY <1>1 DEF FinishedChildren
  <2>2. child[s] \in Int
    BY <1>1, <1>2 DEF Shape
  <2>. QED
    BY <1>1, <2>1, <2>2 DEF ReadToTheEnd, Progress
<1>8. ASSUME NEW k \in 1..in.nranks
      PROVE  /\ Sorted(q[k])
             /\ \A x \in Everything : x \in Range(q[k]) <=>
                    x[1] = c /\ x[2] = k - 1 /\ Owner(x) = r
  <2>1. /\ Sorted(exchange[c][k - 1][r])
        /\ \A x \in Everything :
              x \in Range(exchange[c][k - 1][r]) <=>
                  /\ x[1] = c /\ x[2] = k - 1 /\ x[3] < Progress(c, k - 1)
                  /\ Owner(x) = r
    BY <1>1, <1>3 DEF ExchangeHolds
  <2>2. Progress(c, k - 1) = in.chunks[c][k - 1]
    BY <1>3, <1>7
  <2>3. \A x \in Everything : x[3] < in.chunks[x[1]][x[2]]
    BY <1>1, ChunkNumbers
  <2>4. q[k] = exchange[c][k - 1][r]
    BY <1>6
  <2>. QED
    BY <2>1, <2>2, <2>3, <2>4
<1>9. \A k \in 1..in.nranks : \A x \in Range(q[k]) : x \in Everything
  <2>1. \A k \in 1..in.nranks : q[k] \in Seq(Everything)
    BY <1>3, <1>5, <1>6
  <2>. QED
    BY <2>1, SeqDef DEF Range
<1>10. ASSUME NEW k \in DOMAIN q, NEW l \in DOMAIN q, k < l
       PROVE  AllBefore(Range(q[k]), Range(q[l]))
  <2>1. ASSUME NEW x \in Range(q[k]), NEW y \in Range(q[l])
        PROVE  Before(x, y)
    <3>1. x[1] = c /\ x[2] = k - 1 /\ y[1] = c /\ y[2] = l - 1
      BY <1>6, <1>8, <1>9
    <3>2. k - 1 < l - 1
      BY <1>2, <1>6, <1>10
    <3>. QED
      BY <3>1, <3>2 DEF Before
  <2>. QED
    BY <2>1 DEF AllBefore
<1>11. /\ FlattenSeq(q) \in Seq(Everything) /\ Sorted(FlattenSeq(q))
       /\ \A x : x \in Range(FlattenSeq(q)) <=>
                    \E k \in DOMAIN q : x \in Range(q[k])
  BY <1>6, <1>8, <1>10, FlattenedSorted
<1>12. ASSUME NEW x \in Everything
       PROVE  (\E k \in DOMAIN q : x \in Range(q[k])) <=>
                x[1] = c /\ Owner(x) = r
  <2>1. x[2] \in Ranks
    BY <1>1, ChunkNumbers
  <2>2. x[2] + 1 \in 1..in.nranks /\ (x[2] + 1) - 1 = x[2]
    BY <1>2, <2>1
  <2>. QED
    BY <1>6, <1>8, <2>2
<1>13. Owned(c, r) = FlattenSeq(q)
  BY DEF Owned, q
<1>. QED
  BY <1>11, <1>12, <1>13

\* Taking a complete exchange.
LEMMA ExchangedKeepsOrder ==
    ASSUME OrderInv, IInv, NEW r \in Ranks, Exchanged(r)
    PROVE  OrderInv'
<1>1. /\ in' = in /\ reader[r] = "exchange"
      /\ \A s \in Ranks : <<child[r], s>> \in finished
      /\ exchanged' = [exchanged EXCEPT
                            ![r] = Append(@, Owned(child[r], r))]
      /\ UNCHANGED <<exchange, emitted, store, ch, closed, sampler, sample,
                     output>>
  BY DEF Exchanged, emitVars, downVars
<1>2. /\ Carried /\ ReadToTheEnd /\ ExchangeHolds /\ QueueHolds /\ LineHolds
      /\ EndsEmpty /\ in \in Scenarios /\ Shape /\ Pipeline
  BY DEF OrderInv, IInv, Shape
<1>3. /\ Ranks' = Ranks /\ Children' = Children /\ Everything' = Everything
      /\ \A y : Owner(y)' = Owner(y)
  BY <1>1, ChunksStay
<1>4. /\ child[r] \in Children /\ child \in [Ranks -> Children]
      /\ index \in [Ranks -> Nat] /\ emitted[r] \in Nat
      /\ Children \subseteq Int
      /\ reader \in [Ranks -> {"insert", "gather", "read", "exchange", "done"}]
  BY <1>2, ScenarioNumbers DEF Shape
<1>5. \/ /\ reader' = [reader EXCEPT ![r] = "done"]
         /\ UNCHANGED <<child, index>>
      \/ /\ reader' = [reader EXCEPT ![r] = "read"]
         /\ child' = [child EXCEPT ![r] = child[r] + 1]
         /\ index' = [index EXCEPT ![r] = 0]
  BY DEF Exchanged, Goto
<1>6. index[r] = in.chunks[child[r]][r]
  BY <1>1, <1>2 DEF ReadToTheEnd
<1>7. /\ Owned(child[r], r) \in Seq(Everything)
      /\ Sorted(Owned(child[r], r))
      /\ \A x \in Everything : x \in Range(Owned(child[r], r)) <=>
            x[1] = child[r] /\ Owner(x) = r
  BY <1>1, <1>4, OwnedIsComplete
<1>8. /\ exchanged \in [Ranks -> Seq(Seq(Everything))]
      /\ exchanged[r] \in Seq(Seq(Everything))
      /\ exchanged'[r] = Append(exchanged[r], Owned(child[r], r))
      /\ \A s \in Ranks \ {r} : exchanged'[s] = exchanged[s]
  BY <1>1, <1>2 DEF Carried
<1>9. Carried'
  <2>1. exchanged' \in [Ranks -> Seq(Seq(Everything))]
    BY <1>1, <1>7, <1>8
  <2>. QED
    BY <1>1, <1>2, <1>3, <2>1 DEF Carried
<1>10. ReadToTheEnd'
  <2>1. \A s \in Ranks \ {r} : /\ reader'[s] = reader[s]
                               /\ child'[s] = child[s] /\ index'[s] = index[s]
    BY <1>4, <1>5
  <2>2. reader'[r] = "read" \/ (child'[r] = child[r] /\ index'[r] = index[r])
    BY <1>4, <1>5
  <2>. QED
    BY <1>1, <1>2, <1>3, <1>6, <2>1, <2>2 DEF ReadToTheEnd
<1>11. ExchangeHolds'
  <2>1. CASE UNCHANGED <<child, index>>
    BY <1>1, <1>2, <2>1, ExchangeStays
  <2>2. CASE /\ child' = [child EXCEPT ![r] = child[r] + 1]
             /\ index' = [index EXCEPT ![r] = 0]
    <3>1. ASSUME NEW c \in Children, NEW s \in Ranks
          PROVE  Progress(c, s)' = Progress(c, s)
      <4>1. CASE s # r
        <5>1. child'[s] = child[s] /\ index'[s] = index[s]
          BY <1>4, <2>2, <4>1
        <5>. QED
          BY <1>1, <5>1 DEF Progress
      <4>2. CASE s = r
        <5>1. child'[s] = child[s] + 1 /\ index'[s] = 0
          BY <1>4, <2>2, <4>2
        <5>2. c \in Int /\ child[s] \in Int
          BY <1>4
        <5>3. CASE c < child[s]
          BY <1>1, <5>1, <5>2, <5>3 DEF Progress
        <5>4. CASE c = child[s]
          BY <1>1, <1>6, <4>2, <5>1, <5>2, <5>4 DEF Progress
        <5>5. CASE c > child[s]
          BY <1>1, <5>1, <5>2, <5>5 DEF Progress
        <5>. QED
          BY <5>2, <5>3, <5>4, <5>5
      <4>. QED
        BY <4>1, <4>2
    <3>. QED
      BY <1>1, <1>2, <1>3, <3>1 DEF ExchangeHolds
  <2>. QED
    BY <1>5, <2>1, <2>2
<1>12. QueueHolds'
  <2>1. emitted[r] + Len(exchanged[r]) = child[r] - 1
    BY <1>1, <1>2 DEF Pipeline, Taken
  <2>2. /\ Len(exchanged[r]) \in Nat
        /\ DOMAIN exchanged[r] = 1..Len(exchanged[r])
        /\ DOMAIN exchanged'[r] = 1..(Len(exchanged[r]) + 1)
        /\ \A k \in 1..Len(exchanged[r]) : exchanged'[r][k] = exchanged[r][k]
        /\ exchanged'[r][Len(exchanged[r]) + 1] = Owned(child[r], r)
    BY <1>7, <1>8
  <2>3. ASSUME NEW k \in 1..(Len(exchanged[r]) + 1)
        PROVE  /\ Sorted(exchanged'[r][k])
               /\ \A x \in Everything : x \in Range(exchanged'[r][k]) <=>
                     x[1] = emitted[r] + k /\ Owner(x) = r
    <3>1. CASE k \in 1..Len(exchanged[r])
      BY <1>2, <2>2, <3>1 DEF QueueHolds
    <3>2. CASE k = Len(exchanged[r]) + 1
      <4>0. child[r] \in Int
        BY <1>4
      <4>a. emitted[r] \in Nat /\ Len(exchanged[r]) \in Nat
        BY <1>4, <2>2
      <4>1. emitted[r] + k = child[r]
        BY <2>1, <3>2, <4>0, <4>a
      <4>. QED
        BY <1>7, <2>2, <3>2, <4>1
    <3>. QED
      BY <2>2, <3>1, <3>2
  <2>4. ASSUME NEW s \in Ranks, NEW k \in DOMAIN exchanged'[s]
        PROVE  /\ Sorted(exchanged'[s][k])
               /\ \A x \in Everything : x \in Range(exchanged'[s][k]) <=>
                     x[1] = emitted[s] + k /\ Owner(x) = s
    <3>1. CASE s = r
      BY <2>2, <2>3, <3>1
    <3>2. CASE s # r
      <4>1. exchanged'[s] = exchanged[s]
        BY <1>8, <3>2
      <4>. QED
        BY <1>2, <4>1 DEF QueueHolds
    <3>. QED
      BY <3>1, <3>2
  <2>. QED
    BY <1>1, <1>3, <2>4 DEF QueueHolds
<1>13. LineHolds'
  <2>1. \A s \in Ranks : Line(s)' = Line(s)
    BY <1>1 DEF Line
  <2>. QED
    BY <1>1, <1>2, <2>1, LineStays
<1>14. EndsEmpty'
  BY <1>1, <1>2, <1>3 DEF EndsEmpty
<1>. QED
  BY <1>9, <1>10, <1>11, <1>12, <1>13, <1>14 DEF OrderInv

\* emit takes the next child: its chunks come after all it has taken before.
LEMMA TakeStoreKeepsOrder ==
    ASSUME OrderInv, IInv, NEW r \in Ranks, TakeStore(r)
    PROVE  OrderInv'
<1>1. /\ in' = in /\ store[r] = <<>> /\ exchanged[r] # <<>>
      /\ store' = [store EXCEPT ![r] = Head(exchanged[r])]
      /\ exchanged' = [exchanged EXCEPT ![r] = Tail(@)]
      /\ emitted' = [emitted EXCEPT ![r] = @ + 1]
      /\ UNCHANGED <<reader, child, index, exchange, ch, closed, sampler,
                     sample, output>>
  BY DEF TakeStore, downVars
<1>2. /\ Carried /\ ReadToTheEnd /\ ExchangeHolds /\ QueueHolds /\ LineHolds
      /\ EndsEmpty /\ in \in Scenarios /\ Shape /\ Pipeline
  BY DEF OrderInv, IInv, Shape
<1>3. /\ Ranks' = Ranks /\ Children' = Children /\ Everything' = Everything
      /\ \A y : Owner(y)' = Owner(y)
  BY <1>1, ChunksStay
<1>. DEFINE h == Head(exchanged[r])
<1>4. /\ exchanged \in [Ranks -> Seq(Seq(Everything))]
      /\ exchanged[r] \in Seq(Seq(Everything))
      /\ store \in [Ranks -> Seq(Everything)]
      /\ output[r] \in Seq(Everything) /\ sample[r] \in Seq(Everything)
      /\ ch[r] \in Seq(Everything) /\ store[r] \in Seq(Everything)
      /\ emitted \in [Ranks -> Nat]
  BY <1>2 DEF Carried, Shape
<1>5. /\ Len(exchanged[r]) \in Nat \ {0} /\ 1 \in DOMAIN exchanged[r]
      /\ h = exchanged[r][1] /\ h \in Seq(Everything)
      /\ Tail(exchanged[r]) \in Seq(Seq(Everything))
      /\ Len(Tail(exchanged[r])) = Len(exchanged[r]) - 1
      /\ \A k \in 1..(Len(exchanged[r]) - 1) :
            Tail(exchanged[r])[k] = exchanged[r][k + 1]
  BY <1>1, <1>4
<1>6. /\ Sorted(h)
      /\ \A x \in Everything : x \in Range(h) <=>
            x[1] = emitted[r] + 1 /\ Owner(x) = r
  BY <1>2, <1>5 DEF QueueHolds
<1>7. /\ emitted'[r] = emitted[r] + 1 /\ emitted[r] \in Nat
      /\ exchanged'[r] = Tail(exchanged[r]) /\ store'[r] = h
      /\ \A s \in Ranks \ {r} : /\ emitted'[s] = emitted[s]
                                /\ exchanged'[s] = exchanged[s]
                                /\ store'[s] = store[s]
  BY <1>1, <1>4
<1>. HIDE DEF h
<1>8. Carried'
  <2>1. exchanged' \in [Ranks -> Seq(Seq(Everything))]
    BY <1>1, <1>4, <1>5
  <2>2. store' \in [Ranks -> Seq(Everything)]
    BY <1>1, <1>4, <1>5 DEF h
  <2>. QED
    BY <1>1, <1>2, <1>3, <2>1, <2>2 DEF Carried
<1>9. ReadToTheEnd'
  BY <1>1, <1>2, <1>3 DEF ReadToTheEnd
<1>10. ExchangeHolds'
  BY <1>1, <1>2, ExchangeStays
<1>11. QueueHolds'
  <2>1. ASSUME NEW s \in Ranks, NEW k \in DOMAIN exchanged'[s]
        PROVE  /\ Sorted(exchanged'[s][k])
               /\ \A x \in Everything : x \in Range(exchanged'[s][k]) <=>
                     x[1] = emitted'[s] + k /\ Owner(x) = s
    <3>1. CASE s = r
      <4>1. k \in 1..(Len(exchanged[r]) - 1)
        <5>1. DOMAIN Tail(exchanged[r]) = 1..Len(Tail(exchanged[r]))
          BY <1>5, LenProperties
        <5>. QED
          BY <1>5, <1>7, <3>1, <5>1
      <4>2. /\ k + 1 \in DOMAIN exchanged[r] /\ k \in Nat
            /\ exchanged'[s][k] = exchanged[r][k + 1]
        <5>1. DOMAIN exchanged[r] = 1..Len(exchanged[r])
          BY <1>4, LenProperties
        <5>2. k \in Nat /\ k + 1 \in 1..Len(exchanged[r])
          BY <1>5, <4>1
        <5>3. exchanged'[s] = Tail(exchanged[r])
          BY <1>7, <3>1
        <5>4. Tail(exchanged[r])[k] = exchanged[r][k + 1]
          BY <1>5, <4>1
        <5>. QED
          BY <5>1, <5>2, <5>3, <5>4
      <4>3. emitted'[s] + k = emitted[r] + (k + 1)
        BY <1>7, <3>1, <4>2
      <4>4. /\ Sorted(exchanged[r][k + 1])
            /\ \A x \in Everything : x \in Range(exchanged[r][k + 1]) <=>
                     x[1] = emitted[r] + (k + 1) /\ Owner(x) = r
        BY <1>2, <4>2 DEF QueueHolds
      <4>. QED
        BY <3>1, <4>2, <4>3, <4>4
    <3>2. CASE s # r
      <4>1. exchanged'[s] = exchanged[s] /\ emitted'[s] = emitted[s]
        BY <1>7, <3>2
      <4>. QED
        BY <1>2, <2>1, <4>1 DEF QueueHolds
    <3>. QED
      BY <3>1, <3>2
  <2>. QED
    BY <1>3, <2>1 DEF QueueHolds
<1>12. LineHolds'
  <2>. DEFINE p == (output[r] \o sample[r]) \o ch[r]
  <2>1. p \in Seq(Everything)
    BY <1>4
  <2>2. Line(r) = p
    <3>1. ch[r] \o store[r] = ch[r]
      BY <1>1, <1>4
    <3>. QED
      BY <3>1 DEF Line
  <2>3. Line(r)' = p \o h
    <3>1. Line(r)' = (output[r] \o sample[r]) \o (ch[r] \o h)
      BY <1>1, <1>7 DEF Line
    <3>2. output[r] \o sample[r] \in Seq(Everything)
      BY <1>4
    <3>3. Associates(output[r] \o sample[r], ch[r], h)
      BY <1>4, <1>5, <3>2, Associative
    <3>4. (output[r] \o sample[r]) \o (ch[r] \o h) =
            ((output[r] \o sample[r]) \o ch[r]) \o h
      BY <3>3 DEF Associates
    <3>. QED
      BY <3>1, <3>4
  <2>4. \A s \in Ranks \ {r} : Line(s)' = Line(s)
    BY <1>1, <1>7 DEF Line
  <2>. HIDE DEF p
  <2>5. /\ Sorted(p)
        /\ \A x \in Everything : x \in Range(p) <=>
             x[1] <= emitted[r] /\ Owner(x) = r
    BY <1>2, <2>2 DEF LineHolds
  <2>6. \A x \in Range(p) \cup Range(h) : x \in Everything
    BY <1>5, <2>1, SeqDef DEF Range
  <2>7. AllBefore(Range(p), Range(h))
    <3>1. ASSUME NEW x \in Range(p), NEW y \in Range(h) PROVE Before(x, y)
      <4>1. x[1] <= emitted[r] /\ y[1] = emitted[r] + 1 /\ x[1] \in Nat
        BY <1>2, <1>6, <2>5, <2>6, ChunkNumbers
      <4>. QED
        BY <1>7, <4>1 DEF Before
    <3>. QED
      BY <3>1 DEF AllBefore
  <2>8. Sorted(p \o h)
    BY <1>5, <1>6, <2>1, <2>5, <2>7, ConcatenationSorted
  <2>9. Range(p \o h) = Range(p) \cup Range(h)
    BY <1>5, <2>1, RangeOfConcatenation
  <2>10. ASSUME NEW x \in Everything
         PROVE  x \in Range(p \o h) <=>
                    x[1] <= emitted[r] + 1 /\ Owner(x) = r
    <3>1. x[1] \in Nat
      BY <1>2, ChunkNumbers
    <3>2. x[1] <= emitted[r] + 1 <=> x[1] <= emitted[r] \/ x[1] = emitted[r] + 1
      BY <1>7, <3>1
    <3>. QED
      BY <1>6, <2>5, <2>9, <3>2
  <2>11. ASSUME NEW s \in Ranks
         PROVE  /\ Sorted(Line(s)')
                /\ \A x \in Everything : x \in Range(Line(s)') <=>
                        x[1] <= emitted'[s] /\ Owner(x) = s
    <3>1. CASE s = r
      BY <1>7, <2>3, <2>8, <2>10, <3>1
    <3>2. CASE s # r
      <4>1. Line(s)' = Line(s) /\ emitted'[s] = emitted[s]
        BY <1>7, <2>4, <3>2
      <4>. QED
        BY <1>2, <4>1 DEF LineHolds
    <3>. QED
      BY <3>1, <3>2
  <2>. QED
    BY <1>3, <2>11 DEF LineHolds
<1>13. EndsEmpty'
  <2>1. r \notin closed
    <3>1. emitted[r] + Len(exchanged[r]) = Taken(r)
      BY <1>2 DEF Pipeline
    <3>2. Taken(r) <= Len(in.chunks) /\ Taken(r) \in Int
          /\ Len(in.chunks) \in Nat
      BY <1>2, ScenarioNumbers DEF Taken, Shape
    <3>3. emitted[r] # Len(in.chunks)
      BY <1>5, <1>7, <3>1, <3>2
    <3>. QED
      BY <1>2, <3>3 DEF EndsEmpty
  <2>2. ASSUME NEW s \in Ranks, s \in closed
        PROVE  emitted'[s] = emitted[s] /\ store'[s] = store[s]
    BY <1>7, <2>1, <2>2
  <2>. QED
    BY <1>1, <1>2, <1>3, <2>2 DEF EndsEmpty
<1>. QED
  BY <1>8, <1>9, <1>10, <1>11, <1>12, <1>13 DEF OrderInv

\* The steps that move chunks on, within what has been taken.
LEMMA MovesKeepOrder ==
    ASSUME OrderInv, in' = in,
           UNCHANGED <<reader, child, index, exchange, exchanged, emitted>>,
           store' \in [Ranks -> Seq(Everything)],
           ch' \in [Ranks -> Seq(Everything)],
           sample' \in [Ranks -> Seq(Everything)],
           output' \in [Ranks -> Seq(Everything)],
           \A s \in Ranks : Line(s)' = Line(s), EndsEmpty'
    PROVE  OrderInv'
<1>1. /\ Carried /\ ReadToTheEnd /\ ExchangeHolds /\ QueueHolds /\ LineHolds
  BY DEF OrderInv
<1>2. Ranks' = Ranks /\ Children' = Children /\ Everything' = Everything
  BY ChunksStay
<1>3. Carried'
  BY <1>1, <1>2 DEF Carried
<1>4. ReadToTheEnd'
  BY <1>1, <1>2 DEF ReadToTheEnd
<1>5. ExchangeHolds' /\ QueueHolds' /\ LineHolds'
  BY <1>1, ExchangeStays, QueueStays, LineStays
<1>. QED
  BY <1>3, <1>4, <1>5 DEF OrderInv

\* Four sequences in a row.
InLine(a, b, c, d) == (a \o b) \o (c \o d)

\* A move in the middle of them.
LEMMA MovedInside ==
    ASSUME NEW S, NEW a \in Seq(S), NEW b \in Seq(S), NEW c \in Seq(S),
           NEW d \in Seq(S), c # <<>>
    PROVE  InLine(a, Append(b, Head(c)), Tail(c), d) = InLine(a, b, c, d)
<1>2. PICK t \in Seq(S), e \in Seq(S) :
        t = Tail(c) /\ e = Append(b, Head(c)) /\ e \o t = b \o c
  <2>1. /\ Tail(c) \in Seq(S) /\ Append(b, Head(c)) \in Seq(S)
        /\ Append(b, Head(c)) \o Tail(c) = b \o c
    BY MovedHead
  <2>. QED
    BY <2>1
<1>3. c \o d \in Seq(S) /\ t \o d \in Seq(S)
  OBVIOUS
<1>4. PICK u \in Seq(S) : u = c \o d
  BY <1>3
<1>5. PICK v \in Seq(S) : v = t \o d
  BY <1>3
<1>6. Associates(a, b, u) /\ Associates(b, c, d)
  BY Associative
<1>7. Associates(a, e, v) /\ Associates(e, t, d)
  BY Associative
<1>. QED
  BY <1>2, <1>4, <1>5, <1>6, <1>7, Zenon DEF InLine, Associates

\* Sending a chunk.
LEMMA EmitKeepsOrder ==
    ASSUME OrderInv, IInv, NEW r \in Ranks, Emit(r)
    PROVE  OrderInv'
<1>1. /\ in' = in /\ store[r] # <<>>
      /\ ch' = [ch EXCEPT ![r] = Append(@, Head(store[r]))]
      /\ store' = [store EXCEPT ![r] = Tail(@)]
      /\ UNCHANGED <<reader, child, index, exchange, exchanged, emitted,
                     closed, sampler, sample, output>>
  BY DEF Emit, unionVars, downVars
<1>2. /\ store \in [Ranks -> Seq(Everything)]
      /\ ch \in [Ranks -> Seq(Everything)]
      /\ sample \in [Ranks -> Seq(Everything)]
      /\ output \in [Ranks -> Seq(Everything)] /\ EndsEmpty
  BY DEF OrderInv, Carried
<1>3. /\ store[r] \in Seq(Everything) /\ ch[r] \in Seq(Everything)
      /\ store'[r] = Tail(store[r])
      /\ ch'[r] = Append(ch[r], Head(store[r]))
      /\ \A s \in Ranks \ {r} : store'[s] = store[s] /\ ch'[s] = ch[s]
  BY <1>1, <1>2
<1>a. /\ store[r] \in Seq(Everything) /\ ch[r] \in Seq(Everything)
      /\ store[r] # <<>>
  BY <1>1, <1>3
<1>4. /\ Tail(store[r]) \in Seq(Everything)
      /\ Append(ch[r], Head(store[r])) \in Seq(Everything)
      /\ Append(ch[r], Head(store[r])) \o Tail(store[r]) = ch[r] \o store[r]
  BY <1>a, MovedHead
<1>5. /\ store' \in [Ranks -> Seq(Everything)]
      /\ ch' \in [Ranks -> Seq(Everything)]
  BY <1>1, <1>2, <1>4
<1>6. ASSUME NEW s \in Ranks PROVE Line(s)' = Line(s)
  <2>1. ch'[s] \o store'[s] = ch[s] \o store[s]
    BY <1>3, <1>4
  <2>. QED
    BY <1>1, <2>1 DEF Line
<1>7. EndsEmpty'
  <2>1. r \notin closed /\ sampler[r] # "done"
    BY <1>1, <1>2 DEF EndsEmpty
  <2>2. Ranks' = Ranks
    BY <1>1, ChunksStay
  <2>. QED
    BY <1>1, <1>2, <1>3, <2>1, <2>2 DEF EndsEmpty
<1>. QED
  BY <1>1, <1>2, <1>5, <1>6, <1>7, MovesKeepOrder

\* Sampling a chunk, or ending the sample.
LEMMA SampleKeepsOrder ==
    ASSUME OrderInv, IInv, NEW r \in Ranks, Sample(r)
    PROVE  OrderInv'
<1>1. /\ in' = in /\ sampler[r] = "sample"
      /\ UNCHANGED <<reader, child, index, exchange, exchanged, emitted,
                     store, closed, output>>
  BY DEF Sample, unionVars, emitVars
<1>2. /\ store \in [Ranks -> Seq(Everything)]
      /\ ch \in [Ranks -> Seq(Everything)]
      /\ sample \in [Ranks -> Seq(Everything)]
      /\ output \in [Ranks -> Seq(Everything)] /\ EndsEmpty
      /\ DOMAIN sampler = Ranks
  BY DEF OrderInv, Carried, IInv, Shape
<1>3. /\ Ranks' = Ranks
      /\ \E l \in {"sample", "insert"} :
            sampler' = [sampler EXCEPT ![r] = l]
  <2>1. Ranks' = Ranks
    BY <1>1, ChunksStay
  <2>2. CASE sampler' = [sampler EXCEPT
                ![r] = IF Len(sample'[r]) = MaxChunks THEN "insert" ELSE @]
    BY <1>1, <1>2, <2>1, <2>2
  <2>3. CASE sampler' = [sampler EXCEPT ![r] = "insert"]
    BY <2>1, <2>3
  <2>. QED
    BY <2>2, <2>3 DEF Sample
<1>4. \A s \in Ranks : sampler'[s] = "done" => sampler[s] = "done" /\ s # r
  BY <1>2, <1>3
<1>5. CASE sample' = sample /\ ch' = ch
  <2>1. EndsEmpty'
    BY <1>1, <1>2, <1>3, <1>4, <1>5 DEF EndsEmpty
  <2>2. \A s \in Ranks : Line(s)' = Line(s)
    BY <1>1, <1>5 DEF Line
  <2>. QED
    BY <1>1, <1>2, <1>5, <2>1, <2>2, MovesKeepOrder
<1>6. CASE /\ ch[r] # <<>>
           /\ sample' = [sample EXCEPT ![r] = Append(@, Head(ch[r]))]
           /\ ch' = [ch EXCEPT ![r] = Tail(@)]
  <2>1. /\ sample[r] \in Seq(Everything) /\ ch[r] \in Seq(Everything)
        /\ sample'[r] = Append(sample[r], Head(ch[r]))
        /\ ch'[r] = Tail(ch[r])
        /\ \A s \in Ranks \ {r} : sample'[s] = sample[s] /\ ch'[s] = ch[s]
    BY <1>2, <1>6
  <2>a. /\ sample[r] \in Seq(Everything) /\ ch[r] \in Seq(Everything)
        /\ ch[r] # <<>>
    BY <1>6, <2>1
  <2>2. /\ Tail(ch[r]) \in Seq(Everything)
        /\ Append(sample[r], Head(ch[r])) \in Seq(Everything)
        /\ Append(sample[r], Head(ch[r])) \o Tail(ch[r]) = sample[r] \o ch[r]
    BY <2>a, MovedHead
  <2>3. /\ sample' \in [Ranks -> Seq(Everything)]
        /\ ch' \in [Ranks -> Seq(Everything)]
    BY <1>2, <1>6, <2>2
  <2>4. ASSUME NEW s \in Ranks PROVE Line(s)' = Line(s)
    <3>1. /\ output[r] \in Seq(Everything) /\ store[r] \in Seq(Everything)
          /\ sample[r] \in Seq(Everything) /\ ch[r] \in Seq(Everything)
          /\ ch[r] # <<>>
      BY <1>2, <2>a
    <3>2. InLine(output[r], Append(sample[r], Head(ch[r])), Tail(ch[r]),
                 store[r]) = InLine(output[r], sample[r], ch[r], store[r])
      BY <3>1, MovedInside
    <3>3. CASE s = r
      BY <1>1, <2>1, <3>2, <3>3 DEF Line, InLine
    <3>4. CASE s # r
      BY <1>1, <2>1, <3>4 DEF Line
    <3>. QED
      BY <3>3, <3>4
  <2>5. EndsEmpty'
    BY <1>1, <1>2, <1>3, <1>4, <2>1 DEF EndsEmpty
  <2>. QED
    BY <1>1, <1>2, <2>3, <2>4, <2>5, MovesKeepOrder
<1>. QED
  BY <1>5, <1>6 DEF Sample

\* Replaying the sample, the rest of the input, and ending.
LEMMA ReplayKeepsOrder ==
    ASSUME OrderInv, IInv, NEW r \in Ranks, Replay(r)
    PROVE  OrderInv'
<1>1. /\ in' = in /\ sampler[r] = "replay"
      /\ UNCHANGED <<reader, child, index, exchange, exchanged, emitted,
                     store, closed>>
  BY DEF Replay, unionVars, emitVars
<1>2. /\ store \in [Ranks -> Seq(Everything)]
      /\ ch \in [Ranks -> Seq(Everything)]
      /\ sample \in [Ranks -> Seq(Everything)]
      /\ output \in [Ranks -> Seq(Everything)] /\ EndsEmpty
      /\ DOMAIN sampler = Ranks
  BY DEF OrderInv, Carried, IInv, Shape
<1>3. Ranks' = Ranks
  BY <1>1, ChunksStay
<1>4. CASE /\ sample[r] # <<>>
           /\ output' = [output EXCEPT ![r] = Append(@, Head(sample[r]))]
           /\ sample' = [sample EXCEPT ![r] = Tail(@)]
           /\ UNCHANGED <<ch, sampler>>
  <2>1. /\ output[r] \in Seq(Everything) /\ sample[r] \in Seq(Everything)
        /\ output'[r] = Append(output[r], Head(sample[r]))
        /\ sample'[r] = Tail(sample[r])
        /\ \A s \in Ranks \ {r} : output'[s] = output[s]
                                  /\ sample'[s] = sample[s]
    BY <1>2, <1>4
  <2>a. /\ output[r] \in Seq(Everything) /\ sample[r] \in Seq(Everything)
        /\ sample[r] # <<>>
    BY <1>4, <2>1
  <2>2. /\ Tail(sample[r]) \in Seq(Everything)
        /\ Append(output[r], Head(sample[r])) \in Seq(Everything)
        /\ Append(output[r], Head(sample[r])) \o Tail(sample[r])
            = output[r] \o sample[r]
    BY <2>a, MovedHead
  <2>3. /\ sample' \in [Ranks -> Seq(Everything)]
        /\ output' \in [Ranks -> Seq(Everything)]
    BY <1>2, <1>4, <2>2
  <2>4. ASSUME NEW s \in Ranks PROVE Line(s)' = Line(s)
    <3>1. output'[s] \o sample'[s] = output[s] \o sample[s]
      BY <2>1, <2>2
    <3>. QED
      BY <1>1, <1>4, <3>1 DEF Line
  <2>5. EndsEmpty'
    BY <1>1, <1>2, <1>3, <1>4, <2>1 DEF EndsEmpty
  <2>. QED
    BY <1>1, <1>2, <1>4, <2>3, <2>4, <2>5, MovesKeepOrder
<1>5. CASE /\ sample[r] = <<>> /\ ch[r] # <<>>
           /\ output' = [output EXCEPT ![r] = Append(@, Head(ch[r]))]
           /\ ch' = [ch EXCEPT ![r] = Tail(@)]
           /\ UNCHANGED <<sample, sampler>>
  <2>1. /\ output[r] \in Seq(Everything) /\ ch[r] \in Seq(Everything)
        /\ store[r] \in Seq(Everything)
        /\ output'[r] = Append(output[r], Head(ch[r]))
        /\ ch'[r] = Tail(ch[r])
        /\ \A s \in Ranks \ {r} : output'[s] = output[s] /\ ch'[s] = ch[s]
    BY <1>2, <1>5
  <2>a. /\ output[r] \in Seq(Everything) /\ ch[r] \in Seq(Everything)
        /\ ch[r] # <<>>
    BY <1>5, <2>1
  <2>2. /\ Tail(ch[r]) \in Seq(Everything)
        /\ Append(output[r], Head(ch[r])) \in Seq(Everything)
        /\ Append(output[r], Head(ch[r])) \o Tail(ch[r]) = output[r] \o ch[r]
    BY <2>a, MovedHead
  <2>3. /\ ch' \in [Ranks -> Seq(Everything)]
        /\ output' \in [Ranks -> Seq(Everything)]
    BY <1>2, <1>5, <2>2
  <2>4. Line(r)' = Line(r)
    <3>2. \A x \in Seq(Everything) : x \o <<>> = x
      OBVIOUS
    <3>3. Line(r) = output[r] \o (ch[r] \o store[r])
      BY <1>5, <2>1, <3>2 DEF Line
    <3>4. output[r] \o (ch[r] \o store[r]) = (output[r] \o ch[r]) \o store[r]
      <4>1. Associates(output[r], ch[r], store[r])
        BY <2>1, Associative
      <4>. QED
        BY <4>1 DEF Associates
    <3>5. Line(r)' = (output'[r] \o <<>>) \o (ch'[r] \o store[r])
      BY <1>1, <1>5 DEF Line
    <3>6. output'[r] \in Seq(Everything) /\ ch'[r] \in Seq(Everything)
      BY <2>1, <2>2
    <3>7. output'[r] \o <<>> = output'[r]
      BY <3>2, <3>6
    <3>8. output'[r] \o (ch'[r] \o store[r]) = (output'[r] \o ch'[r]) \o store[r]
      <4>1. Associates(output'[r], ch'[r], store[r])
        BY <2>1, <3>6, Associative
      <4>. QED
        BY <4>1 DEF Associates
    <3>9. output'[r] \o ch'[r] = output[r] \o ch[r]
      BY <2>1, <2>2
    <3>. QED
      BY <3>3, <3>4, <3>5, <3>7, <3>8, <3>9
  <2>5. ASSUME NEW s \in Ranks PROVE Line(s)' = Line(s)
    <3>1. CASE s # r
      BY <1>1, <1>5, <2>1, <3>1 DEF Line
    <3>. QED
      BY <2>4, <3>1
  <2>6. EndsEmpty'
    BY <1>1, <1>2, <1>3, <1>5, <2>1 DEF EndsEmpty
  <2>. QED
    BY <1>1, <1>2, <1>5, <2>3, <2>5, <2>6, MovesKeepOrder
<1>6. CASE /\ sample[r] = <<>> /\ ch[r] = <<>> /\ r \in closed
           /\ sampler' = [sampler EXCEPT ![r] = "done"]
           /\ UNCHANGED <<sample, ch, output>>
  <2>1. EndsEmpty'
    BY <1>1, <1>2, <1>3, <1>6 DEF EndsEmpty
  <2>2. \A s \in Ranks : Line(s)' = Line(s)
    BY <1>1, <1>6 DEF Line
  <2>. QED
    BY <1>1, <1>2, <1>6, <2>1, <2>2, MovesKeepOrder
<1>. QED
  BY <1>4, <1>5, <1>6 DEF Replay

\* Nothing is read or sent at the start.
LEMMA InitOrder == Init => OrderInv
<1>. SUFFICES ASSUME Init PROVE OrderInv
  OBVIOUS
<1>1. in \in Scenarios
  BY DEF Init
<1>2. /\ Children \subseteq Int /\ \A c \in Children : c >= 1
  BY <1>1, ScenarioNumbers
<1>3. <<>> \in Seq(Everything) /\ Sorted(<<>>) /\ Range(<<>>) = {}
      /\ <<>> \in Seq(Seq(Everything))
  BY DEF Sorted, Range
<1>4. /\ exchange = [c \in Children |-> [s \in Ranks |-> [d \in Ranks |-> <<>>]]]
      /\ exchanged = [r \in Ranks |-> <<>>] /\ store = [r \in Ranks |-> <<>>]
      /\ ch = [r \in Ranks |-> <<>>] /\ sample = [r \in Ranks |-> <<>>]
      /\ output = [r \in Ranks |-> <<>>] /\ emitted = [r \in Ranks |-> 0]
      /\ child = [r \in Ranks |-> 1] /\ index = [r \in Ranks |-> 0]
  BY DEF Init
<1>5. Carried
  BY <1>3, <1>4 DEF Carried
<1>6. ReadToTheEnd
  BY DEF Init, ReadToTheEnd
<1>7. ExchangeHolds
  <2>1. ASSUME NEW c \in Children, NEW s \in Ranks PROVE Progress(c, s) = 0
    BY <1>2, <1>4 DEF Progress
  <2>2. ASSUME NEW x \in Everything PROVE ~(x[3] < 0)
    BY <1>1, ChunkNumbers
  <2>3. \A c \in Children, s \in Ranks, d \in Ranks : exchange[c][s][d] = <<>>
    BY <1>4
  <2>. QED
    BY <1>3, <2>1, <2>2, <2>3 DEF ExchangeHolds
<1>8. QueueHolds
  BY <1>4 DEF QueueHolds
<1>9. LineHolds
  <2>1. \A r \in Ranks : Line(r) = <<>>
    BY <1>4 DEF Line
  <2>2. ASSUME NEW x \in Everything PROVE ~(x[1] <= 0)
    <3>1. x[1] \in Children
      BY <1>1, ChunkNumbers
    <3>2. x[1] \in Int /\ x[1] >= 1
      BY <1>2, <3>1
    <3>. QED
      BY <3>2
  <2>3. \A r \in Ranks : emitted[r] = 0
    BY <1>4
  <2>. QED
    BY <1>3, <2>1, <2>2, <2>3 DEF LineHolds
<1>10. EndsEmpty
  BY DEF Init, EndsEmpty
<1>. QED
  BY <1>5, <1>6, <1>7, <1>8, <1>9, <1>10 DEF OrderInv

\* Every step of a rank keeps the order.
LEMMA NextOrder == IInv /\ OrderInv /\ [Next]_vars => OrderInv'
<1>. SUFFICES ASSUME IInv, OrderInv, [Next]_vars PROVE OrderInv'
  OBVIOUS
<1>1. CASE UNCHANGED vars
  <2>1. /\ in' = in
        /\ UNCHANGED <<reader, child, index, exchange, exchanged, emitted,
                       store, ch, closed, sampler, sample, output>>
    BY <1>1 DEF vars, unionVars, emitVars, downVars
  <2>2. \A s \in Ranks : Line(s)' = Line(s)
    BY <2>1 DEF Line
  <2>3. Carried /\ EndsEmpty
    BY DEF OrderInv
  <2>4. EndsEmpty'
    <3>1. Ranks' = Ranks
      BY <2>1, ChunksStay
    <3>. QED
      BY <2>1, <2>3, <3>1 DEF EndsEmpty
  <2>. QED
    BY <2>1, <2>2, <2>3, <2>4, MovesKeepOrder DEF Carried
<1>2. ASSUME NEW r \in Ranks, Step(r) PROVE OrderInv'
  BY <1>2, QuietStepsKeepOrder, ReadKeepsOrder, ExchangedKeepsOrder,
     TakeStoreKeepsOrder, EmitKeepsOrder, SampleKeepsOrder, ReplayKeepsOrder
     DEF Step
<1>. QED
  BY <1>1, <1>2 DEF Next

\* What a rank has replayed is part of what was taken, in order; at the end it
\* is all the rank owns.
LEMMA OutputHolds ==
    ASSUME OrderInv, IInv, NEW r \in Ranks
    PROVE  /\ output[r] \in Seq(Everything) /\ Sorted(output[r])
           /\ \A x \in Range(output[r]) : x \in Everything /\ Owner(x) = r
           /\ sampler[r] = "done" => \A x \in Everything :
                x \in Range(output[r]) <=> Owner(x) = r
<1>1. /\ Carried /\ LineHolds /\ EndsEmpty /\ in \in Scenarios
  BY DEF OrderInv, IInv, Shape
<1>2. /\ output[r] \in Seq(Everything) /\ sample[r] \in Seq(Everything)
      /\ ch[r] \in Seq(Everything) /\ store[r] \in Seq(Everything)
  BY <1>1 DEF Carried
<1>3. /\ Sorted(Line(r))
      /\ \A x \in Everything :
            x \in Range(Line(r)) <=> x[1] <= emitted[r] /\ Owner(x) = r
  BY <1>1 DEF LineHolds
<1>4. PICK p \in Seq(Everything), q \in Seq(Everything) :
        p = output[r] \o sample[r] /\ q = ch[r] \o store[r]
  <2>1. /\ output[r] \o sample[r] \in Seq(Everything)
        /\ ch[r] \o store[r] \in Seq(Everything)
    BY <1>2
  <2>. QED
    BY <2>1
<1>5. Line(r) = p \o q
  BY <1>4 DEF Line
<1>6. Sorted(p)
  BY <1>3, <1>5, PrefixSorted
<1>7. Sorted(output[r])
  <2>1. Sorted(output[r] \o sample[r])
    BY <1>4, <1>6
  <2>. QED
    BY <1>2, <2>1, PrefixSorted
<1>8. \A x \in Range(output[r]) : x \in Everything /\ x \in Range(Line(r))
  <2>1. \A x \in Range(output[r]) : x \in Everything
    BY <1>2, SeqDef DEF Range
  <2>2. Range(p) = Range(output[r]) \cup Range(sample[r])
    BY <1>2, <1>4, RangeOfConcatenation
  <2>3. Range(p \o q) = Range(p) \cup Range(q)
    BY RangeOfConcatenation
  <2>. QED
    BY <1>5, <2>1, <2>2, <2>3
<1>9. ASSUME sampler[r] = "done", NEW x \in Everything
      PROVE  x \in Range(output[r]) <=> Owner(x) = r
  <2>1. /\ sample[r] = <<>> /\ ch[r] = <<>> /\ store[r] = <<>>
        /\ emitted[r] = Len(in.chunks)
    BY <1>1, <1>9 DEF EndsEmpty
  <2>2. Line(r) = output[r]
    <3>1. output[r] \o <<>> = output[r] /\ <<>> \o <<>> = <<>>
      BY <1>2
    <3>. QED
      BY <2>1, <3>1 DEF Line
  <2>3. x[1] <= Len(in.chunks)
    <3>1. x[1] \in Children
      BY <1>1, ChunkNumbers
    <3>2. Children = 1..Len(in.chunks) /\ Len(in.chunks) \in Nat
      BY <1>1, ScenarioNumbers
    <3>. QED
      BY <3>1, <3>2
  <2>. QED
    BY <1>3, <2>1, <2>2, <2>3
<1>. QED
  BY <1>2, <1>3, <1>7, <1>8, <1>9

\* Chunks of different owners are in the order of their owners.
LEMMA OwnersOrdered ==
    ASSUME in \in Scenarios, NEW x \in Everything, NEW y \in Everything,
           Owner(x) < Owner(y)
    PROVE  Before(x, y)
<1>1. /\ x[1] \in Children /\ x[2] \in Ranks /\ x[3] \in Nat
      /\ x = <<x[1], x[2], x[3]>> /\ x[1] \in Nat /\ x[2] \in Nat
      /\ Owner(x) \in Ranks
  BY ChunkNumbers
<1>2. /\ y[1] \in Children /\ y[2] \in Ranks /\ y[3] \in Nat
      /\ y = <<y[1], y[2], y[3]>> /\ y[1] \in Nat /\ y[2] \in Nat
      /\ Owner(y) \in Ranks
  BY ChunkNumbers
<1>3. Ranks = RanksOf(in) /\ Children = ChildrenOf(in) /\ Ranks \subseteq Int
  BY ChunkParts, ScenarioNumbers
<1>4. Before(x, y) \/ Before(y, x) \/ x = y
  BY <1>1, <1>2 DEF Before
<1>5. ASSUME Before(y, x) PROVE Owner(y) <= Owner(x)
  <2>1. Before(<<y[1], y[2], y[3]>>, <<x[1], x[2], x[3]>>)
    BY <1>1, <1>2, <1>5
  <2>2. Destination(in, y[1], y[2], y[3]) <= Destination(in, x[1], x[2], x[3])
    BY <1>1, <1>2, <1>3, <2>1, DestinationsInOrder
  <2>. QED
    BY <2>2 DEF Owner
<1>6. Owner(x) \in Int /\ Owner(y) \in Int
  BY <1>1, <1>2, <1>3
<1>. QED
  BY <1>4, <1>5, <1>6

\* Reading the ranks in order reads the chunks in order.
LEMMA OrderInvariantImplies ==
    ASSUME OrderInv, IInv
    PROVE  OrderPreserved
<1>. DEFINE q == [k \in 1..in.nranks |-> output[k - 1]]
<1>1. in \in Scenarios
  BY DEF IInv, Shape
<1>2. in.nranks \in Nat \ {0} /\ Ranks = 0..(in.nranks - 1)
  BY <1>1, EstimateNumbers DEF Ranks
<1>3. \A k \in 1..in.nranks : k - 1 \in Ranks
  BY <1>2
<1>4. \A r \in Ranks :
        /\ output[r] \in Seq(Everything) /\ Sorted(output[r])
        /\ \A x \in Range(output[r]) : x \in Everything /\ Owner(x) = r
        /\ sampler[r] = "done" => \A x \in Everything :
                x \in Range(output[r]) <=> Owner(x) = r
  BY OutputHolds
<1>5. /\ q \in [1..in.nranks -> Seq(Everything)]
      /\ \A k \in 1..in.nranks : q[k] = output[k - 1]
  BY <1>3, <1>4
<1>6. AllOutput = FlattenSeq(q)
  BY DEF AllOutput
<1>. HIDE DEF q
<1>7. /\ q \in Seq(Seq(Everything)) /\ Len(q) = in.nranks
      /\ DOMAIN q = 1..in.nranks
  BY <1>2, <1>5, FunctionIsSequence
<1>8. q # <<>>
  BY <1>2, <1>7
<1>9. \A k \in DOMAIN q : Sorted(q[k])
  BY <1>3, <1>4, <1>5, <1>7
<1>10. ASSUME NEW k \in DOMAIN q, NEW l \in DOMAIN q, k < l
       PROVE  AllBefore(Range(q[k]), Range(q[l]))
  <2>1. ASSUME NEW x \in Range(q[k]), NEW y \in Range(q[l])
        PROVE  Before(x, y)
    <3>1. k \in 1..in.nranks /\ l \in 1..in.nranks
      BY <1>7
    <3>2. /\ x \in Everything /\ Owner(x) = k - 1
          /\ y \in Everything /\ Owner(y) = l - 1
      BY <1>3, <1>4, <1>5, <3>1
    <3>3. Owner(x) < Owner(y)
      BY <1>2, <1>10, <3>1, <3>2
    <3>. QED
      BY <1>1, <3>2, <3>3, OwnersOrdered
  <2>. QED
    BY <2>1 DEF AllBefore
<1>11. /\ FlattenSeq(q) \in Seq(Everything) /\ Sorted(FlattenSeq(q))
       /\ \A x : x \in Range(FlattenSeq(q)) <=>
                    \E k \in DOMAIN q : x \in Range(q[k])
  BY <1>7, <1>8, <1>9, <1>10, FlattenedSorted
<1>12. ASSUME \A r \in Ranks : sampler[r] = "done"
       PROVE  Range(AllOutput) = Everything
  <2>1. ASSUME NEW x \in Everything PROVE x \in Range(FlattenSeq(q))
    <3>1. Owner(x) \in Ranks
      BY <1>1, ChunkNumbers
    <3>2. x \in Range(output[Owner(x)])
      BY <1>4, <1>12, <3>1
    <3>3. Owner(x) + 1 \in 1..in.nranks /\ (Owner(x) + 1) - 1 = Owner(x)
      BY <1>2, <3>1
    <3>4. q[Owner(x) + 1] = output[Owner(x)]
      BY <1>5, <3>3
    <3>. QED
      BY <1>7, <1>11, <3>2, <3>3, <3>4
  <2>2. ASSUME NEW x \in Range(FlattenSeq(q)) PROVE x \in Everything
    <3>1. PICK k \in 1..in.nranks : x \in Range(q[k])
      BY <1>7, <1>11
    <3>. QED
      BY <1>3, <1>4, <1>5, <3>1
  <2>. QED
    BY <1>6, <2>1, <2>2
<1>. QED
  BY <1>6, <1>11, <1>12 DEF OrderPreserved, Sorted

\* The inductive invariants hold in every reachable state.
THEOREM OrderInvariance == Spec => [](IInv /\ OrderInv)
<1>1. Init => IInv /\ OrderInv
  BY InitInvariant, InitOrder
<1>2. IInv /\ OrderInv /\ [Next]_vars => (IInv /\ OrderInv)'
  BY NextInvariant, NextOrder
<1>. QED
  BY <1>1, <1>2, PTL DEF Spec

\* Reading the ranks in order gives the rows in the order of pl.concat, and all of
\* them once when the ranks have ended, for any estimates of the chunk counts:
\* a chunk that was not estimated goes where the chunks after it can follow
\* (_OrderedUnionPlan.destination, union.py:119-152).
THEOREM RowsInOrder == Spec => []OrderPreserved
<1>1. IInv /\ OrderInv => OrderPreserved
  BY OrderInvariantImplies
<1>. QED
  BY <1>1, OrderInvariance, PTL

-----------------------------------------------------------------------------
(* The promised counts *)

\* The partition of an estimated chunk.
Place(x) == Offset(in, x[1], x[2]) + x[3]

\* Every child that is read has as many chunks as were estimated.
Exact ==
    \A c \in Children, r \in Ranks :
        ~Dropped(in, c, r) => in.counts[c][r] = in.chunks[c][r]

\* With exact estimates a chunk has a partition of its own, which decides who
\* owns it, and every partition is that of a chunk.
LEMMA PlacesExact ==
    ASSUME in \in Scenarios, Exact
    PROVE  /\ \A x \in Everything :
                /\ Place(x) \in 0..(Total(in) - 1)
                /\ Owner(x) = PartitionOwner(Place(x), in.nranks, Total(in))
           /\ \A x, y \in Everything : Before(x, y) => Place(x) < Place(y)
           /\ \A p \in 0..(Total(in) - 1) : \E x \in Everything : Place(x) = p
<1>0. /\ Children = ChildrenOf(in) /\ Ranks = RanksOf(in)
      /\ Total(in) \in Nat /\ in.nranks \in Nat \ {0}
  BY ChunkParts, PlanNumbers, EstimateNumbers
<1>1. ASSUME NEW x \in Everything
      PROVE  /\ x[1] \in ChildrenOf(in) /\ x[2] \in RanksOf(in) /\ x[3] \in Nat
             /\ x[1] \in Nat /\ x[2] \in Nat
             /\ Offset(in, x[1], x[2]) \in Nat /\ Count(in, x[1], x[2]) \in Nat
             /\ Offset(in, x[1], x[2]) + Count(in, x[1], x[2]) <= Total(in)
             /\ x[3] < Count(in, x[1], x[2])
  <2>1. /\ x[1] \in Children /\ x[2] \in Ranks /\ x[3] \in Nat
        /\ x[3] < in.chunks[x[1]][x[2]] /\ ~Dropped(in, x[1], x[2])
        /\ x[1] \in Nat /\ x[2] \in Nat
    BY ChunkNumbers
  <2>2. Count(in, x[1], x[2]) = in.chunks[x[1]][x[2]]
    BY <2>1 DEF Count, Exact
  <2>. QED
    BY <1>0, <2>1, <2>2, BlockWithin
<1>2. ASSUME NEW x \in Everything
      PROVE  /\ Place(x) \in 0..(Total(in) - 1)
             /\ Owner(x) = PartitionOwner(Place(x), in.nranks, Total(in))
  BY <1>0, <1>1 DEF Place, Owner, Destination
<1>3. ASSUME NEW x \in Everything, NEW y \in Everything, Before(x, y)
      PROVE  Place(x) < Place(y)
  <2>1. \/ x[1] < y[1] \/ (x[1] = y[1] /\ x[2] < y[2])
        \/ (x[1] = y[1] /\ x[2] = y[2] /\ x[3] < y[3])
    BY <1>3 DEF Before
  <2>2. CASE x[1] < y[1] \/ (x[1] = y[1] /\ x[2] < y[2])
    <3>1. Offset(in, x[1], x[2]) + Count(in, x[1], x[2])
            <= Offset(in, y[1], y[2])
      BY <1>1, <2>2, BlocksInOrder
    <3>. QED
      BY <1>1, <3>1 DEF Place
  <2>3. CASE x[1] = y[1] /\ x[2] = y[2] /\ x[3] < y[3]
    <3>1. Offset(in, x[1], x[2]) = Offset(in, y[1], y[2])
      BY <2>3
    <3>. QED
      BY <1>1, <2>3, <3>1 DEF Place
  <2>. QED
    BY <2>1, <2>2, <2>3
<1>4. ASSUME NEW p \in 0..(Total(in) - 1)
      PROVE  \E x \in Everything : Place(x) = p
  <2>1. p \in Nat /\ p < Total(in)
    BY <1>0
  <2>2. PICK c \in ChildrenOf(in), r \in RanksOf(in) :
          Offset(in, c, r) <= p /\ p < Offset(in, c, r) + Count(in, c, r)
    BY <2>1, BlocksCover
  <2>3. Offset(in, c, r) \in Nat /\ Count(in, c, r) \in Nat
    BY BlockWithin
  <2>4. PICK i \in Nat : p = Offset(in, c, r) + i
    <3>1. p - Offset(in, c, r) \in Nat
          /\ p = Offset(in, c, r) + (p - Offset(in, c, r))
      BY <2>1, <2>2, <2>3
    <3>. QED
      BY <3>1
  <2>5. i < Count(in, c, r)
    BY <2>2, <2>3, <2>4
  <2>6. ~Dropped(in, c, r)
    BY <2>3, <2>5 DEF Count
  <2>7. in.chunks[c][r] = Count(in, c, r) /\ in.chunks[c][r] \in Nat
    BY <1>0, <2>3, <2>6 DEF Count, Exact
  <2>8. i \in 0..(in.chunks[c][r] - 1)
    BY <2>5, <2>7
  <2>9. <<c, r, i>> \in Everything
    BY <1>0, <2>6, <2>8, ChunkParts
  <2>10. Place(<<c, r, i>>) = p
    BY <2>4 DEF Place
  <2>. QED
    BY <2>9, <2>10
<1>. QED
  BY <1>2, <1>3, <1>4

\* The range of a rank lies within the partitions.
LEMMA RangeWithin ==
    ASSUME NEW nranks \in Nat \ {0}, NEW npartitions \in Nat,
           NEW r \in 0..(nranks - 1)
    PROVE  /\ PartitionRange(r, nranks, npartitions)[1] \in Nat
           /\ PartitionRange(r, nranks, npartitions)[2] \in Nat
           /\ PartitionRange(r, nranks, npartitions)[1] <=
                PartitionRange(r, nranks, npartitions)[2]
           /\ PartitionRange(r, nranks, npartitions)[2] <= npartitions
<1>. DEFINE low == (r * npartitions + nranks - 1) \div nranks
            high == ((r + 1) * npartitions + nranks - 1) \div nranks
<1>1. /\ PartitionRange(r, nranks, npartitions)[1] = low
      /\ PartitionRange(r, nranks, npartitions)[2] = high
  BY DEF PartitionRange
<1>2. /\ r * npartitions \in Nat /\ (r + 1) * npartitions \in Nat
      /\ r * npartitions <= (r + 1) * npartitions
      /\ (r + 1) * npartitions <= npartitions * nranks
  <2>1. (r + 1) * npartitions = r * npartitions + npartitions
        /\ r * npartitions \in Nat
    OBVIOUS
  <2>2. r + 1 <= nranks /\ r + 1 \in Nat
    OBVIOUS
  <2>. QED
    BY <2>1, <2>2
<1>3. high \in Nat /\ (high <= npartitions)
  BY <1>2, QuotientUp
<1>4. (r + 1) * npartitions <= high * nranks
  BY <1>2, <1>3, QuotientUp
<1>5. low \in Nat /\ low <= high
  <2>1. r * npartitions <= high * nranks
    <3>1. high * nranks \in Nat
      BY <1>3
    <3>. QED
      BY <1>2, <1>4, <3>1
  <2>. QED
    BY <1>2, <1>3, <2>1, QuotientUp
<1>. QED
  BY <1>1, <1>3, <1>5

\* A rank that has ended has replayed its promised number of chunks.
LEMMA PromiseKept ==
    ASSUME OrderInv, IInv
    PROVE  PromisedCounts
<1>. SUFFICES ASSUME Exact, NEW r \in Ranks, sampler[r] = "done"
              PROVE  Len(output[r]) = LocalCount(in, r)
  BY DEF PromisedCounts, Exact
<1>1. in \in Scenarios
  BY DEF IInv, Shape
<1>2. /\ in.nranks \in Nat \ {0} /\ Total(in) \in Nat
      /\ r \in 0..(in.nranks - 1)
  BY <1>1, EstimateNumbers, PlanNumbers DEF Ranks
<1>3. PICK low \in Nat, high \in Nat :
        /\ low = PartitionRange(r, in.nranks, Total(in))[1]
        /\ high = PartitionRange(r, in.nranks, Total(in))[2]
        /\ low <= high /\ high <= Total(in)
  BY <1>2, RangeWithin
<1>4. /\ output[r] \in Seq(Everything) /\ Sorted(output[r])
      /\ \A x \in Everything : x \in Range(output[r]) <=> Owner(x) = r
  BY OutputHolds
<1>5. /\ Len(output[r]) \in Nat /\ DOMAIN output[r] = 1..Len(output[r])
      /\ \A i \in 1..Len(output[r]) :
            output[r][i] \in Everything /\ output[r][i] \in Range(output[r])
  BY <1>4 DEF Range
<1>6. /\ \A x \in Everything :
            /\ Place(x) \in 0..(Total(in) - 1)
            /\ Owner(x) = PartitionOwner(Place(x), in.nranks, Total(in))
      /\ \A x, y \in Everything : Before(x, y) => Place(x) < Place(y)
      /\ \A p \in 0..(Total(in) - 1) : \E x \in Everything : Place(x) = p
  BY <1>1, PlacesExact
<1>7. ASSUME NEW x \in Everything
      PROVE  Owner(x) = r <=> low <= Place(x) /\ Place(x) < high
  <2>1. Place(x) \in 0..(Total(in) - 1)
    BY <1>6
  <2>2. Total(in) \in Nat \ {0}
    BY <1>2, <2>1
  <2>3. PartitionOwner(Place(x), in.nranks, Total(in)) = r <=>
            low <= Place(x) /\ Place(x) < high
    BY <1>2, <1>3, <2>1, <2>2, OwnerOfPartition
  <2>. QED
    BY <1>6, <2>3
<1>. DEFINE f == [i \in 1..Len(output[r]) |-> Place(output[r][i])]
<1>8. f \in [1..Len(output[r]) -> low..(high - 1)]
  <2>1. ASSUME NEW i \in 1..Len(output[r])
        PROVE  Place(output[r][i]) \in low..(high - 1)
    <3>1. output[r][i] \in Everything /\ Owner(output[r][i]) = r
      BY <1>4, <1>5
    <3>2. /\ Place(output[r][i]) \in 0..(Total(in) - 1)
          /\ low <= Place(output[r][i]) /\ Place(output[r][i]) < high
      BY <1>6, <1>7, <3>1
    <3>. QED
      BY <1>2, <3>2
  <2>. QED
    BY <2>1
<1>9. \A i, j \in 1..Len(output[r]) : i < j => f[i] < f[j]
  BY <1>4, <1>5, <1>6 DEF Sorted
<1>10. ASSUME NEW p \in low..(high - 1)
       PROVE  \E i \in 1..Len(output[r]) : f[i] = p
  <2>1. p \in 0..(Total(in) - 1) /\ low <= p /\ p < high
    BY <1>2, <1>3
  <2>2. PICK x \in Everything : Place(x) = p
    BY <1>6, <2>1
  <2>3. x \in Range(output[r])
    BY <1>4, <1>7, <2>1, <2>2
  <2>4. PICK i \in 1..Len(output[r]) : x = output[r][i]
    BY <1>5, <2>3 DEF Range
  <2>. QED
    BY <2>2, <2>4
<1>. HIDE DEF f
<1>11. Len(output[r]) = high - low
  <2>1. PICK n \in Nat : n = Len(output[r])
    BY <1>5
  <2>2. PICK g : g \in [1..n -> low..(high - 1)] /\ g = f
    BY <1>8, <2>1
  <2>3. \A i, j \in 1..n : i < j => g[i] < g[j]
    BY <1>9, <2>1, <2>2
  <2>4. \A p \in low..(high - 1) : \E i \in 1..n : g[i] = p
    BY <1>10, <2>1, <2>2
  <2>5. low <= high
    BY <1>3
  <2>6. Enumerates(g, n, low, high)
    BY <2>2, <2>3, <2>4, <2>5 DEF Enumerates
  <2>7. n = high - low
    BY <2>6, LengthOfInterval
  <2>. QED
    BY <2>1, <2>7
<1>. QED
  BY <1>3, <1>11 DEF LocalCount

\* With exact estimates every rank emits as many chunks as the metadata it sent
\* before the first of them promises, although routing and promise are computed
\* in different ways (_OrderedUnionPlan.local_count, union.py:154-157).
THEOREM PromisesKept == Spec => []PromisedCounts
<1>1. IInv /\ OrderInv => PromisedCounts
  BY PromiseKept
<1>. QED
  BY <1>1, OrderInvariance, PTL

=============================================================================
