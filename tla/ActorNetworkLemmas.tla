------------------------- MODULE ActorNetworkLemmas -------------------------
(***************************************************************************)
(* The inductive invariants of ActorNetwork, and lemmas about the          *)
(* Lineariser, the channels and the chunks that go through them, for every *)
(* plan, any capacity and any number of producers.                         *)
(***************************************************************************)
EXTENDS ActorNetwork, SequenceLemmas, FiniteSetTheorems, SequenceTheorems,
        TLAPS

-----------------------------------------------------------------------------
(* The Lineariser *)

\* A chunk of a scan: its number and the source chunks in it.
Chunks == [seq : Nat, data : Seq(Seq(Nat))]

\* The state of one Lineariser, with one entry per producer.
LineariserStates ==
    [producer : Seq({"acquire", "read", "drain", "done"}),
     next : Seq(Nat), inbox : Seq(Seq(Chunks)), slot : Seq(BOOLEAN),
     pending : SUBSET Nat, buffer : SUBSET Chunks, nextSeq : Nat]

\* One entry for every producer.
PerProducer(s) ==
    /\ DOMAIN s.next = DOMAIN s.producer
    /\ DOMAIN s.inbox = DOMAIN s.producer
    /\ DOMAIN s.slot = DOMAIN s.producer
    /\ s.pending \subseteq DOMAIN s.producer

\* The chunks of a producer are those whose number is its own modulo the
\* number of producers.
Numbered(s) ==
    /\ \A m \in s.buffer : ProducerOf(s, m.seq) \in DOMAIN s.producer
    /\ \A i \in DOMAIN s.producer :
        /\ ProducerOf(s, s.next[i]) = i
        /\ \A k \in DOMAIN s.inbox[i] : ProducerOf(s, s.inbox[i][k].seq) = i

\* Nothing of producer i waits to be forwarded.
NoneBuffered(s, i) == \A m \in s.buffer : ProducerOf(s, m.seq) # i

\* The slot of a producer is one token: it is free, the producer is reading,
\* its chunk is on the way, or its chunk is buffered.
OneToken(s) ==
    \A i \in DOMAIN s.producer :
        /\ s.slot[i] => /\ s.producer[i] # "read" /\ s.inbox[i] = <<>>
                        /\ NoneBuffered(s, i)
        /\ s.producer[i] = "read" => s.inbox[i] = <<>> /\ NoneBuffered(s, i)
        /\ s.inbox[i] # <<>> => Len(s.inbox[i]) = 1 /\ NoneBuffered(s, i)
        /\ \A m, o \in s.buffer :
            ProducerOf(s, m.seq) = i /\ ProducerOf(s, o.seq) = i => m = o

\* The invariant of a Lineariser.
Linearised(s) ==
    s \in LineariserStates /\ PerProducer(s) /\ Numbered(s) /\ OneToken(s)

\* The fields of a Lineariser have their types.
LEMMA Fields ==
    ASSUME NEW s, Linearised(s)
    PROVE  /\ s.producer \in Seq({"acquire", "read", "drain", "done"})
           /\ s.next \in Seq(Nat) /\ s.inbox \in Seq(Seq(Chunks))
           /\ s.slot \in Seq(BOOLEAN) /\ s.pending \subseteq Nat
           /\ s.buffer \subseteq Chunks /\ s.nextSeq \in Nat
           /\ Len(s.producer) \in Nat
           /\ DOMAIN s.producer = 1..Len(s.producer)
           /\ Len(s.next) = Len(s.producer) /\ Len(s.inbox) = Len(s.producer)
           /\ Len(s.slot) = Len(s.producer)
<1>1. /\ s.producer \in Seq({"acquire", "read", "drain", "done"})
      /\ s.next \in Seq(Nat) /\ s.inbox \in Seq(Seq(Chunks))
      /\ s.slot \in Seq(BOOLEAN) /\ s.pending \subseteq Nat
      /\ s.buffer \subseteq Chunks /\ s.nextSeq \in Nat
  BY DEF Linearised, LineariserStates
<1>2. /\ DOMAIN s.next = DOMAIN s.producer
      /\ DOMAIN s.inbox = DOMAIN s.producer
      /\ DOMAIN s.slot = DOMAIN s.producer
  BY DEF Linearised, PerProducer
<1>. QED
  BY <1>1, <1>2

\* Sequence numbers that differ by the number of producers are of the same
\* producer.
LEMMA ModulusAdd ==
    ASSUME NEW n \in Nat \ {0}, NEW x \in Nat
    PROVE  (x + n) % n = x % n
<1>. DEFINE q == x \div n
            r == x % n
            p == (x + n) \div n
            s == (x + n) % n
<1>1. q \in Int /\ r \in 0..(n - 1) /\ x = n * q + r
  OBVIOUS
<1>2. p \in Int /\ s \in 0..(n - 1) /\ x + n = n * p + s
  OBVIOUS
<1>. HIDE DEF q, r, p, s
<1>3. \A z \in Int : z >= 1 => n * z >= n
  OBVIOUS
<1>4. n * (p - q - 1) = r - s /\ n * (q + 1 - p) = s - r
  BY <1>1, <1>2
<1>5. ~(p - q - 1 >= 1) /\ ~(q + 1 - p >= 1)
  BY <1>1, <1>2, <1>3, <1>4
<1>6. p = q + 1
  BY <1>1, <1>2, <1>5
<1>. QED
  BY <1>1, <1>2, <1>4, <1>6 DEF r, s

\* A Lineariser starts with all slots free.
LEMMA StartsLinearised ==
    ASSUME NEW n \in Nat
    PROVE  Linearised(InitLineariser(n)) /\ Len(InitLineariser(n).producer) = n
<1>. DEFINE s == InitLineariser(n)
<1>1. /\ s.producer = [i \in 1..n |-> "acquire"]
      /\ s.next = [i \in 1..n |-> i - 1]
      /\ s.inbox = [i \in 1..n |-> <<>>]
      /\ s.slot = [i \in 1..n |-> TRUE]
      /\ s.pending = 1..n /\ s.buffer = {} /\ s.nextSeq = 0
  BY DEF InitLineariser
<1>2. /\ s.producer \in Seq({"acquire", "read", "drain", "done"})
      /\ Len(s.producer) = n /\ DOMAIN s.producer = 1..n
  BY <1>1
<1>3. /\ s.next \in Seq(Nat) /\ s.inbox \in Seq(Seq(Chunks))
      /\ s.slot \in Seq(BOOLEAN)
  BY <1>1
<1>4. s \in LineariserStates
  BY <1>1, <1>2, <1>3 DEF LineariserStates, InitLineariser
<1>5. PerProducer(s)
  BY <1>1, <1>2 DEF PerProducer
<1>6. Numbered(s)
  <2>1. \A i \in 1..n : (i - 1) % n = i - 1
    OBVIOUS
  <2>. QED
    BY <1>1, <1>2, <2>1 DEF Numbered, ProducerOf
<1>7. OneToken(s)
  BY <1>1, <1>2 DEF OneToken, NoneBuffered
<1>. QED
  BY <1>2, <1>4, <1>5, <1>6, <1>7 DEF Linearised

\* A producer takes its slot.
LEMMA TakesSlot ==
    ASSUME NEW s, Linearised(s), NEW i \in DOMAIN s.producer,
           s.producer[i] = "acquire", s.slot[i]
    PROVE  Linearised([s EXCEPT !.producer[i] = "read", !.slot[i] = FALSE])
<1>. DEFINE t == [s EXCEPT !.producer[i] = "read", !.slot[i] = FALSE]
<1>0. s \in LineariserStates /\ PerProducer(s) /\ Numbered(s) /\ OneToken(s)
  BY DEF Linearised
<1>1. /\ t.producer = [s.producer EXCEPT ![i] = "read"]
      /\ t.slot = [s.slot EXCEPT ![i] = FALSE]
      /\ t.next = s.next /\ t.inbox = s.inbox /\ t.buffer = s.buffer
      /\ t.pending = s.pending /\ t.nextSeq = s.nextSeq
  BY <1>0 DEF LineariserStates
<1>2. /\ t.producer \in Seq({"acquire", "read", "drain", "done"})
      /\ t.slot \in Seq(BOOLEAN)
      /\ DOMAIN t.producer = DOMAIN s.producer
      /\ DOMAIN t.slot = DOMAIN s.slot
      /\ Len(t.producer) = Len(s.producer)
      /\ t.producer[i] = "read" /\ t.slot[i] = FALSE
      /\ \A j \in DOMAIN s.producer \ {i} : /\ t.producer[j] = s.producer[j]
                                            /\ t.slot[j] = s.slot[j]
  BY <1>1, Fields, EntryReplaced
<1>3. \A k : ProducerOf(t, k) = ProducerOf(s, k)
  BY <1>2 DEF ProducerOf
<1>. HIDE DEF t
<1>4. PerProducer(t) /\ Numbered(t)
  BY <1>0, <1>1, <1>2, <1>3 DEF PerProducer, Numbered
<1>5. \A j : NoneBuffered(t, j) <=> NoneBuffered(s, j)
  BY <1>1, <1>3 DEF NoneBuffered
<1>6. t \in LineariserStates
  BY <1>0, <1>2, Fields DEF LineariserStates, t
<1>7. OneToken(t)
  BY <1>0, <1>1, <1>2, <1>3, <1>5 DEF OneToken
<1>. QED
  BY <1>4, <1>6, <1>7 DEF Linearised, t

\* It sends the chunk it has read.
LEMMA SendsChunk ==
    ASSUME NEW s, Linearised(s), NEW i \in DOMAIN s.producer,
           s.producer[i] = "read", NEW d \in Seq(Seq(Nat)),
           NEW l \in {"acquire", "drain"}
    PROVE  Linearised([s EXCEPT
                !.inbox[i] = Append(@, [seq |-> s.next[i], data |-> d]),
                !.next[i] = @ + Len(s.producer),
                !.producer[i] = l])
<1>. DEFINE c == [seq |-> s.next[i], data |-> d]
            t == [s EXCEPT !.inbox[i] = Append(@, c),
                           !.next[i] = @ + Len(s.producer),
                           !.producer[i] = l]
<1>0. s \in LineariserStates /\ PerProducer(s) /\ Numbered(s) /\ OneToken(s)
  BY DEF Linearised
<1>a. /\ s.inbox[i] = <<>> /\ NoneBuffered(s, i) /\ ~s.slot[i]
  BY <1>0 DEF OneToken
<1>1. /\ i \in 1..Len(s.next) /\ i \in 1..Len(s.inbox)
      /\ s.next[i] \in Nat /\ Len(s.producer) \in Nat \ {0}
  <2>1. /\ i \in 1..Len(s.producer) /\ Len(s.producer) \in Nat
        /\ Len(s.next) = Len(s.producer) /\ Len(s.inbox) = Len(s.producer)
        /\ s.next \in Seq(Nat)
    BY Fields
  <2>2. s.next[i] \in Nat
    BY <2>1, ElementOfSeq
  <2>. QED
    BY <2>1, <2>2
<1>2. c \in Chunks /\ Append(s.inbox[i], c) = <<c>> /\ <<c>> \in Seq(Chunks)
  BY <1>1, <1>a DEF Chunks
<1>3. /\ t.producer = [s.producer EXCEPT ![i] = l]
      /\ t.inbox = [s.inbox EXCEPT ![i] = <<c>>]
      /\ t.next = [s.next EXCEPT ![i] = @ + Len(s.producer)]
      /\ t.slot = s.slot /\ t.buffer = s.buffer /\ t.pending = s.pending
      /\ t.nextSeq = s.nextSeq
  BY <1>0, <1>2 DEF LineariserStates, PerProducer
<1>8. c.seq = s.next[i]
  OBVIOUS
<1>. HIDE DEF t, c
<1>4. /\ t.producer \in Seq({"acquire", "read", "drain", "done"})
      /\ DOMAIN t.producer = DOMAIN s.producer
      /\ Len(t.producer) = Len(s.producer)
      /\ t.producer[i] = l
      /\ \A j \in DOMAIN s.producer \ {i} : t.producer[j] = s.producer[j]
  <2>1. /\ s.producer \in Seq({"acquire", "read", "drain", "done"})
        /\ i \in 1..Len(s.producer)
        /\ l \in {"acquire", "read", "drain", "done"}
    BY Fields
  <2>. QED
    BY <1>3, <2>1, EntryReplaced
<1>b. /\ t.inbox \in Seq(Seq(Chunks)) /\ DOMAIN t.inbox = DOMAIN s.producer
      /\ t.inbox[i] = <<c>>
      /\ \A j \in DOMAIN s.producer \ {i} : t.inbox[j] = s.inbox[j]
  <2>1. s.inbox \in Seq(Seq(Chunks)) /\ DOMAIN s.inbox = DOMAIN s.producer
    BY <1>0, Fields DEF PerProducer
  <2>. QED
    BY <1>1, <1>2, <1>3, <2>1, EntryReplaced
<1>c. /\ t.next \in Seq(Nat) /\ DOMAIN t.next = DOMAIN s.producer
      /\ t.next[i] = s.next[i] + Len(s.producer)
      /\ \A j \in DOMAIN s.producer \ {i} : t.next[j] = s.next[j]
  <2>1. s.next[i] + Len(s.producer) \in Nat
    BY <1>1
  <2>. QED
    BY <1>1, <1>3, <2>1, Fields, EntryReplaced
<1>5. t \in LineariserStates
  BY <1>0, <1>4, <1>b, <1>c, Fields DEF LineariserStates, t
<1>6. \A k : ProducerOf(t, k) = ProducerOf(s, k)
  BY <1>4 DEF ProducerOf
<1>9. PerProducer(t)
  BY <1>0, <1>3, <1>4, <1>b, <1>c DEF PerProducer
<1>10. ProducerOf(s, s.next[i] + Len(s.producer)) = i
  BY <1>0, <1>1, ModulusAdd DEF ProducerOf, Numbered
<1>11. Numbered(t)
  <2>1. \A m \in t.buffer : ProducerOf(t, m.seq) \in DOMAIN t.producer
    BY <1>0, <1>3, <1>4, <1>6 DEF Numbered
  <2>2. /\ ProducerOf(t, t.next[i]) = i
        /\ \A k \in DOMAIN t.inbox[i] : ProducerOf(t, t.inbox[i][k].seq) = i
    <3>1. \A k \in DOMAIN t.inbox[i] : t.inbox[i][k].seq = s.next[i]
      BY <1>b, <1>8
    <3>2. ProducerOf(s, s.next[i]) = i
      BY <1>0 DEF Numbered
    <3>. QED
      BY <1>c, <1>6, <1>10, <3>1, <3>2
  <2>3. ASSUME NEW j \in DOMAIN s.producer \ {i}
        PROVE  /\ ProducerOf(t, t.next[j]) = j
               /\ \A k \in DOMAIN t.inbox[j] :
                    ProducerOf(t, t.inbox[j][k].seq) = j
    <3>1. t.next[j] = s.next[j] /\ t.inbox[j] = s.inbox[j]
      BY <1>b, <1>c
    <3>2. /\ ProducerOf(s, s.next[j]) = j
          /\ \A k \in DOMAIN s.inbox[j] : ProducerOf(s, s.inbox[j][k].seq) = j
      BY <1>0 DEF Numbered
    <3>. QED
      BY <1>6, <3>1, <3>2
  <2>. QED
    BY <1>4, <2>1, <2>2, <2>3 DEF Numbered
<1>12. \A j : NoneBuffered(t, j) <=> NoneBuffered(s, j)
  BY <1>3, <1>6 DEF NoneBuffered
<1>13. OneToken(t)
  <2>1. Len(t.inbox[i]) = 1 /\ t.producer[i] # "read" /\ ~t.slot[i]
    BY <1>a, <1>b, <1>3, <1>4
  <2>2. \A j \in DOMAIN s.producer \ {i} :
            /\ t.producer[j] = s.producer[j] /\ t.inbox[j] = s.inbox[j]
    BY <1>4, <1>b
  <2>. QED
    BY <1>0, <1>a, <1>3, <1>4, <1>6, <1>12, <2>1, <2>2 DEF OneToken
<1>. QED
  BY <1>5, <1>9, <1>11, <1>13 DEF Linearised, t, c

\* Its channel is drained.
LEMMA EndsProducing ==
    ASSUME NEW s, Linearised(s), NEW i \in DOMAIN s.producer
    PROVE  Linearised([s EXCEPT !.producer[i] = "done"])
<1>. DEFINE t == [s EXCEPT !.producer[i] = "done"]
<1>0. s \in LineariserStates /\ PerProducer(s) /\ Numbered(s) /\ OneToken(s)
  BY DEF Linearised
<1>1. /\ t.producer = [s.producer EXCEPT ![i] = "done"]
      /\ t.slot = s.slot /\ t.next = s.next /\ t.inbox = s.inbox
      /\ t.buffer = s.buffer /\ t.pending = s.pending
  BY <1>0 DEF LineariserStates
<1>2. /\ t.producer \in Seq({"acquire", "read", "drain", "done"})
      /\ DOMAIN t.producer = DOMAIN s.producer
      /\ Len(t.producer) = Len(s.producer)
      /\ t.producer[i] = "done"
      /\ \A j \in DOMAIN s.producer \ {i} : t.producer[j] = s.producer[j]
  BY <1>1, Fields, EntryReplaced
<1>3. \A k : ProducerOf(t, k) = ProducerOf(s, k)
  BY <1>2 DEF ProducerOf
<1>4. t \in LineariserStates
  BY <1>0, <1>2 DEF LineariserStates
<1>. HIDE DEF t
<1>5. PerProducer(t) /\ Numbered(t)
  BY <1>0, <1>1, <1>2, <1>3 DEF PerProducer, Numbered
<1>6. \A j : NoneBuffered(t, j) <=> NoneBuffered(s, j)
  BY <1>1, <1>3 DEF NoneBuffered
<1>7. OneToken(t)
  BY <1>0, <1>1, <1>2, <1>3, <1>6 DEF OneToken
<1>. QED
  BY <1>4, <1>5, <1>7 DEF Linearised, t

\* What the Lineariser receives it buffers.
BufferReceived(s, done) ==
    [s EXCEPT
        !.pending = @ \ done,
        !.buffer = @ \cup UNION {{Head(s.inbox[i])} :
                        i \in {j \in done : s.inbox[j] # <<>>}},
        !.inbox = [i \in DOMAIN @ |->
                        IF i \in done /\ @[i] # <<>> THEN Tail(@[i])
                        ELSE @[i]]]

\* Each chunk it buffers is the only one of its producer.
LEMMA BuffersChunks ==
    ASSUME NEW s, Linearised(s), NEW done \in SUBSET s.pending
    PROVE  Linearised(BufferReceived(s, done))
<1>. DEFINE t == BufferReceived(s, done)
            full == {j \in done : s.inbox[j] # <<>>}
            new == UNION {{Head(s.inbox[i])} : i \in full}
<1>0. s \in LineariserStates /\ PerProducer(s) /\ Numbered(s) /\ OneToken(s)
  BY DEF Linearised
<1>1. /\ t.producer = s.producer /\ t.slot = s.slot /\ t.next = s.next
      /\ t.nextSeq = s.nextSeq
      /\ t.pending = s.pending \ done
      /\ t.buffer = s.buffer \cup new
      /\ t.inbox = [i \in DOMAIN s.inbox |->
                        IF i \in full THEN Tail(s.inbox[i]) ELSE s.inbox[i]]
  BY <1>0 DEF LineariserStates, BufferReceived
<1>2. \A k : ProducerOf(t, k) = ProducerOf(s, k)
  BY <1>1 DEF ProducerOf
<1>3. \A i \in full :
        /\ i \in DOMAIN s.producer
        /\ s.inbox[i] \in Seq(Chunks) /\ Len(s.inbox[i]) = 1
        /\ NoneBuffered(s, i) /\ ~s.slot[i] /\ s.producer[i] # "read"
  BY <1>0 DEF LineariserStates, PerProducer, OneToken
<1>6a. \A q \in Seq(Chunks) : Len(q) = 1 =>
            /\ Tail(q) = <<>> /\ Head(q) = q[1] /\ 1 \in DOMAIN q
            /\ q[1] \in Chunks
  <2>. SUFFICES ASSUME NEW q \in Seq(Chunks), Len(q) = 1
                PROVE  /\ Tail(q) = <<>> /\ Head(q) = q[1] /\ 1 \in DOMAIN q
                       /\ q[1] \in Chunks
    OBVIOUS
  <2>1. Tail(q) \in Seq(Chunks) /\ Len(Tail(q)) = 0
    OBVIOUS
  <2>2. Tail(q) = <<>>
    BY <2>1, EmptySeq
  <2>. QED
    BY <2>2
<1>4. \A i \in full :
        /\ Tail(s.inbox[i]) = <<>>
        /\ Head(s.inbox[i]) = s.inbox[i][1] /\ 1 \in DOMAIN s.inbox[i]
        /\ Head(s.inbox[i]) \in Chunks
  BY <1>3, <1>6a
<1>5. \A i \in full : ProducerOf(s, Head(s.inbox[i]).seq) = i
  BY <1>0, <1>3, <1>4 DEF Numbered
<1>6. \A m \in new : \E i \in full : m = Head(s.inbox[i])
  OBVIOUS
<1>7. \A i \in DOMAIN s.producer :
        t.inbox[i] = IF i \in full THEN <<>> ELSE s.inbox[i]
  BY <1>0, <1>1, <1>4 DEF PerProducer
<1>8. t \in LineariserStates
  <2>1. new \subseteq Chunks
    BY <1>4, <1>6
  <2>2. DOMAIN t.inbox = DOMAIN s.inbox
    BY <1>1
  <2>3. \A i \in DOMAIN s.inbox : t.inbox[i] \in Seq(Chunks)
    <3>1. \A i \in DOMAIN s.inbox : s.inbox[i] \in Seq(Chunks)
      BY Fields
    <3>2. <<>> \in Seq(Chunks)
      OBVIOUS
    <3>. QED
      BY <1>0, <1>7, <3>1, <3>2 DEF PerProducer
  <2>4. t.inbox \in Seq(Seq(Chunks))
    <3>1. DOMAIN s.inbox = 1..Len(s.inbox) /\ Len(s.inbox) \in Nat
      BY Fields
    <3>2. t.inbox = [i \in 1..Len(s.inbox) |-> t.inbox[i]]
      BY <1>1, <2>2, <3>1
    <3>. QED
      BY <2>3, <3>1, <3>2
  <2>. QED
    BY <1>0, <1>1, <2>1, <2>4 DEF LineariserStates, BufferReceived
<1>. HIDE DEF t, full, new
<1>9. PerProducer(t)
  BY <1>0, <1>1 DEF PerProducer
<1>10. Numbered(t)
  <2>1. \A m \in t.buffer : ProducerOf(t, m.seq) \in DOMAIN t.producer
    BY <1>0, <1>1, <1>2, <1>3, <1>5, <1>6 DEF Numbered
  <2>2. ASSUME NEW i \in DOMAIN t.producer
        PROVE  /\ ProducerOf(t, t.next[i]) = i
               /\ \A k \in DOMAIN t.inbox[i] :
                    ProducerOf(t, t.inbox[i][k].seq) = i
    <3>1. i \in DOMAIN s.producer /\ t.next[i] = s.next[i]
      BY <1>1
    <3>. QED
      BY <1>0, <1>2, <1>7, <3>1 DEF Numbered
  <2>. QED
    BY <2>1, <2>2 DEF Numbered
<1>11. \A i \in DOMAIN s.producer \ full : NoneBuffered(s, i) => NoneBuffered(t, i)
  BY <1>1, <1>2, <1>5, <1>6 DEF NoneBuffered
<1>12. OneToken(t)
  <2>. SUFFICES ASSUME NEW i \in DOMAIN t.producer
                PROVE  /\ t.slot[i] => /\ t.producer[i] # "read"
                                       /\ t.inbox[i] = <<>>
                                       /\ NoneBuffered(t, i)
                       /\ t.producer[i] = "read" =>
                            t.inbox[i] = <<>> /\ NoneBuffered(t, i)
                       /\ t.inbox[i] # <<>> =>
                            Len(t.inbox[i]) = 1 /\ NoneBuffered(t, i)
                       /\ \A m, o \in t.buffer :
                            ProducerOf(t, m.seq) = i /\ ProducerOf(t, o.seq) = i
                                => m = o
    BY DEF OneToken
  <2>0. i \in DOMAIN s.producer /\ t.slot[i] = s.slot[i]
        /\ t.producer[i] = s.producer[i]
    BY <1>1
  <2>1. CASE i \in full
    <3>1. \A m \in t.buffer : ProducerOf(s, m.seq) = i => m = Head(s.inbox[i])
      BY <1>1, <1>3, <1>5, <1>6, <2>1 DEF NoneBuffered
    <3>. QED
      BY <1>2, <1>3, <1>7, <2>0, <2>1, <3>1
  <2>2. CASE i \notin full
    <3>1. \A m \in t.buffer : ProducerOf(s, m.seq) = i => m \in s.buffer
      BY <1>1, <1>5, <1>6, <2>2
    <3>. QED
      BY <1>0, <1>2, <1>7, <1>11, <2>0, <2>2, <3>1 DEF OneToken
  <2>. QED
    BY <2>1, <2>2
<1>. QED
  BY <1>8, <1>9, <1>10, <1>12 DEF Linearised, t

\* Forwarding a chunk gives its producer the slot back.
LEMMA ForwardsChunk ==
    ASSUME NEW s, Linearised(s), NEW m \in s.buffer,
           NEW i, i = ProducerOf(s, m.seq)
    PROVE  Linearised([s EXCEPT !.buffer = @ \ {m}, !.slot[i] = TRUE,
                                !.pending = @ \cup {i}, !.nextSeq = @ + 1])
<1>. DEFINE t == [s EXCEPT !.buffer = @ \ {m}, !.slot[i] = TRUE,
                           !.pending = @ \cup {i}, !.nextSeq = @ + 1]
<1>0. s \in LineariserStates /\ PerProducer(s) /\ Numbered(s) /\ OneToken(s)
  BY DEF Linearised
<1>1. i \in DOMAIN s.producer /\ i \in 1..Len(s.slot) /\ i \in Nat
  BY <1>0, Fields DEF Numbered
<1>2. /\ t.producer = s.producer /\ t.next = s.next /\ t.inbox = s.inbox
      /\ t.buffer = s.buffer \ {m} /\ t.pending = s.pending \cup {i}
      /\ t.slot = [s.slot EXCEPT ![i] = TRUE] /\ t.nextSeq = s.nextSeq + 1
  BY <1>0 DEF LineariserStates
<1>3. /\ t.slot \in Seq(BOOLEAN) /\ DOMAIN t.slot = DOMAIN s.slot
      /\ \A j \in DOMAIN s.producer \ {i} : t.slot[j] = s.slot[j]
  BY <1>1, <1>2, Fields, EntryReplaced
<1>4. t \in LineariserStates
  <2>1. t.pending \subseteq Nat /\ t.buffer \subseteq Chunks /\ t.nextSeq \in Nat
    BY <1>1, <1>2, Fields
  <2>. QED
    BY <1>0, <1>3, <2>1 DEF LineariserStates
<1>5. \A k : ProducerOf(t, k) = ProducerOf(s, k)
  BY <1>2 DEF ProducerOf
<1>. HIDE DEF t
<1>6. PerProducer(t) /\ Numbered(t)
  BY <1>0, <1>1, <1>2, <1>3, <1>5 DEF PerProducer, Numbered
<1>7. \A j \in DOMAIN s.producer : NoneBuffered(s, j) => NoneBuffered(t, j)
  BY <1>2, <1>5 DEF NoneBuffered
<1>8. NoneBuffered(t, i) /\ ~NoneBuffered(s, i)
  BY <1>0, <1>1, <1>2, <1>5 DEF NoneBuffered, OneToken
<1>9. OneToken(t)
  BY <1>0, <1>1, <1>2, <1>3, <1>5, <1>7, <1>8 DEF OneToken
<1>. QED
  BY <1>4, <1>6, <1>9 DEF Linearised, t

-----------------------------------------------------------------------------
(* The inductive invariant *)

\* The channels of the generated network.
Channels == UNION {Chans(a) : a \in Actors}

\* The network is the one that was generated: no action adds a channel, an
\* actor or a node.
NetworkShape ==
    /\ plan \in Plans
    /\ queue = [c \in Channels |-> queue[c]]
    /\ md \in [Channels -> {"none", "sent", "taken", "shut"}]
    /\ pc = [a \in Actors |-> pc[a]]
    /\ \A c \in Channels : IsSequence(queue[c])

\* Every scan has a Lineariser that is as it must be.
Linearisers ==
    /\ lin = [n \in Nodes |-> lin[n]]
    /\ \A n \in Nodes : Linearised(lin[n])

\* The inductive invariant.
IInv == TypeOK /\ NetworkShape /\ Linearisers

\* The parts of the invariant about channels and about where actors are.
ChannelState ==
    /\ shut \subseteq Channels
    /\ queue = [c \in Channels |-> queue[c]]
    /\ md \in [Channels -> {"none", "sent", "taken", "shut"}]
    /\ \A c \in Channels :
        /\ IsSequence(queue[c]) /\ Len(queue[c]) <= Capacity
        /\ c \in shut => queue[c] = <<>>

\* The steps of an actor of kind k.
StepsOf(k) ==
    {"recv metadata", "send metadata", "drain metadata", "drain", "done"} \cup
        CASE k = "source" -> {"send"}
          [] k = "scan" -> {"forward", "wait"}
          [] k = "unbounded" -> {"loop"}
          [] k = "sink" -> {"recv"}
          [] OTHER -> {"recv", "send"}

\* Actors are at steps of their kind.
ActorState ==
    /\ pc = [a \in Actors |-> pc[a]]
    /\ \A a \in Actors : pc[a] \in StepsOf(Kind(a))

\* The plan and the fanout policies of its nodes.
NetworkState ==
    plan \in Plans /\ fanout \in [Nodes -> {"none", "bounded", "unbounded"}]

\* The invariant by what its parts are about.
LEMMA InvariantParts ==
    IInv <=> NetworkState /\ ChannelState /\ ActorState /\ Linearisers
<1>1. queue = [c \in Channels |-> queue[c]] => DOMAIN queue = Channels
  OBVIOUS
<1>2. (\A a \in Actors : pc[a] \in StepsOf(Kind(a))) <=>
        \A a \in Actors :
            pc[a] \in {"recv metadata", "send metadata", "drain metadata",
                       "drain", "done"} \cup
                CASE Kind(a) = "source" -> {"send"}
                  [] Kind(a) = "scan" -> {"forward", "wait"}
                  [] Kind(a) = "unbounded" -> {"loop"}
                  [] Kind(a) = "sink" -> {"recv"}
                  [] OTHER -> {"recv", "send"}
  BY DEF StepsOf
<1>. QED
  BY <1>1, <1>2 DEF IInv, TypeOK, NetworkShape, NetworkState, ChannelState,
                    ActorState

\* The network never changes.
LEMMA NetworkStays ==
    ASSUME UNCHANGED netVars
    PROVE  /\ Nodes' = Nodes /\ Actors' = Actors /\ Channels' = Channels
           /\ \A a : Kind(a)' = Kind(a)
  BY DEF netVars, Nodes, Root, Actors, Channels, Chans, Kind, In, Out, Slot

-----------------------------------------------------------------------------
(* What actions do to channels *)

\* A send puts one message where there is room, or drops it.
LEMMA SendKeeps ==
    ASSUME ChannelState, UNCHANGED netVars, NEW c, NEW m, Send(c, m),
           shut' = shut, md' = md
    PROVE  ChannelState'
<1>0. Channels' = Channels
  BY NetworkStays
<1>1. CASE c \in shut
  BY <1>0, <1>1 DEF ChannelState, Send
<1>2. CASE c \notin shut
  <2>1. /\ queue' = [queue EXCEPT ![c] = Append(@, m)]
        /\ Len(queue[c]) < Capacity
    BY <1>2 DEF Send, HasRoom
  <2>2. /\ queue' = [d \in Channels |-> queue'[d]]
        /\ \A d \in Channels :
            queue'[d] = IF d = c THEN Append(queue[c], m) ELSE queue[d]
    BY <2>1 DEF ChannelState
  <2>3. c \in Channels => IsSequence(queue[c])
    BY DEF ChannelState
  <2>4. c \in Channels => /\ IsSequence(Append(queue[c], m))
                          /\ Len(Append(queue[c], m)) <= Capacity
    BY <2>1, <2>3, AppendIsSequence, ActorNetworkAssumption
  <2>. QED
    BY <1>0, <1>2, <2>2, <2>4 DEF ChannelState
<1>. QED
  BY <1>1, <1>2

\* A receive takes the first message of a channel that is not shut.
LEMMA ReceiveKeeps ==
    ASSUME ChannelState, UNCHANGED netVars, NEW c, queue[c] # <<>>,
           queue' = [queue EXCEPT ![c] = Tail(@)], shut' = shut, md' = md
    PROVE  ChannelState'
<1>0. Channels' = Channels
  BY NetworkStays
<1>1. /\ queue' = [d \in Channels |-> queue'[d]]
      /\ \A d \in Channels :
            queue'[d] = IF d = c THEN Tail(queue[c]) ELSE queue[d]
  BY DEF ChannelState
<1>2. c \in Channels => IsSequence(queue[c]) /\ c \notin shut
                        /\ Len(queue[c]) <= Capacity
  BY DEF ChannelState
<1>3. c \in Channels => /\ IsSequence(Tail(queue[c]))
                        /\ Len(Tail(queue[c])) <= Capacity
  BY <1>2, TailIsSequence, ActorNetworkAssumption
<1>. QED
  BY <1>0, <1>1, <1>2, <1>3 DEF ChannelState

\* shutdown_channels leaves nothing in the channels it shuts.
LEMMA ShutDownKeeps ==
    ASSUME ChannelState, UNCHANGED netVars, NEW cs, cs \subseteq Channels,
           ShutDown(cs)
    PROVE  ChannelState'
<1>0. Channels' = Channels /\ DOMAIN queue = Channels /\ DOMAIN md = Channels
  BY NetworkStays DEF ChannelState
<1>1. /\ queue' = [c \in Channels |-> queue'[c]]
      /\ \A c \in Channels :
            queue'[c] = IF c \in cs THEN <<>> ELSE queue[c]
  BY <1>0 DEF ShutDown
<1>2. md' \in [Channels -> {"none", "sent", "taken", "shut"}]
  BY <1>0 DEF ShutDown, ChannelState
<1>3. IsSequence(<<>>) /\ Len(<<>>) <= Capacity
  BY ActorNetworkAssumption, EmptySeq DEF IsSequence
<1>. QED
  BY <1>0, <1>1, <1>2, <1>3 DEF ChannelState, ShutDown

\* A drained channel is empty when it is shut.
LEMMA DrainKeeps ==
    ASSUME ChannelState, UNCHANGED netVars, NEW c \in Channels,
           queue[c] = <<>>, shut' = shut \cup {c}, queue' = queue, md' = md
    PROVE  ChannelState'
  BY NetworkStays DEF ChannelState

\* Metadata messages do not touch the data path.
LEMMA MetadataKeeps ==
    ASSUME ChannelState, UNCHANGED netVars, shut' = shut, queue' = queue,
           md' \in [Channels -> {"none", "sent", "taken", "shut"}]
    PROVE  ChannelState'
  BY NetworkStays DEF ChannelState

\* An actor goes on to a step of its kind, or stays.
LEMMA GotoKeeps ==
    ASSUME ActorState, UNCHANGED netVars, NEW a \in Actors,
           NEW l \in StepsOf(Kind(a)), Goto(a, l)
    PROVE  ActorState'
<1>0. Actors' = Actors /\ \A b : Kind(b)' = Kind(b)
  BY NetworkStays
<1>1. /\ pc' = [b \in Actors |-> pc'[b]] /\ pc'[a] = l
      /\ \A b \in Actors \ {a} : pc'[b] = pc[b]
  BY DEF ActorState, Goto
<1>. QED
  BY <1>0, <1>1 DEF ActorState

\* Nothing about actors changes when none moves.
LEMMA StayKeeps ==
    ASSUME ActorState, UNCHANGED netVars, pc' = pc
    PROVE  ActorState'
  BY NetworkStays DEF ActorState

\* An actor that ends shuts only channels of the network.
LEMMA EndKeeps ==
    ASSUME ChannelState, ActorState, UNCHANGED netVars, NEW a \in Actors,
           End(a)
    PROVE  ChannelState' /\ ActorState'
<1>1. Chans(a) \subseteq Channels
  BY DEF Channels
<1>2. "done" \in StepsOf(Kind(a))
  BY DEF StepsOf
<1>. QED
  BY <1>1, <1>2, ShutDownKeeps, GotoKeeps DEF End

-----------------------------------------------------------------------------
(* What a step of an actor amounts to *)

\* What a step does to the channels: nothing, a send, a receive, a shutdown
\* of an empty channel, or metadata.
ChannelEffect ==
    \/ UNCHANGED chanVars
    \/ UNCHANGED <<shut, md>> /\ \E c, m : Send(c, m)
    \/ UNCHANGED <<shut, md>>
       /\ \E c : queue[c] # <<>> /\ queue' = [queue EXCEPT ![c] = Tail(@)]
    \/ UNCHANGED <<queue, md>>
       /\ \E c \in Channels : queue[c] = <<>> /\ shut' = shut \cup {c}
    \/ UNCHANGED <<queue, shut>>
       /\ md' \in [Channels -> {"none", "sent", "taken", "shut"}]

\* The actor stays or goes on to a step of its kind.
PlaceEffect(a) == pc' = pc \/ \E l \in StepsOf(Kind(a)) : Goto(a, l)

\* The actor ends, or it changes one channel and goes on.
Effect(a) ==
    UNCHANGED netVars /\ (End(a) \/ (ChannelEffect /\ PlaceEffect(a)))

\* Such a step keeps the network, the channels and the actors as they must be.
LEMMA EffectKeeps ==
    ASSUME NetworkState, ChannelState, ActorState, NEW a \in Actors, Effect(a)
    PROVE  NetworkState' /\ ChannelState' /\ ActorState'
<1>0. UNCHANGED netVars
  BY DEF Effect
<1>1. NetworkState'
  BY <1>0, NetworkStays DEF NetworkState, netVars
<1>2. CASE End(a)
  BY <1>0, <1>1, <1>2, EndKeeps
<1>3. CASE ChannelEffect /\ PlaceEffect(a)
  <2>1. ActorState'
    BY <1>0, <1>3, GotoKeeps, StayKeeps DEF PlaceEffect
  <2>. SUFFICES ChannelState'
    BY <1>1, <2>1
  <2>2. CASE UNCHANGED chanVars
    BY <1>0, <2>2, NetworkStays DEF chanVars, ChannelState
  <2>3. CASE UNCHANGED <<shut, md>> /\ \E c, m : Send(c, m)
    BY <1>0, <2>3, SendKeeps
  <2>4. CASE /\ UNCHANGED <<shut, md>>
             /\ \E c : queue[c] # <<>> /\ queue' = [queue EXCEPT ![c] = Tail(@)]
    BY <1>0, <2>4, ReceiveKeeps
  <2>5. CASE /\ UNCHANGED <<queue, md>>
             /\ \E c \in Channels : queue[c] = <<>> /\ shut' = shut \cup {c}
    BY <1>0, <2>5, DrainKeeps
  <2>6. CASE /\ UNCHANGED <<queue, shut>>
             /\ md' \in [Channels -> {"none", "sent", "taken", "shut"}]
    BY <1>0, <2>6, MetadataKeeps
  <2>. QED
    BY <1>3, <2>2, <2>3, <2>4, <2>5, <2>6 DEF ChannelEffect
<1>. QED
  BY <1>2, <1>3 DEF Effect

\* Every actor is of one of the kinds that generate_network makes.
LEMMA Kinds ==
    ASSUME NetworkState, NEW a \in Actors
    PROVE  /\ a[2] \in Nodes
           /\ Kind(a) \in {"source", "scan", "map", "reduce", "zip", "union",
                           "bounded", "unbounded", "sink"}
<1>1. /\ plan.kind \in Seq({"source", "scan", "map", "reduce", "zip", "union"})
      /\ Len(plan.kind) > 0
  BY PlansAssumption DEF NetworkState
<1>2. CASE \E n \in Nodes : a = <<"node", n>>
  BY <1>1, <1>2 DEF Nodes, Kind
<1>3. CASE a = <<"sink", Root>>
  BY <1>1, <1>3 DEF Nodes, Root, Kind
<1>4. CASE \E n \in {m \in Nodes : fanout[m] # "none"} : a = <<"fanout", n>>
  BY <1>4 DEF Kind, NetworkState
<1>. QED
  BY <1>2, <1>3, <1>4 DEF Actors

\* The steps of the kinds.
LEMMA StepKinds ==
    \A k : /\ {"send metadata", "drain metadata", "drain", "done"}
                \subseteq StepsOf(k)
           /\ "recv" \in StepsOf(k) <=> k \notin {"source", "scan", "unbounded"}
           /\ "send" \in StepsOf(k) <=> k \notin {"scan", "unbounded", "sink"}
           /\ "forward" \in StepsOf(k) <=> k = "scan"
           /\ "wait" \in StepsOf(k) <=> k = "scan"
           /\ "loop" \in StepsOf(k) <=> k = "unbounded"
  BY DEF StepsOf

\* The steps that pass metadata on.
LEMMA MetadataEffect ==
    ASSUME NetworkState, ChannelState, ActorState, NEW a \in Actors,
           RecvMetadata(a) \/ SendMetadata(a) \/ DrainMetadata(a)
    PROVE  Effect(a) /\ lin' = lin
<1>0. DOMAIN md = Channels
  BY DEF ChannelState
<1>1. CASE RecvMetadata(a)
  <2>0. PICK j \in DOMAIN In(a) :
            \/ /\ md' = [md EXCEPT ![In(a)[j]] = "taken"]
               /\ \/ Goto(a, IF Kind(a) = "sink" THEN "recv"
                             ELSE "send metadata")
                  \/ UNCHANGED pc
               /\ UNCHANGED <<netVars, queue, shut, loc, fan, lin, result,
                              failures>>
            \/ Raise(a)
            \/ End(a) /\ UNCHANGED <<netVars, loc, fan, lin, result, failures>>
    BY <1>1 DEF RecvMetadata
  <2>1. [md EXCEPT ![In(a)[j]] = "taken"]
            \in [Channels -> {"none", "sent", "taken", "shut"}]
    BY DEF ChannelState
  <2>. QED
    BY <2>0, <2>1, StepKinds DEF Raise, Effect, ChannelEffect, PlaceEffect
<1>2. CASE SendMetadata(a)
  <2>1. md' \in [Channels -> {"none", "sent", "taken", "shut"}]
    BY <1>0, <1>2 DEF SendMetadata, ChannelState
  <2>. QED
    BY <1>2, <2>1, StepKinds DEF SendMetadata, Effect, ChannelEffect, PlaceEffect
<1>3. CASE DrainMetadata(a)
  <2>1. Start(a) \in StepsOf(Kind(a))
    BY StepKinds, Kinds DEF Start
  <2>. QED
    BY <1>3, <2>1 DEF DrainMetadata, Effect, ChannelEffect, PlaceEffect
<1>. QED
  BY <1>1, <1>2, <1>3

\* The receiving steps of evaluating actors, bounded fanouts and the sink.
LEMMA ReceiveEffect ==
    ASSUME NetworkState, ChannelState, ActorState, NEW a \in Actors,
           RecvOne(a) \/ RecvAll(a) \/ RecvRound(a) \/ RecvSequential(a)
    PROVE  Effect(a) /\ lin' = lin
<1>1. CASE RecvOne(a)
  BY <1>1, StepKinds
     DEF RecvOne, Received, Effect, ChannelEffect, PlaceEffect
<1>2. CASE RecvAll(a)
  BY <1>2, StepKinds
     DEF RecvAll, Received, Effect, ChannelEffect, PlaceEffect
<1>3. CASE RecvRound(a)
  BY <1>3, StepKinds
     DEF RecvRound, Received, Effect, ChannelEffect, PlaceEffect
<1>4. CASE RecvSequential(a)
  BY <1>4, StepKinds
     DEF RecvSequential, Received, Effect, ChannelEffect, PlaceEffect
<1>. QED
  BY <1>1, <1>2, <1>3, <1>4

\* The sending steps and the final drain.
LEMMA SendEffect ==
    ASSUME NetworkState, ChannelState, ActorState, NEW a \in Actors,
           SendNext(a) \/ Drain(a)
    PROVE  Effect(a) /\ lin' = lin
<1>1. CASE SendNext(a)
  <2>1. pc[a] = "send" /\ Kind(a) \notin {"scan", "unbounded", "sink"}
    BY <1>1, StepKinds DEF SendNext, ActorState
  <2>2. Kind(a) \in {"source", "reduce", "zip", "union", "map", "bounded"}
    BY <2>1, Kinds
  <2>3. PICK k : AfterSend(a, k) /\ \E c, m : Send(c, m)
    BY <1>1 DEF SendNext
  <2>4. PlaceEffect(a)
    BY <2>2, <2>3, StepKinds DEF AfterSend, PlaceEffect
  <2>. QED
    BY <1>1, <2>3, <2>4 DEF SendNext, Effect, ChannelEffect
<1>2. CASE Drain(a)
  <2>1. Range(Out(a)) \subseteq Channels
    BY DEF Channels, Chans
  <2>. QED
    BY <1>2, <2>1 DEF Drain, Effect, ChannelEffect, PlaceEffect
<1>. QED
  BY <1>1, <1>2

\* The unbounded fanout, its tasks, and an actor that raises.
LEMMA FanoutEffect ==
    ASSUME NetworkState, ChannelState, ActorState, NEW a \in Actors,
           ReceiveTask(a) \/ OutputTask(a) \/ MainLoop(a) \/ Fail(a)
    PROVE  Effect(a) /\ lin' = lin
<1>1. CASE ReceiveTask(a)
  BY <1>1 DEF ReceiveTask, Effect, ChannelEffect, PlaceEffect, chanVars
<1>2. CASE OutputTask(a)
  <2>1. \A k \in DOMAIN Out(a) : Out(a)[k] \in Channels
    BY DEF Channels, Chans, Range
  <2>. QED
    BY <1>2, <2>1 DEF OutputTask, Effect, ChannelEffect, PlaceEffect
<1>3. CASE MainLoop(a)
  BY <1>3 DEF MainLoop, Effect, ChannelEffect, PlaceEffect
<1>4. CASE Fail(a)
  BY <1>4 DEF Fail, Raise, Effect
<1>. QED
  BY <1>1, <1>2, <1>3, <1>4

\* The Lineariser's steps touch at most the output of its actor.
LEMMA LineariserEffect ==
    ASSUME NetworkState, ChannelState, ActorState, NEW a \in Actors,
           Produce(a) \/ Collect(a) \/ Forward(a)
    PROVE  Effect(a)
<1>0. pc[a] \in {"forward", "wait"} /\ pc[a] \in StepsOf(Kind(a))
  BY DEF Produce, Collect, Forward, ActorState
<1>1. {"forward", "wait", "drain"} \subseteq StepsOf(Kind(a))
  BY <1>0, StepKinds
<1>2. CASE Produce(a)
  BY <1>2 DEF Produce, Effect, ChannelEffect, PlaceEffect
<1>3. CASE Collect(a)
  BY <1>1, <1>3 DEF Collect, Effect, ChannelEffect, PlaceEffect
<1>4. CASE Forward(a)
  BY <1>1, <1>4 DEF Forward, Effect, ChannelEffect, PlaceEffect, chanVars
<1>. QED
  BY <1>2, <1>3, <1>4

-----------------------------------------------------------------------------
(* The steps of the Lineariser keep its invariant *)

\* One Lineariser takes a step that keeps it linearised.
LEMMA OneLinearised ==
    ASSUME Linearisers, UNCHANGED netVars, NEW n \in Nodes, NEW t,
           Linearised(t), lin' = [lin EXCEPT ![n] = t]
    PROVE  Linearisers'
<1>1. Nodes' = Nodes
  BY NetworkStays
<1>2. /\ lin' = [m \in Nodes |-> lin'[m]] /\ lin'[n] = t
      /\ \A m \in Nodes \ {n} : lin'[m] = lin[m]
  BY DEF Linearisers
<1>3. \A m \in Nodes : Linearised(lin'[m])
  BY <1>2 DEF Linearisers
<1>. QED
  BY <1>1, <1>2, <1>3 DEF Linearisers

\* A step of a producer.
LEMMA ProduceKeeps ==
    ASSUME NetworkState, Linearisers, NEW a \in Actors, Produce(a)
    PROVE  Linearisers'
<1>. DEFINE n == a[2]
            s == lin[n]
<1>0. n \in Nodes /\ UNCHANGED netVars /\ n \in Nat
  <2>1. n \in Nodes
    BY Kinds
  <2>2. UNCHANGED netVars
    BY DEF Produce
  <2>. QED
    BY <2>1, <2>2 DEF Nodes
<1>1. Linearised(s)
  BY <1>0 DEF Linearisers
<1>2. DOMAIN s.producer = 1..Len(s.producer) /\ DOMAIN lin = Nodes
  BY <1>1, Fields DEF Linearisers
<1>3. PICK i \in 1..Len(s.producer) :
        \/ /\ s.producer[i] = "acquire" /\ s.slot[i]
           /\ lin' = [lin EXCEPT ![n].producer[i] = "read",
                                 ![n].slot[i] = FALSE]
        \/ /\ s.producer[i] = "read"
           /\ lin' = [lin EXCEPT
                ![n].inbox[i] =
                    Append(@, [seq |-> s.next[i],
                               data |-> <<<<n, s.next[i]>>>>]),
                ![n].next[i] = @ + Len(s.producer),
                ![n].producer[i] =
                    IF s.next[i] + Len(s.producer) < plan.chunks[n]
                    THEN "acquire" ELSE "drain"]
        \/ lin' = [lin EXCEPT ![n].producer[i] = "done"]
  BY DEF Produce
<1>4. CASE /\ s.producer[i] = "acquire" /\ s.slot[i]
           /\ lin' = [lin EXCEPT ![n].producer[i] = "read",
                                 ![n].slot[i] = FALSE]
  <2>. DEFINE t == [s EXCEPT !.producer[i] = "read", !.slot[i] = FALSE]
  <2>1. Linearised(t)
    BY <1>1, <1>2, <1>4, TakesSlot
  <2>2. lin' = [lin EXCEPT ![n] = t]
    BY <1>0, <1>2, <1>4
  <2>. QED
    BY <1>0, <2>1, <2>2, OneLinearised
<1>5. CASE /\ s.producer[i] = "read"
           /\ lin' = [lin EXCEPT
                ![n].inbox[i] =
                    Append(@, [seq |-> s.next[i],
                               data |-> <<<<n, s.next[i]>>>>]),
                ![n].next[i] = @ + Len(s.producer),
                ![n].producer[i] =
                    IF s.next[i] + Len(s.producer) < plan.chunks[n]
                    THEN "acquire" ELSE "drain"]
  <2>. DEFINE l == IF s.next[i] + Len(s.producer) < plan.chunks[n]
                   THEN "acquire" ELSE "drain"
              d == <<<<n, s.next[i]>>>>
              t == [s EXCEPT
                      !.inbox[i] = Append(@, [seq |-> s.next[i], data |-> d]),
                      !.next[i] = @ + Len(s.producer),
                      !.producer[i] = l]
  <2>1. s.next[i] \in Nat /\ l \in {"acquire", "drain"}
    <3>1. s.next \in Seq(Nat) /\ Len(s.next) = Len(s.producer)
      BY <1>1, Fields
    <3>2. \A q \in Seq(Nat) : \A k \in 1..Len(q) : q[k] \in Nat
      BY ElementOfSeq
    <3>3. s.next[i] \in Nat
      BY <3>1, <3>2
    <3>. QED
      BY <3>3
  <2>2. d \in Seq(Seq(Nat))
    BY <1>0, <2>1
  <2>3. lin' = [lin EXCEPT ![n] = t]
    <3>1. n \in DOMAIN lin
      BY <1>0, <1>2
    <3>. QED
      BY <1>0, <1>2, <1>5, <3>1, ZenonT(60)
  <2>4. \A x \in Seq(Seq(Nat)), k \in {"acquire", "drain"} :
            Linearised([s EXCEPT
                !.inbox[i] = Append(@, [seq |-> s.next[i], data |-> x]),
                !.next[i] = @ + Len(s.producer),
                !.producer[i] = k])
    BY <1>1, <1>2, <1>5, SendsChunk
  <2>. HIDE DEF l, d
  <2>5. Linearised(t)
    BY <2>1, <2>2, <2>4
  <2>. QED
    BY <1>0, <2>3, <2>5, OneLinearised
<1>6. CASE lin' = [lin EXCEPT ![n].producer[i] = "done"]
  <2>. DEFINE t == [s EXCEPT !.producer[i] = "done"]
  <2>1. Linearised(t)
    BY <1>1, <1>2, EndsProducing
  <2>2. lin' = [lin EXCEPT ![n] = t]
    BY <1>0, <1>2, <1>6
  <2>. QED
    BY <1>0, <2>1, <2>2, OneLinearised
<1>. QED
  BY <1>3, <1>4, <1>5, <1>6

\* The Lineariser buffers what it has received.
LEMMA CollectKeeps ==
    ASSUME NetworkState, Linearisers, NEW a \in Actors, Collect(a)
    PROVE  Linearisers'
<1>. DEFINE n == a[2]
            s == lin[n]
            done == {i \in s.pending :
                        s.inbox[i] # <<>> \/ s.producer[i] = "done"}
<1>0. n \in Nodes /\ UNCHANGED netVars
  BY Kinds DEF Collect
<1>1. Linearised(s)
  BY <1>0 DEF Linearisers
<1>2. lin' = [lin EXCEPT ![n] = BufferReceived(s, done)]
  BY DEF Collect, BufferReceived
<1>3. done \in SUBSET s.pending
  OBVIOUS
<1>. HIDE DEF done
<1>4. Linearised(BufferReceived(s, done))
  BY <1>1, <1>3, BuffersChunks
<1>. QED
  BY <1>0, <1>2, <1>4, OneLinearised

\* The Lineariser forwards a chunk, waits, or ends.
LEMMA ForwardKeeps ==
    ASSUME NetworkState, Linearisers, NEW a \in Actors, Forward(a)
    PROVE  Linearisers'
<1>. DEFINE n == a[2]
            s == lin[n]
<1>0. n \in Nodes /\ UNCHANGED netVars
  BY Kinds DEF Forward
<1>1. Linearised(s) /\ DOMAIN lin = Nodes
  BY <1>0 DEF Linearisers
<1>2. CASE lin' = lin
  BY <1>0, <1>2, NetworkStays DEF Linearisers
<1>3. CASE \E m \in s.buffer :
            LET i == ProducerOf(s, m.seq)
            IN  lin' = [lin EXCEPT ![n].buffer = @ \ {m},
                                   ![n].slot[i] = TRUE,
                                   ![n].pending = @ \cup {i},
                                   ![n].nextSeq = @ + 1]
  <2>1. PICK m \in s.buffer :
            lin' = [lin EXCEPT ![n].buffer = @ \ {m},
                               ![n].slot[ProducerOf(s, m.seq)] = TRUE,
                               ![n].pending = @ \cup {ProducerOf(s, m.seq)},
                               ![n].nextSeq = @ + 1]
    BY <1>3
  <2>. DEFINE t == [s EXCEPT !.buffer = @ \ {m},
                             !.slot[ProducerOf(s, m.seq)] = TRUE,
                             !.pending = @ \cup {ProducerOf(s, m.seq)},
                             !.nextSeq = @ + 1]
  <2>2. lin' = [lin EXCEPT ![n] = t]
    BY <1>0, <1>1, <2>1
  <2>3. Linearised(t)
    BY <1>1, ForwardsChunk
  <2>. QED
    BY <1>0, <2>2, <2>3, OneLinearised
<1>. QED
  BY <1>2, <1>3 DEF Forward

-----------------------------------------------------------------------------
(* The invariant is inductive *)

\* A generated network satisfies the invariant.
LEMMA InitInvariant == Init => IInv
<1>. SUFFICES ASSUME Init PROVE NetworkState /\ ChannelState /\ ActorState
                                /\ Linearisers
  BY InvariantParts
<1>1. NetworkState
  BY DEF Init, NetworkState, FanoutNodes, Nodes
<1>2. ChannelState
  <2>1. IsSequence(<<>>) /\ Len(<<>>) <= Capacity
    BY ActorNetworkAssumption, EmptySeq DEF IsSequence
  <2>2. /\ queue = [c \in Channels |-> <<>>]
        /\ md = [c \in Channels |-> "none"] /\ shut = {}
    BY DEF Init, Channels
  <2>. QED
    BY <2>1, <2>2 DEF ChannelState
<1>3. ActorState
  BY DEF Init, ActorState, StepsOf
<1>4. Linearisers
  <2>1. lin = [n \in Nodes |-> InitLineariser(IF plan.kind[n] = "scan"
                                   THEN NumProducers(plan, n) ELSE 0)]
    BY DEF Init
  <2>2. ASSUME NEW n \in Nodes
        PROVE  (IF plan.kind[n] = "scan" THEN NumProducers(plan, n) ELSE 0)
                    \in Nat
    <3>1. plan.chunks[n] \in Nat
      BY <1>1, PlansAssumption DEF NetworkState, Nodes
    <3>. QED
      BY <3>1, ActorNetworkAssumption DEF NumProducers
  <2>3. \A n \in Nodes : Linearised(lin[n])
    BY <2>1, <2>2, StartsLinearised
  <2>. QED
    BY <2>1, <2>3 DEF Linearisers
<1>. QED
  BY <1>1, <1>2, <1>3, <1>4

\* Every step of every actor and task keeps it.
LEMMA NextInvariant == IInv /\ [Next]_vars => IInv'
<1>0. IInv' <=> NetworkState' /\ ChannelState' /\ ActorState' /\ Linearisers'
  BY InvariantParts, PTL
<1>. SUFFICES ASSUME NetworkState, ChannelState, ActorState, Linearisers,
                     [Next]_vars
              PROVE  NetworkState' /\ ChannelState' /\ ActorState'
                     /\ Linearisers'
  BY <1>0, InvariantParts
<1>1. CASE UNCHANGED vars
  <2>1. UNCHANGED netVars /\ UNCHANGED chanVars /\ pc' = pc /\ lin' = lin
    BY <1>1 DEF vars
  <2>. QED
    BY <2>1, NetworkStays DEF NetworkState, ChannelState, ActorState,
                              Linearisers, netVars, chanVars
<1>2. ASSUME NEW a \in Actors, Step(a) \/ TaskStep(a) \/ Fail(a)
      PROVE  NetworkState' /\ ChannelState' /\ ActorState' /\ Linearisers'
  <2>1. CASE Produce(a) \/ Collect(a) \/ Forward(a)
    BY <2>1, LineariserEffect, EffectKeeps, ProduceKeeps, CollectKeeps,
       ForwardKeeps
  <2>2. CASE Effect(a) /\ lin' = lin
    <3>1. UNCHANGED netVars
      BY <2>2 DEF Effect
    <3>2. Linearisers'
      BY <2>2, <3>1, NetworkStays DEF Linearisers
    <3>. QED
      BY <2>2, <3>2, EffectKeeps
  <2>3. Produce(a) \/ Collect(a) \/ Forward(a) \/ (Effect(a) /\ lin' = lin)
    BY <1>2, MetadataEffect, ReceiveEffect, SendEffect, FanoutEffect
       DEF Step, TaskStep
  <2>. QED
    BY <2>1, <2>2, <2>3
<1>. QED
  BY <1>1, <1>2 DEF Next

\* A Lineariser with one token per producer holds one chunk of each.
LEMMA TokenBounds ==
    ASSUME NEW s, Linearised(s), NEW i \in DOMAIN s.producer
    PROVE  Len(s.inbox[i])
             + Cardinality({m \in s.buffer : ProducerOf(s, m.seq) = i})
             + (IF s.producer[i] = "read" THEN 1 ELSE 0) <= 1
<1>. DEFINE B == {m \in s.buffer : ProducerOf(s, m.seq) = i}
<1>0. OneToken(s)
  BY DEF Linearised
<1>1. NoneBuffered(s, i) => B = {}
  BY DEF NoneBuffered
<1>2. Cardinality({}) = 0 /\ \A m : Cardinality({m}) = 1
  BY FS_EmptySet, FS_Singleton
<1>3. B = {} \/ \E m : B = {m}
  <2>1. \A m, o \in B : m = o
    BY <1>0 DEF OneToken
  <2>. HIDE DEF B
  <2>2. ASSUME NEW m \in B PROVE B = {m}
    BY <2>1
  <2>. QED
    BY <2>2
<1>4. Len(s.inbox[i]) \in Nat /\ (s.inbox[i] = <<>> => Len(s.inbox[i]) = 0)
  BY Fields
<1>. HIDE DEF B
<1>5. Cardinality(B) \in {0, 1} /\ (NoneBuffered(s, i) => Cardinality(B) = 0)
  BY <1>1, <1>2, <1>3
<1>6. Len(s.inbox[i]) + Cardinality(B)
        + (IF s.producer[i] = "read" THEN 1 ELSE 0) <= 1
  <2>1. /\ s.producer[i] = "read" =>
                Len(s.inbox[i]) = 0 /\ Cardinality(B) = 0
        /\ s.inbox[i] # <<>> => Len(s.inbox[i]) = 1 /\ Cardinality(B) = 0
    BY <1>0, <1>4, <1>5 DEF OneToken
  <2>2. CASE s.producer[i] = "read"
    BY <2>1, <2>2
  <2>3. CASE s.producer[i] # "read" /\ s.inbox[i] # <<>>
    <3>1. Len(s.inbox[i]) = 1 /\ Cardinality(B) = 0
      BY <2>1, <2>3
    <3>. QED
      BY <2>3, <3>1
  <2>4. CASE s.producer[i] # "read" /\ s.inbox[i] = <<>>
    BY <1>4, <1>5, <2>4
  <2>. QED
    BY <2>2, <2>3, <2>4
<1>. QED
  BY <1>6 DEF B

-----------------------------------------------------------------------------
(* What has gone through the channels *)

\* The number of chunks of a node, and the message that carries chunk i.
Size(p, n) == Len(Values(p)[n])
Message(p, n, i) == [seq |-> i - 1, data |-> Values(p)[n][i]]

\* h has the number of messages received from every channel.  What an actor a
\* has taken from its inputs and sent to its outputs:
Taken(a, h) == [j \in DOMAIN In(a) |-> h[In(a)[j]]]
Sent(a, h) == [k \in DOMAIN Out(a) |-> h[Out(a)[k]] + Len(queue[Out(a)[k]])]

\* The nodes whose chunks arrive at the inputs, and the outputs that are shut.
From(a) == [j \in DOMAIN In(a) |-> In(a)[j][1]]
Closed(a) == {k \in DOMAIN Out(a) : Out(a)[k] \in shut}

\* A channel carries the chunks of its node in order, and all of them have been
\* sent when it is shut.
ChannelsCarry(h) ==
    /\ h \in [Channels -> Nat]
    /\ \A c \in Channels :
        /\ h[c] + Len(queue[c]) <= Size(plan, c[1])
        /\ \A i \in DOMAIN queue[c] : queue[c][i] = Message(plan, c[1], h[c] + i)
        /\ c \in shut => h[c] + Len(queue[c]) = Size(plan, c[1])

\* The metadata of the outputs of an actor that is at step x.
OutMetadata(x) ==
    IF x \in {"recv metadata", "send metadata"} THEN {"none"}
    ELSE IF x = "drain metadata" THEN {"sent", "taken"} ELSE {"taken"}

\* Metadata goes from none to sent to taken, and nobody shuts it before.
MetadataFlows ==
    /\ \A c \in Channels : md[c] # "shut"
    /\ \A a \in Actors :
        /\ \A k \in DOMAIN Out(a) : md[Out(a)[k]] \in OutMetadata(pc[a])
        /\ pc[a] # "recv metadata" =>
            \A j \in DOMAIN In(a) : md[In(a)[j]] = "taken"

-----------------------------------------------------------------------------
(* What an actor has made of what it has taken: x is its step, l its local   *)
(* variables, r what it has taken and t what it has sent.                    *)

\* The steps before the first chunk.
Early == {"recv metadata", "send metadata", "drain metadata"}

\* Local variables of an actor that holds something for every index in D.
HasLocals(l, D) ==
    /\ l = [at |-> l.at, base |-> l.base, count |-> l.count,
            finished |-> l.finished, hold |-> l.hold]
    /\ l.hold = [j \in D |-> l.hold[j]]

\* What all actors have in common: nothing is done early, and all is done when
\* the outputs are drained.
AllMake(p, n, from, x, l, r, t) ==
    /\ HasLocals(l, DOMAIN r)
    /\ x \in Early => /\ \A j \in DOMAIN r : r[j] = 0
                      /\ \A k \in DOMAIN t : t[k] = 0
                      /\ l = InitLocals(Len(from))
    /\ x = "drain" => /\ \A j \in DOMAIN r : r[j] = Size(p, from[j])
                      /\ \A k \in DOMAIN t : t[k] = Size(p, n)

\* A source counts what it has sent.
SourceMakes(p, n, x, l, t) ==
    x = "send" => l.count = t[1] /\ t[1] < Size(p, n)

\* Without any input one empty chunk is sent.
MapMakes(p, n, x, l, r, t) ==
    LET c == p.args[n][1]
    IN  /\ x = "recv" =>
            \/ l.count = 0 /\ r[1] = 0 /\ t[1] = 0
            \/ l.count = 1 /\ r[1] > 0 /\ t[1] = r[1]
            \/ l.count = 1 /\ r[1] = 0 /\ t[1] = 1 /\ Size(p, c) = 0
        /\ x = "send" =>
            /\ l.count = 1
            /\ \/ /\ r[1] > 0 /\ t[1] = r[1] - 1
                  /\ l.hold[1] = <<Message(p, c, r[1])>>
               \/ /\ r[1] = 0 /\ t[1] = 0 /\ Size(p, c) = 0
                  /\ l.hold[1] = <<Empty>>

\* A reduce holds all that it has taken until it sends its only chunk.
ReduceMakes(p, n, x, l, r, t) ==
    LET c == p.args[n][1]
    IN  /\ x \in {"recv", "send"} =>
            /\ t[1] = 0
            /\ IsSequence(l.hold[1]) /\ Len(l.hold[1]) = r[1]
            /\ \A i \in DOMAIN l.hold[1] : l.hold[1][i] = Message(p, c, i)
        /\ x = "send" => r[1] = Size(p, c) /\ r[1] > 0

\* The number of chunks taken of a child after k rounds.
Upto(p, c, k) == IF k <= Size(p, c) THEN k ELSE Size(p, c)

\* What is held of child c after k rounds, e chunks taken: f tells whether the
\* child is known to have finished.
ZipChild(p, c, k, e, held, f) ==
    /\ e = Upto(p, c, k)
    /\ f <=> Size(p, c) < k
    /\ IF e = 0 THEN held \in {<<>>, <<Empty>>} ELSE held = <<Message(p, c, e)>>

\* A zip counts its rounds; in a round the children before l.at are handled.
ZipMakes(p, n, x, l, r, t) ==
    /\ x \in {"recv", "send"} =>
        l.at \in DOMAIN r /\ l.count = t[1] /\ l.finished \subseteq DOMAIN r
    /\ x = "recv" =>
        \A j \in DOMAIN r :
            ZipChild(p, p.args[n][j], IF j < l.at THEN l.count + 1 ELSE l.count,
                     r[j], l.hold[j], j \in l.finished)
    /\ x = "send" =>
        /\ l.at = 1 /\ t[1] < Size(p, n)
        /\ \A j \in DOMAIN r :
            /\ ZipChild(p, p.args[n][j], l.count + 1, r[j], l.hold[j],
                        j \in l.finished)
            /\ l.hold[j] # <<>>

\* g[j] chunks of the union come from the children before child j.
IsOffsets(g, p, n) ==
    LET m == Len(p.args[n])
    IN  /\ g \in [1..(m + 1) -> Nat] /\ g[1] = 0 /\ g[m + 1] = Size(p, n)
        /\ \A j \in 1..m :
            LET c == p.args[n][j]
            IN  /\ g[j + 1] = g[j] + Size(p, c) /\ g[j + 1] <= Size(p, n)
                /\ \A i \in 1..Size(p, c) :
                    Values(p)[n][g[j] + i] = Values(p)[c][i]

\* Where the chunks of the children of a union begin.
Offsets(p, n) == CHOOSE g : IsOffsets(g, p, n)

\* A union has taken all of the children before l.at and nothing of those after.
UnionMakes(p, n, x, l, r, t) ==
    x \in {"recv", "send"} =>
        /\ l.at \in DOMAIN r /\ l.base = Offsets(p, n)[l.at]
        /\ t[1] = l.base + l.count
        /\ \A j \in DOMAIN r : /\ j < l.at => r[j] = Size(p, p.args[n][j])
                               /\ j > l.at => r[j] = 0
        /\ x = "recv" => l.count = r[l.at]
        /\ x = "send" =>
            /\ r[l.at] > 0 /\ l.count = r[l.at] - 1
            /\ l.hold[l.at] = <<Message(p, p.args[n][l.at], r[l.at])>>

\* A bounded fanout sends what it holds on one output after the other.
BoundedMakes(p, n, x, l, r, t) ==
    /\ x = "recv" => \A k \in DOMAIN t : t[k] = r[1]
    /\ x = "send" =>
        /\ r[1] > 0 /\ l.at \in DOMAIN t
        /\ l.hold[1] = <<Message(p, n, r[1])>>
        /\ \A k \in DOMAIN t : t[k] = IF k < l.at THEN r[1] ELSE r[1] - 1

\* q are the chunks of node n after chunk u up to chunk e.
Buffered(p, n, q, u, e) ==
    /\ IsSequence(q) /\ u + Len(q) = e
    /\ \A i \in DOMAIN q : q[i] = Message(p, n, u + i)

\* f are the variables of the fanout, D its outputs.
FanoutShape(f, D) ==
    /\ f = [recv |-> f.recv, prefetched |-> f.prefetched,
            canReceive |-> f.canReceive, needsDrain |-> f.needsDrain,
            task |-> f.task, buffer |-> f.buffer]
    /\ f.task = [k \in D |-> f.task[k]]
    /\ f.buffer = [k \in D |-> f.buffer[k]]
    /\ f.recv \in {"wait", "msg", "eof", "none"}
    /\ f.needsDrain \subseteq D

\* e chunks have been received, the last of them may be prefetched.
FanoutInput(p, n, f, e) ==
    /\ f.recv = "msg" => e > 0 /\ f.prefetched = <<Message(p, n, e)>>
    /\ f.recv \in {"eof", "none"} => e = Size(p, n)
    /\ f.recv # "none" => f.needsDrain = {}

\* u chunks have been sent on output k, d tells whether it is shut.
FanoutOutput(p, n, f, e, k, u, d) ==
    /\ f.task[k] \in {"none", "send", "drain", "done"}
    /\ f.recv = "msg" => Buffered(p, n, f.buffer[k], u, e - 1)
    /\ f.recv # "msg" => Buffered(p, n, f.buffer[k], u, e)
    /\ f.task[k] = "send" => f.buffer[k] # <<>>
    /\ f.task[k] = "drain" => f.recv = "none" /\ f.buffer[k] = <<>>
    /\ f.recv = "none" => k \in f.needsDrain \/ f.task[k] = "drain" \/ d

\* The variables of an unbounded fanout account for all that it has received.
InStep(p, n, f, r, t, closed) ==
    /\ FanoutShape(f, DOMAIN t) /\ FanoutInput(p, n, f, r[1])
    /\ \A k \in DOMAIN t :
        FanoutOutput(p, n, f, r[1], k, t[k], k \in closed)

\* An unbounded fanout before its loop and in it.
UnboundedMakes(p, n, x, f, r, t, closed) ==
    /\ x \in Early => f = InitFanout(Len(t))
    /\ x = "loop" => InStep(p, n, f, r, t, closed)

\* The chunk of producer i that the Lineariser forwards next.
Outstanding(s, i) ==
    IF s.inbox[i] = <<>> /\ NoneBuffered(s, i) THEN s.next[i]
    ELSE s.next[i] - Len(s.producer)

\* m is a chunk of producer i, which has gone on to the next one.
ReadBy(p, n, s, i, m) ==
    /\ m.seq + Len(s.producer) = s.next[i] /\ m.seq < p.chunks[n]
    /\ m.data = <<<<n, m.seq>>>>

\* The chunks that the producers have read and the Lineariser has not forwarded
\* are the next of each producer.
InOrder(p, n, s) ==
    /\ Len(s.producer) = NumProducers(p, n)
    /\ \A m \in s.buffer : ReadBy(p, n, s, ProducerOf(s, m.seq), m)
    /\ \A i \in DOMAIN s.producer :
        /\ \A k \in DOMAIN s.inbox[i] : ReadBy(p, n, s, i, s.inbox[i][k])
        /\ s.nextSeq <= Outstanding(s, i)
        /\ Outstanding(s, i) < s.nextSeq + Len(s.producer)
        /\ s.producer[i] \in {"acquire", "read"} <=> s.next[i] < p.chunks[n]
        /\ s.producer[i] = "done" => s.inbox[i] = <<>>
        /\ i \notin s.pending =>
             s.inbox[i] = <<>> /\ (s.producer[i] = "done" \/ ~NoneBuffered(s, i))

\* The result has what the sink has taken, and is complete when it ends.
SinkMakes(p, x, r, q) ==
    /\ IsSequence(q) /\ Len(q) = r[1]
    /\ \A i \in DOMAIN q : q[i] = Message(p, Len(p.kind), i)
    /\ x = "done" => r[1] = Size(p, Len(p.kind))

-----------------------------------------------------------------------------
(* The invariant of the results *)

\* With r taken, t is what actor a has to have sent.
Makes(a, r, t) ==
    LET n == a[2]
        x == pc[a]
        l == loc[a]
    IN  /\ AllMake(plan, n, From(a), x, l, r, t)
        /\ Kind(a) = "source" => SourceMakes(plan, n, x, l, t)
        /\ Kind(a) = "scan" => InOrder(plan, n, lin[n]) /\ lin[n].nextSeq = t[1]
        /\ Kind(a) = "map" => MapMakes(plan, n, x, l, r, t)
        /\ Kind(a) = "reduce" => ReduceMakes(plan, n, x, l, r, t)
        /\ Kind(a) = "zip" => ZipMakes(plan, n, x, l, r, t)
        /\ Kind(a) = "union" => UnionMakes(plan, n, x, l, r, t)
        /\ Kind(a) = "bounded" => BoundedMakes(plan, n, x, l, r, t)
        /\ Kind(a) = "unbounded" => UnboundedMakes(plan, n, x, fan[n], r, t,
                                                   Closed(a))
        /\ Kind(a) = "sink" => SinkMakes(plan, x, r, result)

\* Everything so far is as it must be, with h messages received.
History(h) ==
    ChannelsCarry(h) /\ \A a \in Actors : Makes(a, Taken(a, h), Sent(a, h))

\* The local variables have one entry per actor and node.
Locals ==
    /\ loc = [a \in Actors |-> loc[a]] /\ fan = [n \in Nodes |-> fan[n]]
    /\ fanout = FanoutNodes(plan)

\* The inductive invariant of the results.
ResultInv ==
    /\ Locals
    /\ failures = {} => MetadataFlows /\ \E h : History(h)

-----------------------------------------------------------------------------
(* The chunks of the nodes *)

\* The chunks of the children of a node.
ChildValues(p, n) == [j \in DOMAIN p.args[n] |-> Values(p)[p.args[n][j]]]

\* A plan and its nodes.
LEMMA PlanFacts ==
    ASSUME NEW p \in Plans
    PROVE  /\ Len(p.kind) \in Nat /\ Len(p.kind) > 0
           /\ \A n \in 1..Len(p.kind) :
                /\ p.kind[n] \in {"source", "scan", "map", "reduce", "zip",
                                  "union"}
                /\ p.args[n] \in Seq(Nat) /\ p.chunks[n] \in Nat
                /\ Len(p.args[n]) \in Nat
                /\ DOMAIN p.args[n] = 1..Len(p.args[n])
                /\ \A j \in DOMAIN p.args[n] : p.args[n][j] \in 1..(n - 1)
                /\ p.kind[n] \in {"source", "scan"} <=> Len(p.args[n]) = 0
                /\ p.kind[n] \in {"map", "reduce"} => Len(p.args[n]) = 1
<1>1. PICK N : N = Len(p.kind)
  OBVIOUS
<1>2. /\ p.kind \in Seq({"source", "scan", "map", "reduce", "zip", "union"})
      /\ p.args \in Seq(Seq(Nat)) /\ p.chunks \in Seq(Nat)
      /\ Len(p.kind) > 0
      /\ Len(p.args) = Len(p.kind) /\ Len(p.chunks) = Len(p.kind)
  BY PlansAssumption
<1>a. \A n \in 1..Len(p.kind) :
            /\ Range(p.args[n]) \subseteq 1..(n - 1)
            /\ p.args[n] = <<>> <=> p.kind[n] \in {"source", "scan"}
            /\ p.kind[n] \in {"map", "reduce"} => Len(p.args[n]) = 1
  BY PlansAssumption
<1>b. N \in Nat /\ N > 0 /\ Len(p.args) = N /\ Len(p.chunks) = N
  BY <1>1, <1>2
<1>3. ASSUME NEW n \in 1..N
      PROVE  /\ p.kind[n] \in {"source", "scan", "map", "reduce", "zip",
                               "union"}
             /\ p.args[n] \in Seq(Nat) /\ p.chunks[n] \in Nat
  <2>1. \A S : \A q \in Seq(S) : \A i \in 1..Len(q) : q[i] \in S
    BY ElementOfSeq
  <2>. QED
    BY <1>1, <1>2, <1>b, <2>1
<1>4. ASSUME NEW n \in 1..N
      PROVE  /\ Len(p.args[n]) \in Nat /\ DOMAIN p.args[n] = 1..Len(p.args[n])
             /\ p.args[n] = <<>> <=> Len(p.args[n]) = 0
  BY <1>3, EmptySeq
<1>5. ASSUME NEW n \in 1..N, NEW j \in DOMAIN p.args[n]
      PROVE  p.args[n][j] \in 1..(n - 1)
  BY <1>1, <1>a DEF Range
<1>. QED
  BY <1>1, <1>a, <1>b, <1>3, <1>4, <1>5

\* f has the chunks of the first m nodes.
HasValues(f, p, m) ==
    f = [n \in 1..m |->
            NodeValue(p, n, [j \in DOMAIN p.args[n] |-> f[p.args[n][j]]])]

\* There is such a function: children come before parents.
LEMMA ValuesExist ==
    ASSUME NEW p \in Plans, NEW m \in Nat, m <= Len(p.kind)
    PROVE  \E f : HasValues(f, p, m)
<1>. DEFINE S == {k \in Nat : k <= Len(p.kind) => \E f : HasValues(f, p, k)}
<1>0. Len(p.kind) \in Nat
  BY PlanFacts
<1>1. 0 \in S
  <2>1. PICK f : f = [n \in 1..0 |-> 0]
    OBVIOUS
  <2>2. HasValues(f, p, 0)
    BY <2>1 DEF HasValues
  <2>. QED
    BY <2>2
<1>2. ASSUME NEW k \in S PROVE k + 1 \in S
  <2>. SUFFICES ASSUME k + 1 <= Len(p.kind) PROVE \E f : HasValues(f, p, k + 1)
    OBVIOUS
  <2>1. PICK f : HasValues(f, p, k)
    BY <1>0
  <2>. DEFINE Of(g, n) == [j \in DOMAIN p.args[n] |-> g[p.args[n][j]]]
  <2>2. PICK g : g = [n \in 1..(k + 1) |->
                        IF n = k + 1 THEN NodeValue(p, n, Of(f, n)) ELSE f[n]]
    OBVIOUS
  <2>3. ASSUME NEW n \in 1..(k + 1) PROVE Of(g, n) = Of(f, n)
    <3>1. \A j \in DOMAIN p.args[n] : p.args[n][j] \in 1..(n - 1)
      <4>1. n \in 1..Len(p.kind)
        BY <1>0
      <4>. QED
        BY <4>1, PlanFacts
    <3>2. \A i \in 1..(n - 1) : g[i] = f[i]
      BY <2>2
    <3>. QED
      BY <3>1, <3>2
  <2>4. ASSUME NEW n \in 1..(k + 1) PROVE g[n] = NodeValue(p, n, Of(g, n))
    <3>1. CASE n = k + 1
      BY <2>2, <2>3, <3>1
    <3>2. CASE n # k + 1
      <4>1. n \in 1..k
        BY <3>2
      <4>2. f[n] = NodeValue(p, n, Of(f, n))
        BY <2>1, <4>1 DEF HasValues
      <4>3. g[n] = f[n]
        BY <2>2, <3>2
      <4>4. Of(g, n) = Of(f, n)
        BY <2>3
      <4>. QED
        BY <4>2, <4>3, <4>4
    <3>. QED
      BY <3>1, <3>2
  <2>5. g = [n \in 1..(k + 1) |-> g[n]]
    BY <2>2
  <2>6. g = [n \in 1..(k + 1) |-> NodeValue(p, n, Of(g, n))]
    BY <2>4, <2>5
  <2>. QED
    BY <2>6 DEF HasValues
<1>3. S \in SUBSET Nat
  OBVIOUS
<1>. HIDE DEF S
<1>4. S = Nat
  BY <1>1, <1>2, <1>3, Induction
<1>. QED
  BY <1>4 DEF S

\* The chunks of a node are made of those of its children.
LEMMA ValuesFacts ==
    ASSUME NEW p \in Plans, NEW n \in 1..Len(p.kind)
    PROVE  Values(p)[n] = NodeValue(p, n, ChildValues(p, n))
<1>1. \E f : HasValues(f, p, Len(p.kind))
  BY PlanFacts, ValuesExist
<1>2. Values(p) = CHOOSE f : HasValues(f, p, Len(p.kind))
  BY DEF Values, HasValues
<1>3. HasValues(Values(p), p, Len(p.kind))
  BY <1>1, <1>2
<1>. QED
  BY <1>3 DEF HasValues, ChildValues

\* A function that lists finitely many numbers has a greatest.
LEMMA Greatest ==
    ASSUME NEW m \in Nat \ {0}, NEW f \in [1..m -> Nat]
    PROVE  \E j \in 1..m : \A i \in 1..m : f[i] <= f[j]
<1>. DEFINE S == {k \in Nat : k + 1 <= m =>
                        \E j \in 1..(k + 1) : \A i \in 1..(k + 1) : f[i] <= f[j]}
<1>1. 0 \in S
  <2>1. f[1] <= f[1] /\ 1 \in 1..(0 + 1) /\ \A i \in 1..(0 + 1) : i = 1
    OBVIOUS
  <2>. QED
    BY <2>1
<1>2. ASSUME NEW k \in S PROVE k + 1 \in S
  <2>. SUFFICES ASSUME k + 2 <= m
                PROVE  \E j \in 1..(k + 2) : \A i \in 1..(k + 2) : f[i] <= f[j]
    OBVIOUS
  <2>1. PICK j \in 1..(k + 1) : \A i \in 1..(k + 1) : f[i] <= f[j]
    OBVIOUS
  <2>2. f[j] \in Nat /\ f[k + 2] \in Nat
        /\ \A i \in 1..(k + 2) : f[i] \in Nat /\ (i = k + 2 \/ i \in 1..(k + 1))
    OBVIOUS
  <2>3. CASE f[k + 2] <= f[j]
    BY <2>1, <2>2, <2>3
  <2>4. CASE f[j] <= f[k + 2]
    <3>1. \A i \in 1..(k + 2) : f[i] <= f[k + 2]
      BY <2>1, <2>2, <2>4
    <3>. QED
      BY <3>1
  <2>. QED
    BY <2>2, <2>3, <2>4
<1>3. S \in SUBSET Nat
  OBVIOUS
<1>. HIDE DEF S
<1>4. S = Nat
  BY <1>1, <1>2, <1>3, Induction
<1>5. m - 1 \in S
  BY <1>4
<1>. QED
  BY <1>5 DEF S

\* A function on 1..m is a sequence.
LEMMA ListIsSequence ==
    ASSUME NEW m \in Nat, NEW q, q = [i \in 1..m |-> q[i]]
    PROVE  IsSequence(q) /\ Len(q) = m /\ DOMAIN q = 1..m
<1>1. q \in [1..m -> Range(q)]
  BY DEF Range
<1>. QED
  BY <1>1, FunctionIsSequence DEF IsSequence

\* The first k members of q are parts of s: part j begins after g[j] elements.
HasParts(s, g, q, k) ==
    \A j \in 1..k : /\ g[j + 1] <= Len(s)
                    /\ \A i \in 1..Len(q[j]) : s[g[j] + i] = q[j][i]

\* One sequence after another.
LEMMA JoinFacts ==
    ASSUME NEW a, IsSequence(a), NEW b, IsSequence(b)
    PROVE  /\ IsSequence(a \o b)
           /\ Len(a) \in Nat /\ Len(b) \in Nat /\ Len(a \o b) = Len(a) + Len(b)
           /\ \A i \in 1..Len(a) : (a \o b)[i] = a[i]
           /\ \A i \in 1..Len(b) : (a \o b)[Len(a) + i] = b[i]
<1>1. PICK R : R = Range(a) \cup Range(b)
  OBVIOUS
<1>2. a \in Seq(R) /\ b \in Seq(R)
  BY <1>1 DEF IsSequence
<1>3. a \o b \in Seq(R) /\ Len(a) \in Nat /\ Len(b) \in Nat
      /\ Len(a \o b) = Len(a) + Len(b)
  BY <1>2
<1>4. IsSequence(a \o b)
  BY <1>3, OfItsRange
<1>5. \A i \in 1..Len(a) : (a \o b)[i] = a[i]
  BY <1>2
<1>6. \A i \in 1..Len(b) : (a \o b)[Len(a) + i] = b[i]
  BY <1>2
<1>. QED
  BY <1>3, <1>4, <1>5, <1>6

\* A part more.
LEMMA PartAdded ==
    ASSUME NEW s, IsSequence(s), NEW q, NEW k \in Nat, IsSequence(q[k + 1]),
           NEW g, g[k + 1] = Len(s), g[k + 2] = Len(s) + Len(q[k + 1]),
           \A j \in 1..k : /\ g[j] \in Nat /\ Len(q[j]) \in Nat
                           /\ g[j + 1] = g[j] + Len(q[j]),
           HasParts(s, g, q, k)
    PROVE  HasParts(s \o q[k + 1], g, q, k + 1)
<1>a. PICK b : b = q[k + 1]
  OBVIOUS
<1>b. PICK u : u = s \o b
  OBVIOUS
<1>1. u = s \o b /\ b = q[k + 1] /\ IsSequence(b)
  BY <1>a, <1>b
<1>2. /\ Len(s) \in Nat /\ Len(b) \in Nat /\ Len(u) = Len(s) + Len(b)
      /\ \A i \in 1..Len(s) : u[i] = s[i]
      /\ \A i \in 1..Len(b) : u[Len(s) + i] = b[i]
  <2>0. IsSequence(s) /\ IsSequence(b)
    BY <1>1
  <2>1. /\ Len(s) \in Nat /\ Len(b) \in Nat /\ Len(s \o b) = Len(s) + Len(b)
        /\ \A i \in 1..Len(s) : (s \o b)[i] = s[i]
        /\ \A i \in 1..Len(b) : (s \o b)[Len(s) + i] = b[i]
    BY <2>0, JoinFacts
  <2>. QED
    BY <1>1, <2>1
<1>3. ASSUME NEW j \in 1..(k + 1)
      PROVE  /\ g[j + 1] <= Len(u)
             /\ \A i \in 1..Len(q[j]) : u[g[j] + i] = q[j][i]
  <2>1. CASE j = k + 1
    <3>1. g[j] = Len(s) /\ g[j + 1] = Len(u) /\ q[j] = b
      <4>1. j + 1 = k + 2
        BY <2>1
      <4>. QED
        BY <1>1, <1>2, <2>1, <4>1
    <3>2. Len(u) <= Len(u)
      BY <1>2
    <3>. QED
      BY <1>2, <3>1, <3>2
  <2>2. CASE j \in 1..k
    <3>1. /\ g[j + 1] <= Len(s)
          /\ \A i \in 1..Len(q[j]) : s[g[j] + i] = q[j][i]
      BY <2>2 DEF HasParts
    <3>2. g[j] \in Nat /\ Len(q[j]) \in Nat /\ g[j + 1] = g[j] + Len(q[j])
      BY <2>2
    <3>3. \A i \in 1..Len(q[j]) : g[j] + i \in 1..Len(s)
      BY <1>2, <3>1, <3>2
    <3>4. g[j + 1] <= Len(u)
      BY <1>2, <3>1, <3>2
    <3>. QED
      BY <1>2, <3>1, <3>3, <3>4
  <2>. QED
    BY <2>1, <2>2
<1>. QED
  BY <1>1, <1>3 DEF HasParts

\* A concatenation has its parts.
LEMMA FlattenParts ==
    ASSUME NEW m \in Nat \ {0}, NEW q, q = [j \in 1..m |-> q[j]],
           \A j \in 1..m : IsSequence(q[j])
    PROVE  /\ IsSequence(FlattenSeq(q))
           /\ \E g \in [1..(m + 1) -> Nat] :
                /\ g[1] = 0 /\ g[m + 1] = Len(FlattenSeq(q))
                /\ \A j \in 1..m : g[j + 1] = g[j] + Len(q[j])
                /\ HasParts(FlattenSeq(q), g, q, m)
<1>0. Len(q) = m /\ q \in Seq(Range(q)) /\ q # <<>>
  BY ListIsSequence, EmptySeq DEF IsSequence
<1>1. PICK f : Concatenates(f, q, m) /\ FlattenSeq(q) = f[m]
  BY <1>0, Flattened
<1>2. f[1] = q[1]
  BY <1>1 DEF Concatenates
<1>3. ASSUME NEW k \in Nat, k + 1 \in 1..m, k # 0
      PROVE  f[k + 1] = f[k] \o q[k + 1] /\ k \in 1..m
  <2>1. PICK i \in 1..m : i = k + 1 /\ i # 1 /\ i - 1 = k
    BY <1>3
  <2>2. f[i] = f[i - 1] \o q[i]
    BY <1>1, <2>1 DEF Concatenates
  <2>3. k \in 1..m
    BY <1>3
  <2>. QED
    BY <2>1, <2>2, <2>3
<1>. DEFINE S == {k \in Nat : k \in 1..m => IsSequence(f[k])}
<1>4. 0 \in S
  OBVIOUS
<1>5. ASSUME NEW k \in S PROVE k + 1 \in S
  <2>. SUFFICES ASSUME k + 1 \in 1..m PROVE IsSequence(f[k + 1])
    OBVIOUS
  <2>1. CASE k = 0
    BY <1>2, <2>1
  <2>2. CASE k # 0
    <3>1. f[k + 1] = f[k] \o q[k + 1] /\ k \in 1..m
      BY <1>3, <2>2
    <3>2. IsSequence(f[k]) /\ IsSequence(q[k + 1])
      BY <3>1
    <3>. QED
      BY <3>1, <3>2, JoinFacts
  <2>. QED
    BY <2>1, <2>2
<1>6. S \in SUBSET Nat
  OBVIOUS
<1>. HIDE DEF S
<1>7. S = Nat
  BY <1>4, <1>5, <1>6, Induction
<1>8. \A k \in 1..m : IsSequence(f[k])
  <2>. SUFFICES ASSUME NEW k \in 1..m PROVE IsSequence(f[k])
    OBVIOUS
  <2>1. k \in S
    BY <1>7
  <2>. QED
    BY <2>1 DEF S
<1>9. PICK g : g = [j \in 1..(m + 1) |-> IF j = 1 THEN 0 ELSE Len(f[j - 1])]
  OBVIOUS
<1>10. \A s : IsSequence(s) => Len(s) \in Nat
  BY DEF IsSequence
<1>11. g[1] = 0 /\ \A k \in 1..m : g[k + 1] = Len(f[k])
  BY <1>9
<1>12. ASSUME NEW j \in 1..(m + 1), j # 1
       PROVE  \E k \in 1..m : j = k + 1
  <2>1. PICK k : k = j - 1
    OBVIOUS
  <2>2. k \in 1..m /\ j = k + 1
    BY <1>12, <2>1
  <2>. QED
    BY <2>2
<1>13. g \in [1..(m + 1) -> Nat]
  <2>. SUFFICES ASSUME NEW j \in 1..(m + 1) PROVE g[j] \in Nat
    BY <1>9
  <2>1. CASE j = 1
    BY <1>11, <2>1
  <2>2. CASE j # 1
    <3>1. PICK k \in 1..m : j = k + 1
      BY <1>12, <2>2
    <3>. QED
      BY <1>8, <1>10, <1>11, <3>1
  <2>. QED
    BY <2>1, <2>2
<1>14. ASSUME NEW j \in 1..m
       PROVE  /\ Len(q[j]) \in Nat /\ Len(f[j]) \in Nat
              /\ g[j] \in Nat /\ g[j + 1] = g[j] + Len(q[j])
  <2>1. Len(q[j]) \in Nat /\ Len(f[j]) \in Nat /\ g[j] \in Nat
        /\ g[j + 1] = Len(f[j])
    BY <1>8, <1>10, <1>11, <1>13
  <2>2. CASE j = 1
    BY <1>2, <1>11, <2>1, <2>2
  <2>3. CASE j # 1
    <3>1. PICK k \in Nat : j = k + 1 /\ k # 0
      <4>1. PICK k : k = j - 1
        OBVIOUS
      <4>2. k \in Nat /\ j = k + 1 /\ k # 0
        BY <2>3, <4>1
      <4>. QED
        BY <4>2
    <3>2. f[j] = f[k] \o q[j] /\ k \in 1..m
      BY <1>3, <3>1
    <3>3. IsSequence(f[k]) /\ IsSequence(q[j]) /\ g[j] = Len(f[k])
      BY <1>8, <1>11, <3>1, <3>2
    <3>4. Len(f[k] \o q[j]) = Len(f[k]) + Len(q[j])
      BY <3>3, JoinFacts
    <3>. QED
      BY <2>1, <3>2, <3>3, <3>4
  <2>. QED
    BY <2>1, <2>2, <2>3
<1>. DEFINE T == {k \in Nat : k \in 1..m => HasParts(f[k], g, q, k)}
<1>15. 0 \in T
  OBVIOUS
<1>16. ASSUME NEW k \in T PROVE k + 1 \in T
  <2>. SUFFICES ASSUME k + 1 \in 1..m PROVE HasParts(f[k + 1], g, q, k + 1)
    OBVIOUS
  <2>1. CASE k = 0
    <3>1. g[1] = 0 /\ g[2] = Len(f[1]) /\ Len(f[1]) \in Nat
      <4>1. 1 \in 1..m /\ 1 + 1 = 2
        OBVIOUS
      <4>2. g[1 + 1] = Len(f[1])
        BY <1>11, <4>1
      <4>. QED
        BY <1>11, <1>14, <4>1, <4>2
    <3>2. \A i \in 1..Len(q[1]) : f[1][g[1] + i] = q[1][i]
      <4>1. \A i \in 1..Len(q[1]) : g[1] + i = i
        BY <3>1
      <4>. QED
        BY <1>2, <4>1
    <3>3. \A j \in 1..1 : j = 1 /\ j + 1 = 2
      OBVIOUS
    <3>. QED
      BY <2>1, <3>1, <3>2, <3>3 DEF HasParts
  <2>2. CASE k # 0
    <3>1. f[k + 1] = f[k] \o q[k + 1] /\ k \in 1..m
      BY <1>3, <2>2
    <3>2. IsSequence(f[k]) /\ IsSequence(q[k + 1]) /\ HasParts(f[k], g, q, k)
      BY <1>8, <3>1
    <3>3. g[k + 1] = Len(f[k]) /\ g[(k + 1) + 1] = g[k + 1] + Len(q[k + 1])
      BY <1>11, <1>14, <3>1
    <3>4. (k + 1) + 1 = k + 2
      OBVIOUS
    <3>5. \A j \in 1..k : /\ g[j] \in Nat /\ Len(q[j]) \in Nat
                          /\ g[j + 1] = g[j] + Len(q[j])
      BY <1>14, <3>1
    <3>6. PICK s : s = f[k]
      OBVIOUS
    <3>7. HasParts(s \o q[k + 1], g, q, k + 1)
      BY <3>2, <3>3, <3>4, <3>5, <3>6, PartAdded
    <3>. QED
      BY <3>1, <3>6, <3>7
  <2>. QED
    BY <2>1, <2>2
<1>17. T \in SUBSET Nat
  OBVIOUS
<1>. HIDE DEF T
<1>18. T = Nat
  BY <1>15, <1>16, <1>17, Induction
<1>19. m \in T
  BY <1>18
<1>20. HasParts(f[m], g, q, m)
  BY <1>19 DEF T
<1>21. g[m + 1] = Len(f[m]) /\ IsSequence(f[m])
  BY <1>8, <1>11
<1>. QED
  BY <1>1, <1>11, <1>13, <1>14, <1>20, <1>21

\* The chunks of the nodes are sequences, one for each child of a node.
ListOf(of, m) == of = [j \in 1..m |-> of[j]] /\ \A j \in 1..m : IsSequence(of[j])

\* The chunks of an empty frame, and of one chunk.
LEMMA ShortSequences ==
    /\ IsSequence(<<>>) /\ Len(<<>>) = 0
    /\ \A e : IsSequence(<<e>>) /\ Len(<<e>>) = 1 /\ <<e>>[1] = e
    /\ \A q : IsSequence(q) => /\ Len(q) \in Nat /\ DOMAIN q = 1..Len(q)
                               /\ q = <<>> <=> Len(q) = 0
<1>1. IsSequence(<<>>) /\ Len(<<>>) = 0
  BY EmptySeq DEF IsSequence
<1>2. ASSUME NEW e PROVE IsSequence(<<e>>) /\ Len(<<e>>) = 1 /\ <<e>>[1] = e
  <2>1. <<e>> \in Seq({e}) /\ Len(<<e>>) = 1 /\ <<e>>[1] = e
    OBVIOUS
  <2>. QED
    BY <2>1, OfItsRange
<1>3. ASSUME NEW q, IsSequence(q)
      PROVE  /\ Len(q) \in Nat /\ DOMAIN q = 1..Len(q)
             /\ q = <<>> <=> Len(q) = 0
  BY <1>3, EmptySeq DEF IsSequence
<1>. QED
  BY <1>1, <1>2, <1>3

\* What a source, a scan, a map or a reduce makes.
LEMMA PlainValue ==
    ASSUME NEW p \in Plans, NEW n \in 1..Len(p.kind), NEW of,
           ListOf(of, Len(p.args[n]))
    PROVE  /\ p.kind[n] \in {"source", "scan"} =>
                /\ IsSequence(NodeValue(p, n, of))
                /\ Len(NodeValue(p, n, of)) = p.chunks[n]
                /\ \A i \in 1..p.chunks[n] :
                        NodeValue(p, n, of)[i] = <<<<n, i - 1>>>>
           /\ p.kind[n] = "map" =>
                /\ IsSequence(NodeValue(p, n, of))
                /\ Len(of[1]) = 0 => NodeValue(p, n, of) = <<<<>>>>
                /\ Len(of[1]) # 0 => NodeValue(p, n, of) = of[1]
           /\ p.kind[n] = "reduce" =>
                /\ IsSequence(NodeValue(p, n, of))
                /\ Len(of[1]) = 0 => NodeValue(p, n, of) = <<>>
                /\ Len(of[1]) # 0 => NodeValue(p, n, of) = <<FlattenSeq(of[1])>>
<1>1. PICK v : v = NodeValue(p, n, of)
  OBVIOUS
<1>2. CASE p.kind[n] \in {"source", "scan"}
  <2>1. v = [i \in 1..p.chunks[n] |-> <<<<n, i - 1>>>>]
    BY <1>1, <1>2, Zenon DEF NodeValue
  <2>2. p.chunks[n] \in Nat
    BY PlanFacts
  <2>3. v = [i \in 1..p.chunks[n] |-> v[i]]
    BY <2>1
  <2>4. IsSequence(v) /\ Len(v) = p.chunks[n]
    BY <2>2, <2>3, ListIsSequence
  <2>. QED
    BY <1>1, <1>2, <2>1, <2>4
<1>3. CASE p.kind[n] \in {"map", "reduce"}
  <2>1. IsSequence(of[1])
    <3>1. Len(p.args[n]) = 1
      BY <1>3, PlanFacts
    <3>. QED
      BY <3>1 DEF ListOf
  <2>2. of[1] = <<>> <=> Len(of[1]) = 0
    BY <2>1, ShortSequences
  <2>3. CASE p.kind[n] = "map"
    <3>1. v = IF of[1] = <<>> THEN <<<<>>>> ELSE of[1]
      BY <1>1, <2>3 DEF NodeValue
    <3>2. IsSequence(v)
      BY <2>1, <3>1, ShortSequences
    <3>. QED
      BY <1>1, <2>2, <2>3, <3>1, <3>2
  <2>4. CASE p.kind[n] = "reduce"
    <3>1. v = IF of[1] = <<>> THEN <<>> ELSE <<FlattenSeq(of[1])>>
      BY <1>1, <2>4 DEF NodeValue
    <3>2. IsSequence(v)
      BY <3>1, ShortSequences
    <3>. QED
      BY <1>1, <2>2, <2>4, <3>1, <3>2
  <2>. QED
    BY <1>3, <2>3, <2>4
<1>. QED
  BY <1>2, <1>3

\* The chunk of a child that goes into row k of a zip.
RowOf(of, j, k) == IF of[j] = <<>> THEN <<>>
                   ELSE IF k <= Len(of[j]) THEN of[j][k]
                   ELSE Last(of[j])

\* What a zip makes: as many rows as its longest child has chunks.
LEMMA ZipValue ==
    ASSUME NEW p \in Plans, NEW n \in 1..Len(p.kind), NEW of,
           ListOf(of, Len(p.args[n])), p.kind[n] = "zip"
    PROVE  /\ IsSequence(NodeValue(p, n, of))
           /\ \A j \in 1..Len(p.args[n]) : Len(of[j]) <= Len(NodeValue(p, n, of))
           /\ \E j \in 1..Len(p.args[n]) : Len(of[j]) = Len(NodeValue(p, n, of))
           /\ \A k \in 1..Len(NodeValue(p, n, of)) :
                NodeValue(p, n, of)[k] =
                    FlattenSeq([j \in 1..Len(p.args[n]) |-> RowOf(of, j, k)])
<1>0. PICK m : m = Len(p.args[n])
  OBVIOUS
<1>1. m \in Nat \ {0} /\ DOMAIN of = 1..m
  BY <1>0, PlanFacts DEF ListOf
<1>2. PICK f : f = [j \in 1..m |-> Len(of[j])]
  OBVIOUS
<1>3. f \in [1..m -> Nat]
  BY <1>0, <1>2, ShortSequences DEF ListOf
<1>4. PICK z \in 1..m : \A i \in 1..m : f[i] <= f[z]
  BY <1>1, <1>3, Greatest
<1>5. PICK L : L = CHOOSE l \in {Len(of[j]) : j \in DOMAIN of} :
                        \A j \in DOMAIN of : Len(of[j]) <= l
  OBVIOUS
<1>6. L \in {Len(of[j]) : j \in DOMAIN of} /\ \A j \in DOMAIN of : Len(of[j]) <= L
  <2>1. \A j \in DOMAIN of : Len(of[j]) <= Len(of[z])
    BY <1>1, <1>2, <1>4
  <2>2. Len(of[z]) \in {Len(of[j]) : j \in DOMAIN of}
    BY <1>1
  <2>. QED
    BY <1>5, <2>1, <2>2
<1>7. L \in Nat
  BY <1>1, <1>2, <1>3, <1>6
<1>8. PICK v : v = NodeValue(p, n, of)
  OBVIOUS
<1>9. v = [k \in 1..L |-> FlattenSeq([j \in DOMAIN of |-> RowOf(of, j, k)])]
  <2>1. v = [k \in 1..(CHOOSE l \in {Len(of[j]) : j \in DOMAIN of} :
                        \A j \in DOMAIN of : Len(of[j]) <= l) |->
                FlattenSeq([j \in DOMAIN of |->
                    IF of[j] = <<>> THEN <<>>
                    ELSE IF k <= Len(of[j]) THEN of[j][k] ELSE Last(of[j])])]
    <3>1. p.kind[n] \notin {"source", "scan"} /\ p.kind[n] # "map"
          /\ p.kind[n] # "reduce"
      OBVIOUS
    <3>. QED
      BY <1>8, <3>1, Zenon DEF NodeValue
  <2>. QED
    BY <1>5, <2>1, Zenon DEF RowOf
<1>10. v = [k \in 1..L |-> v[k]]
  BY <1>9
<1>11. IsSequence(v) /\ Len(v) = L
  BY <1>7, <1>10, ListIsSequence
<1>. QED
  BY <1>0, <1>1, <1>6, <1>8, <1>9, <1>11

\* What a union makes.
LEMMA UnionValue ==
    ASSUME NEW p \in Plans, NEW n \in 1..Len(p.kind), NEW of,
           p.kind[n] = "union"
    PROVE  NodeValue(p, n, of) = FlattenSeq(of) /\ Len(p.args[n]) \in Nat \ {0}
<1>1. NodeValue(p, n, of) = FlattenSeq(of)
  BY DEF NodeValue
<1>. QED
  BY <1>1, PlanFacts

\* The chunks of every node are a sequence.
LEMMA ValuesAreSequences ==
    ASSUME NEW p \in Plans
    PROVE  \A n \in 1..Len(p.kind) : IsSequence(Values(p)[n])
<1>. DEFINE T == {n \in 1..Len(p.kind) : ~IsSequence(Values(p)[n])}
<1>. SUFFICES ASSUME T # {} PROVE FALSE
  OBVIOUS
<1>1. T \in SUBSET Nat /\ \A k \in T : k \in 1..Len(p.kind)
  OBVIOUS
<1>2. \A k \in 1..Len(p.kind) : k \notin T => IsSequence(Values(p)[k])
  OBVIOUS
<1>3. \A k \in T : ~IsSequence(Values(p)[k])
  OBVIOUS
<1>. HIDE DEF T
<1>4. PICK n \in T : \A k \in T : n <= k
  BY <1>1, Least
<1>5. n \in 1..Len(p.kind) /\ Len(p.kind) \in Nat
  BY <1>1, PlanFacts
<1>6. PICK of : of = ChildValues(p, n)
  OBVIOUS
<1>7. \A j \in DOMAIN p.args[n] : IsSequence(Values(p)[p.args[n][j]])
  <2>1. \A j \in DOMAIN p.args[n] : p.args[n][j] \in 1..(n - 1)
    BY <1>5, PlanFacts
  <2>2. \A k \in 1..(n - 1) : k \in 1..Len(p.kind) /\ k \notin T
    BY <1>1, <1>4, <1>5
  <2>. QED
    BY <1>2, <2>1, <2>2
<1>8. ListOf(of, Len(p.args[n]))
  BY <1>5, <1>6, <1>7, PlanFacts DEF ListOf, ChildValues
<1>9. Values(p)[n] = NodeValue(p, n, of)
  BY <1>5, <1>6, ValuesFacts
<1>10. p.kind[n] \in {"source", "scan", "map", "reduce", "zip", "union"}
  BY <1>5, PlanFacts
<1>11. CASE p.kind[n] = "union"
  <2>1. NodeValue(p, n, of) = FlattenSeq(of) /\ Len(p.args[n]) \in Nat \ {0}
    BY <1>5, <1>11, UnionValue
  <2>2. IsSequence(FlattenSeq(of))
    BY <1>8, <2>1, FlattenParts DEF ListOf
  <2>. QED
    BY <1>3, <1>9, <2>1, <2>2
<1>12. CASE p.kind[n] # "union"
  <2>1. IsSequence(NodeValue(p, n, of))
    BY <1>5, <1>8, <1>10, <1>12, PlainValue, ZipValue
  <2>. QED
    BY <1>3, <1>9, <2>1
<1>. QED
  BY <1>11, <1>12

\* The number of chunks of a node.
LEMMA SizeFacts ==
    ASSUME NEW p \in Plans, NEW n \in 1..Len(p.kind)
    PROVE  /\ Size(p, n) \in Nat
           /\ ListOf(ChildValues(p, n), Len(p.args[n]))
           /\ \A j \in 1..Len(p.args[n]) :
                /\ p.args[n][j] \in 1..Len(p.kind)
                /\ ChildValues(p, n)[j] = Values(p)[p.args[n][j]]
                /\ Size(p, p.args[n][j]) = Len(ChildValues(p, n)[j])
                /\ Size(p, p.args[n][j]) \in Nat
<1>0. /\ Len(p.kind) \in Nat /\ DOMAIN p.args[n] = 1..Len(p.args[n])
      /\ \A j \in DOMAIN p.args[n] : p.args[n][j] \in 1..(n - 1)
  BY PlanFacts
<1>1. \A k \in 1..Len(p.kind) : IsSequence(Values(p)[k]) /\ Size(p, k) \in Nat
  BY ValuesAreSequences, ShortSequences DEF Size
<1>2. \A j \in 1..Len(p.args[n]) : p.args[n][j] \in 1..Len(p.kind)
  BY <1>0
<1>3. ChildValues(p, n) =
        [j \in 1..Len(p.args[n]) |-> Values(p)[p.args[n][j]]]
  BY <1>0 DEF ChildValues
<1>4. ListOf(ChildValues(p, n), Len(p.args[n]))
  BY <1>1, <1>2, <1>3 DEF ListOf
<1>. QED
  BY <1>1, <1>2, <1>3, <1>4 DEF Size

\* The messages of a source or a scan.
LEMMA SourceMessages ==
    ASSUME NEW p \in Plans, NEW n \in 1..Len(p.kind),
           p.kind[n] \in {"source", "scan"}
    PROVE  /\ Size(p, n) = p.chunks[n] /\ p.chunks[n] \in Nat
           /\ \A i \in 1..Size(p, n) :
                Message(p, n, i) = [seq |-> i - 1, data |-> <<<<n, i - 1>>>>]
<1>1. PICK of : of = ChildValues(p, n)
  OBVIOUS
<1>2. ListOf(of, Len(p.args[n])) /\ Values(p)[n] = NodeValue(p, n, of)
  BY <1>1, SizeFacts, ValuesFacts
<1>3. /\ Len(Values(p)[n]) = p.chunks[n]
      /\ \A i \in 1..p.chunks[n] : Values(p)[n][i] = <<<<n, i - 1>>>>
  BY <1>2, PlainValue
<1>. QED
  BY <1>3, PlanFacts DEF Size, Message

\* The messages of a map: those of its child, or one empty one.
LEMMA MapMessages ==
    ASSUME NEW p \in Plans, NEW n \in 1..Len(p.kind), p.kind[n] = "map",
           NEW c, c = p.args[n][1]
    PROVE  /\ Size(p, c) = 0 => Size(p, n) = 1 /\ Message(p, n, 1) = Empty
           /\ Size(p, c) # 0 =>
                /\ Size(p, n) = Size(p, c)
                /\ \A i : Message(p, n, i) = Message(p, c, i)
<1>1. PICK of : of = ChildValues(p, n)
  OBVIOUS
<1>2. ListOf(of, Len(p.args[n])) /\ Values(p)[n] = NodeValue(p, n, of)
  BY <1>1, SizeFacts, ValuesFacts
<1>3. of[1] = Values(p)[c] /\ Size(p, c) = Len(of[1])
  <2>1. 1 \in 1..Len(p.args[n])
    BY PlanFacts
  <2>. QED
    BY <1>1, <2>1, SizeFacts
<1>4. CASE Size(p, c) = 0
  <2>1. Values(p)[n] = <<<<>>>>
    BY <1>2, <1>3, <1>4, PlainValue
  <2>. QED
    BY <1>4, <2>1, ShortSequences DEF Size, Message, Empty
<1>5. CASE Size(p, c) # 0
  <2>1. Values(p)[n] = Values(p)[c]
    BY <1>2, <1>3, <1>5, PlainValue
  <2>. QED
    BY <1>5, <2>1 DEF Size, Message
<1>. QED
  BY <1>4, <1>5

\* The message of a reduce combines all that it has collected.
LEMMA ReduceMessage ==
    ASSUME NEW p \in Plans, NEW n \in 1..Len(p.kind), p.kind[n] = "reduce",
           NEW c, c = p.args[n][1]
    PROVE  /\ Size(p, c) = 0 => Size(p, n) = 0
           /\ Size(p, c) # 0 =>
                /\ Size(p, n) = 1
                /\ \A q : /\ IsSequence(q) /\ Len(q) = Size(p, c)
                          /\ \A i \in DOMAIN q : q[i] = Message(p, c, i)
                          => [seq |-> 0, data |-> Combined(q)] = Message(p, n, 1)
<1>1. PICK of : of = ChildValues(p, n)
  OBVIOUS
<1>2. ListOf(of, Len(p.args[n])) /\ Values(p)[n] = NodeValue(p, n, of)
  BY <1>1, SizeFacts, ValuesFacts
<1>3. of[1] = Values(p)[c] /\ Size(p, c) = Len(of[1]) /\ IsSequence(of[1])
  <2>0. Len(p.args[n]) = 1
    BY PlanFacts
  <2>1. 1 \in 1..Len(p.args[n])
    BY <2>0
  <2>2. of[1] = Values(p)[c] /\ Size(p, c) = Len(of[1])
    BY <1>1, <2>1, SizeFacts
  <2>3. IsSequence(of[1])
    BY <1>2, <2>1 DEF ListOf
  <2>. QED
    BY <2>2, <2>3
<1>4. CASE Size(p, c) = 0
  <2>0. NodeValue(p, n, of) = <<>>
    <3>1. Len(of[1]) = 0
      BY <1>3, <1>4
    <3>. QED
      BY <1>2, <3>1, PlainValue
  <2>1. Values(p)[n] = <<>>
    BY <1>2, <2>0
  <2>. QED
    BY <1>4, <2>1, ShortSequences DEF Size
<1>5. CASE Size(p, c) # 0
  <2>1. Values(p)[n] = <<FlattenSeq(of[1])>>
    BY <1>2, <1>3, <1>5, PlainValue
  <2>2. Size(p, n) = 1 /\ Values(p)[n][1] = FlattenSeq(of[1])
    BY <2>1, ShortSequences DEF Size
  <2>3. ASSUME NEW q, IsSequence(q), Len(q) = Size(p, c),
               \A i \in DOMAIN q : q[i] = Message(p, c, i)
        PROVE  [seq |-> 0, data |-> Combined(q)] = Message(p, n, 1)
    <3>1. DOMAIN q = DOMAIN of[1]
      BY <1>3, <2>3, ShortSequences
    <3>2. \A i \in DOMAIN q : q[i].data = of[1][i]
      BY <1>3, <2>3 DEF Message
    <3>3. of[1] = [i \in DOMAIN of[1] |-> of[1][i]]
      BY <1>3 DEF IsSequence
    <3>4. [i \in DOMAIN q |-> q[i].data] = of[1]
      BY <3>1, <3>2, <3>3
    <3>5. Combined(q) = FlattenSeq(of[1])
      BY <3>4 DEF Combined
    <3>. QED
      BY <2>2, <3>5 DEF Message
  <2>. QED
    BY <1>5, <2>2, <2>3
<1>. QED
  BY <1>4, <1>5

\* The number of chunks taken of a child.
LEMMA UptoFacts ==
    ASSUME NEW p, NEW c, Size(p, c) \in Nat, NEW k \in Nat
    PROVE  /\ Upto(p, c, k) \in 0..Size(p, c) /\ Upto(p, c, k) <= k
           /\ Upto(p, c, 0) = 0
           /\ Size(p, c) <= k => Upto(p, c, k) = Size(p, c)
           /\ k < Size(p, c) => /\ Upto(p, c, k) = k
                                /\ Upto(p, c, k + 1) = Upto(p, c, k) + 1
           /\ k > 0 => (Upto(p, c, k) = 0 <=> Size(p, c) = 0)
BY DEF Upto

\* The messages of a zip.
LEMMA ZipMessages ==
    ASSUME NEW p \in Plans, NEW n \in 1..Len(p.kind), p.kind[n] = "zip",
           NEW m, m = Len(p.args[n])
    PROVE  /\ \A j \in 1..m : Size(p, p.args[n][j]) <= Size(p, n)
           /\ \E j \in 1..m : Size(p, p.args[n][j]) = Size(p, n)
           /\ \A k \in 1..Size(p, n) : \A hold :
                /\ DOMAIN hold = 1..m
                /\ \A j \in 1..m :
                    hold[j] = IF Upto(p, p.args[n][j], k) = 0 THEN <<Empty>>
                              ELSE <<Message(p, p.args[n][j],
                                             Upto(p, p.args[n][j], k))>>
                => [seq |-> k - 1, data |-> Combined(FirstOf(hold))] =
                        Message(p, n, k)
<1>1. PICK of : of = ChildValues(p, n)
  OBVIOUS
<1>2. ListOf(of, m) /\ Values(p)[n] = NodeValue(p, n, of)
  BY <1>1, SizeFacts, ValuesFacts
<1>3. \A j \in 1..m : /\ of[j] = Values(p)[p.args[n][j]]
                      /\ Size(p, p.args[n][j]) = Len(of[j])
                      /\ Size(p, p.args[n][j]) \in Nat
  BY <1>1, SizeFacts
<1>4. /\ \A j \in 1..m : Len(of[j]) <= Size(p, n)
      /\ \E j \in 1..m : Len(of[j]) = Size(p, n)
      /\ \A k \in 1..Size(p, n) :
            Values(p)[n][k] = FlattenSeq([j \in 1..m |-> RowOf(of, j, k)])
  BY <1>2, ZipValue DEF Size
<1>5. ASSUME NEW k \in 1..Size(p, n), NEW hold, DOMAIN hold = 1..m,
             \A j \in 1..m :
                    hold[j] = IF Upto(p, p.args[n][j], k) = 0 THEN <<Empty>>
                              ELSE <<Message(p, p.args[n][j],
                                             Upto(p, p.args[n][j], k))>>
      PROVE  [seq |-> k - 1, data |-> Combined(FirstOf(hold))] =
                Message(p, n, k)
  <2>0. k \in Nat /\ k > 0
    BY SizeFacts
  <2>1. ASSUME NEW j \in 1..m PROVE hold[j][1].data = RowOf(of, j, k)
    <3>1. PICK c : c = p.args[n][j]
      OBVIOUS
    <3>2. of[j] = Values(p)[c] /\ Size(p, c) = Len(of[j]) /\ Size(p, c) \in Nat
      BY <1>3, <3>1
    <3>3. IsSequence(of[j]) /\ (of[j] = <<>> <=> Size(p, c) = 0)
      BY <1>2, <3>2, ShortSequences DEF ListOf
    <3>4. CASE Size(p, c) = 0
      <4>1. Upto(p, c, k) = 0
        BY <2>0, <3>2, <3>4, UptoFacts
      <4>2. hold[j] = <<Empty>>
        BY <1>5, <3>1, <4>1
      <4>. QED
        BY <3>3, <3>4, <4>2 DEF RowOf, Empty
    <3>5. CASE Size(p, c) # 0
      <4>1. Upto(p, c, k) # 0
        BY <2>0, <3>2, <3>5, UptoFacts
      <4>2. hold[j] = <<Message(p, c, Upto(p, c, k))>>
        BY <1>5, <3>1, <4>1
      <4>3. hold[j][1].data = of[j][Upto(p, c, k)]
        BY <3>2, <4>2 DEF Message
      <4>4. CASE k <= Size(p, c)
        BY <3>2, <3>3, <3>5, <4>3, <4>4 DEF Upto, RowOf
      <4>5. CASE ~(k <= Size(p, c))
        <5>1. Upto(p, c, k) = Len(of[j])
          BY <3>2, <4>5 DEF Upto
        <5>. QED
          BY <3>2, <3>3, <3>5, <4>3, <4>5, <5>1 DEF RowOf, Last
      <4>. QED
        BY <4>4, <4>5
    <3>. QED
      BY <3>4, <3>5
  <2>2. FirstOf(hold) = [j \in 1..m |-> hold[j][1]]
    BY <1>5 DEF FirstOf
  <2>3. [j \in DOMAIN FirstOf(hold) |-> FirstOf(hold)[j].data] =
            [j \in 1..m |-> RowOf(of, j, k)]
    BY <2>1, <2>2
  <2>4. Combined(FirstOf(hold)) = FlattenSeq([j \in 1..m |-> RowOf(of, j, k)])
    BY <2>3, Zenon DEF Combined
  <2>5. Combined(FirstOf(hold)) = Values(p)[n][k]
    BY <1>4, <2>4
  <2>. QED
    BY <2>5 DEF Message
<1>6. \E j \in 1..m : Size(p, p.args[n][j]) = Size(p, n)
  BY <1>3, <1>4
<1>7. \A j \in 1..m : Size(p, p.args[n][j]) <= Size(p, n)
  BY <1>3, <1>4
<1>. QED
  BY <1>5, <1>6, <1>7

\* The messages of a union: those of its children, one child after the other.
LEMMA UnionMessages ==
    ASSUME NEW p \in Plans, NEW n \in 1..Len(p.kind), p.kind[n] = "union"
    PROVE  IsOffsets(Offsets(p, n), p, n)
<1>0. PICK m : m = Len(p.args[n])
  OBVIOUS
<1>1. PICK of : of = ChildValues(p, n)
  OBVIOUS
<1>2. ListOf(of, m) /\ Values(p)[n] = NodeValue(p, n, of)
  BY <1>0, <1>1, SizeFacts, ValuesFacts
<1>3. \A j \in 1..m : /\ of[j] = Values(p)[p.args[n][j]]
                      /\ Size(p, p.args[n][j]) = Len(of[j])
  BY <1>0, <1>1, SizeFacts
<1>4. Values(p)[n] = FlattenSeq(of) /\ m \in Nat \ {0}
  BY <1>0, <1>2, UnionValue
<1>5. PICK g \in [1..(m + 1) -> Nat] :
        /\ g[1] = 0 /\ g[m + 1] = Len(Values(p)[n])
        /\ \A j \in 1..m : g[j + 1] = g[j] + Len(of[j])
        /\ HasParts(Values(p)[n], g, of, m)
  <2>1. of = [j \in 1..m |-> of[j]] /\ \A j \in 1..m : IsSequence(of[j])
    BY <1>2 DEF ListOf
  <2>. QED
    BY <1>4, <2>1, FlattenParts
<1>6. \A j \in 1..m :
        /\ g[j + 1] = g[j] + Size(p, p.args[n][j])
        /\ g[j + 1] <= Size(p, n)
        /\ \A i \in 1..Size(p, p.args[n][j]) :
            Values(p)[n][g[j] + i] = Values(p)[p.args[n][j]][i]
  <2>1. ASSUME NEW j \in 1..m
        PROVE  /\ g[j + 1] = g[j] + Size(p, p.args[n][j])
               /\ g[j + 1] <= Size(p, n)
               /\ \A i \in 1..Size(p, p.args[n][j]) :
                    Values(p)[n][g[j] + i] = Values(p)[p.args[n][j]][i]
    <3>1. /\ of[j] = Values(p)[p.args[n][j]]
          /\ Size(p, p.args[n][j]) = Len(of[j])
      BY <1>3
    <3>2. g[j + 1] = g[j] + Len(of[j])
      BY <1>5
    <3>3. /\ g[j] + Len(of[j]) <= Len(Values(p)[n])
          /\ \A i \in 1..Len(of[j]) : Values(p)[n][g[j] + i] = of[j][i]
      BY <1>5 DEF HasParts
    <3>. QED
      BY <3>1, <3>2, <3>3 DEF Size
  <2>. QED
    BY <2>1
<1>7. IsOffsets(g, p, n)
  BY <1>0, <1>5, <1>6 DEF IsOffsets, Size
<1>. QED
  BY <1>7 DEF Offsets

-----------------------------------------------------------------------------
(* The channels of the network *)

\* A plan has finitely many places where nodes are used.
LEMMA UsesFinite ==
    ASSUME NEW p \in Plans, NEW n
    PROVE  IsFiniteSet(Uses(p, n))
<1>1. PICK N : N = Len(p.kind)
  OBVIOUS
<1>2. N \in Nat \ {0}
  BY <1>1, PlanFacts
<1>3. PICK f : f = [m \in 1..N |-> Len(p.args[m])]
  OBVIOUS
<1>4. f \in [1..N -> Nat]
  BY <1>1, <1>3, PlanFacts
<1>5. PICK j \in 1..N : \A i \in 1..N : f[i] <= f[j]
  BY <1>2, <1>4, Greatest
<1>6. IsFiniteSet((1..N) \X (1..f[j]))
  <2>1. IsFiniteSet(1..N) /\ IsFiniteSet(1..f[j])
    BY <1>2, <1>4, FS_Interval
  <2>. QED
    BY <2>1, FS_Product
<1>7. Uses(p, n) \subseteq (1..N) \X (1..f[j])
  <2>1. ASSUME NEW u \in Uses(p, n) PROVE u \in (1..N) \X (1..f[j])
    <3>0. PICK m \in 1..N : \E x \in DOMAIN p.args[m] : u = <<m, x>>
      BY <1>1 DEF Uses
    <3>1. PICK i \in DOMAIN p.args[m] : u = <<m, i>>
      BY <3>0
    <3>2. i \in 1..Len(p.args[m]) /\ Len(p.args[m]) \in Nat
      BY <1>1, PlanFacts
    <3>3. f[m] = Len(p.args[m]) /\ f[m] <= f[j] /\ f[j] \in Nat
      BY <1>3, <1>4, <1>5
    <3>4. i \in 1..f[j]
      BY <3>2, <3>3
    <3>. QED
      BY <3>1, <3>4
  <2>. QED
    BY <2>1
<1>. QED
  BY <1>6, <1>7, FS_Subset

\* Nodes and the places of their children are numbers.
LEMMA PlaceNumbers ==
    ASSUME NEW p \in Plans, NEW m \in 1..Len(p.kind), NEW i \in DOMAIN p.args[m]
    PROVE  /\ m \in Nat /\ i \in Nat /\ p.args[m][i] \in 1..Len(p.kind)
           /\ p.args[m][i] < m
<1>1. Len(p.kind) \in Nat
  BY PlanFacts
<1>2. DOMAIN p.args[m] = 1..Len(p.args[m]) /\ Len(p.args[m]) \in Nat
  BY PlanFacts
<1>3. p.args[m][i] \in 1..(m - 1)
  BY PlanFacts
<1>. QED
  BY <1>1, <1>2, <1>3

\* The uses of a node.
LEMMA UsesFacts ==
    ASSUME NEW p \in Plans, NEW n
    PROVE  \A u : u \in Uses(p, n) <=>
                    \E m \in 1..Len(p.kind) : \E j \in DOMAIN p.args[m] :
                        u = <<m, j>> /\ p.args[m][j] = n
BY DEF Uses

\* The uses of a node up to one of them, in the order of the consumers.
UsesUpto(p, n, m, j) ==
    {u \in Uses(p, n) : u[1] < m \/ (u[1] = m /\ u[2] <= j)}

\* Two uses are told apart by how many there are up to them.
LEMMA UsesOrdered ==
    ASSUME NEW p \in Plans, NEW n,
           NEW m \in 1..Len(p.kind), NEW i \in DOMAIN p.args[m],
           NEW o \in 1..Len(p.kind), NEW j \in DOMAIN p.args[o],
           p.args[m][i] = n, p.args[o][j] = n,
           m < o \/ (m = o /\ i < j)
    PROVE  /\ Cardinality(UsesUpto(p, n, m, i)) \in Nat
           /\ Cardinality(UsesUpto(p, n, o, j)) \in Nat
           /\ Cardinality(UsesUpto(p, n, m, i)) < Cardinality(UsesUpto(p, n, o, j))
<1>1. PICK S : S = UsesUpto(p, n, m, i)
  OBVIOUS
<1>2. PICK T : T = UsesUpto(p, n, o, j)
  OBVIOUS
<1>3. m \in Nat /\ o \in Nat /\ i \in Nat /\ j \in Nat
  BY PlaceNumbers
<1>4. \A u \in Uses(p, n) : u[1] \in Nat /\ u[2] \in Nat
  <2>1. ASSUME NEW u \in Uses(p, n) PROVE u[1] \in Nat /\ u[2] \in Nat
    <3>1. PICK x \in 1..Len(p.kind) : \E y \in DOMAIN p.args[x] : u = <<x, y>>
      BY UsesFacts
    <3>2. PICK y \in DOMAIN p.args[x] : u = <<x, y>>
      BY <3>1
    <3>3. x \in Nat /\ y \in Nat
      BY PlaceNumbers
    <3>. QED
      BY <3>2, <3>3
  <2>. QED
    BY <2>1
<1>5. S \subseteq T
  BY <1>1, <1>2, <1>3, <1>4 DEF UsesUpto
<1>6. <<o, j>> \in T /\ <<o, j>> \notin S
  <2>1. <<o, j>> \in Uses(p, n)
    BY UsesFacts
  <2>. QED
    BY <1>1, <1>2, <1>3, <2>1 DEF UsesUpto
<1>7. IsFiniteSet(T)
  <2>1. T \subseteq Uses(p, n)
    BY <1>2 DEF UsesUpto
  <2>. QED
    BY <2>1, UsesFinite, FS_Subset
<1>8. /\ IsFiniteSet(S) /\ Cardinality(S) <= Cardinality(T)
      /\ Cardinality(T) # Cardinality(S)
  BY <1>5, <1>6, <1>7, FS_Subset
<1>9. Cardinality(S) \in Nat /\ Cardinality(T) \in Nat
  BY <1>7, <1>8, FS_CardinalityType
<1>. QED
  BY <1>1, <1>2, <1>8, <1>9

\* A use is counted among the uses of its node.
LEMMA UseCounted ==
    ASSUME NEW p \in Plans, NEW m \in 1..Len(p.kind), NEW i \in DOMAIN p.args[m],
           NEW n, n = p.args[m][i]
    PROVE  /\ Cardinality(UsesUpto(p, n, m, i)) \in 1..DepCount(p, n)
           /\ DepCount(p, n) \in Nat
<1>1. PICK S : S = UsesUpto(p, n, m, i)
  OBVIOUS
<1>2. S \subseteq Uses(p, n)
  BY <1>1 DEF UsesUpto
<1>3. <<m, i>> \in S
  <2>1. m \in Nat /\ i \in Nat
    BY PlaceNumbers
  <2>2. <<m, i>> \in Uses(p, n)
    BY UsesFacts
  <2>. QED
    BY <1>1, <2>1, <2>2 DEF UsesUpto
<1>4. IsFiniteSet(Uses(p, n))
  BY UsesFinite
<1>5. IsFiniteSet(S) /\ Cardinality(S) <= Cardinality(Uses(p, n))
  BY <1>2, <1>4, FS_Subset
<1>6. Cardinality(S) \in Nat /\ Cardinality(Uses(p, n)) \in Nat
  BY <1>4, <1>5, FS_CardinalityType
<1>7. Cardinality(S) # 0
  BY <1>3, <1>5, FS_EmptySet
<1>. QED
  BY <1>1, <1>5, <1>6, <1>7 DEF DepCount

\* A node that is used once has one use.
LEMMA UsedOnce ==
    ASSUME NEW p \in Plans, NEW n, DepCount(p, n) <= 1,
           NEW u \in Uses(p, n), NEW v \in Uses(p, n)
    PROVE  u = v
<1>1. IsFiniteSet(Uses(p, n))
  BY UsesFinite
<1>2. DepCount(p, n) \in Nat
  BY <1>1, FS_CardinalityType DEF DepCount
<1>3. DepCount(p, n) # 0
  BY <1>1, FS_EmptySet DEF DepCount
<1>4. \E x : Uses(p, n) = {x}
  BY <1>1, <1>2, <1>3, FS_Singleton DEF DepCount
<1>. QED
  BY <1>4

\* The root is not used.
LEMMA RootUnused ==
    ASSUME NEW p \in Plans
    PROVE  DepCount(p, Len(p.kind)) = 0
<1>1. PICK n : n = Len(p.kind)
  OBVIOUS
<1>2. Uses(p, n) = {}
  <2>1. ASSUME NEW u \in Uses(p, n) PROVE FALSE
    <3>1. PICK m \in 1..n : \E j \in DOMAIN p.args[m] : p.args[m][j] = n
      BY <1>1, UsesFacts
    <3>2. PICK j \in DOMAIN p.args[m] : p.args[m][j] = n
      BY <3>1
    <3>3. p.args[m][j] \in 1..(m - 1)
      BY <1>1, PlanFacts
    <3>4. n \in Nat
      BY <1>1, PlanFacts
    <3>. QED
      BY <3>2, <3>3, <3>4
  <2>. QED
    BY <2>1
<1>. QED
  BY <1>1, <1>2, FS_EmptySet DEF DepCount

\* The network is the one that was generated from the plan.
Generated == plan \in Plans /\ fanout = FanoutNodes(plan)

\* The nodes of a plan that may be read by several consumers.
LEMMA FanoutFacts ==
    ASSUME Generated, NEW n \in Nodes
    PROVE  /\ fanout[n] \in {"none", "bounded", "unbounded"}
           /\ fanout[n] = "none" <=> DepCount(plan, n) <= 1
  BY DEF Generated, FanoutNodes, Nodes

\* The channel on which a consumer reads a child.
LEMMA SlotFacts ==
    ASSUME NEW m, NEW i, NEW n, n = plan.args[m][i]
    PROVE  /\ fanout[n] = "none" => Slot(m, i) = <<n, 0>>
           /\ fanout[n] # "none" =>
                Slot(m, i) = <<n, Cardinality(UsesUpto(plan, n, m, i))>>
           /\ Slot(m, i)[1] = n
BY DEF Slot, UsesUpto

\* Different places read different channels.
LEMMA SlotsDiffer ==
    ASSUME Generated,
           NEW m \in Nodes, NEW i \in DOMAIN plan.args[m],
           NEW o \in Nodes, NEW j \in DOMAIN plan.args[o],
           Slot(m, i) = Slot(o, j)
    PROVE  m = o /\ i = j
<1>0. plan \in Plans /\ m \in 1..Len(plan.kind) /\ o \in 1..Len(plan.kind)
  BY DEF Generated, Nodes
<1>1. PICK n : n = plan.args[m][i]
  OBVIOUS
<1>2. n = plan.args[o][j] /\ n \in Nodes
  <2>1. plan.args[o][j] = plan.args[m][i]
    BY SlotFacts
  <2>2. plan.args[m][i] \in 1..Len(plan.kind)
    BY <1>0, PlaceNumbers
  <2>. QED
    BY <1>1, <2>1, <2>2 DEF Nodes
<1>3. CASE fanout[n] = "none"
  <2>1. DepCount(plan, n) <= 1
    BY <1>2, <1>3, FanoutFacts
  <2>2. <<m, i>> \in Uses(plan, n) /\ <<o, j>> \in Uses(plan, n)
    BY <1>0, <1>1, <1>2, UsesFacts
  <2>3. <<m, i>> = <<o, j>>
    BY <1>0, <2>1, <2>2, UsedOnce
  <2>. QED
    BY <2>3
<1>4. CASE fanout[n] # "none"
  <2>1. Cardinality(UsesUpto(plan, n, m, i)) = Cardinality(UsesUpto(plan, n, o, j))
    BY <1>1, <1>2, <1>4, SlotFacts
  <2>2. m \in Nat /\ o \in Nat /\ i \in Nat /\ j \in Nat
    BY <1>0, PlaceNumbers
  <2>3. ~(m < o \/ (m = o /\ i < j))
    <3>1. SUFFICES ASSUME m < o \/ (m = o /\ i < j) PROVE FALSE
      OBVIOUS
    <3>2. /\ Cardinality(UsesUpto(plan, n, m, i)) \in Nat
          /\ Cardinality(UsesUpto(plan, n, m, i))
                < Cardinality(UsesUpto(plan, n, o, j))
      BY <1>0, <1>1, <1>2, <3>1, UsesOrdered
    <3>. QED
      BY <2>1, <3>2
  <2>4. ~(o < m \/ (o = m /\ j < i))
    <3>1. SUFFICES ASSUME o < m \/ (o = m /\ j < i) PROVE FALSE
      OBVIOUS
    <3>2. /\ Cardinality(UsesUpto(plan, n, o, j)) \in Nat
          /\ Cardinality(UsesUpto(plan, n, o, j))
                < Cardinality(UsesUpto(plan, n, m, i))
      BY <1>0, <1>1, <1>2, <3>1, UsesOrdered
    <3>. QED
      BY <2>1, <3>2
  <2>. QED
    BY <2>2, <2>3, <2>4
<1>. QED
  BY <1>3, <1>4

\* The kinds of the actors that evaluate nodes.
NodeKinds == {"source", "scan", "map", "reduce", "zip", "union"}

\* The three sorts of actors and their channels.
LEMMA Sorts ==
    ASSUME Generated, NEW a \in Actors
    PROVE  /\ a[2] \in Nodes
           /\ \/ /\ a = <<"node", a[2]>> /\ Kind(a) = plan.kind[a[2]]
                 /\ Kind(a) \in NodeKinds
                 /\ In(a) = [j \in DOMAIN plan.args[a[2]] |-> Slot(a[2], j)]
                 /\ Out(a) = <<<<a[2], 0>>>>
              \/ /\ a = <<"sink", Root>> /\ Kind(a) = "sink"
                 /\ In(a) = <<<<a[2], 0>>>> /\ Out(a) = <<>>
              \/ /\ a = <<"fanout", a[2]>> /\ fanout[a[2]] # "none"
                 /\ Kind(a) = fanout[a[2]]
                 /\ In(a) = <<<<a[2], 0>>>>
                 /\ Out(a) = [k \in 1..DepCount(plan, a[2]) |-> <<a[2], k>>]
<1>1. \A n \in Nodes : plan.kind[n] \in NodeKinds
  BY PlanFacts DEF Generated, Nodes, NodeKinds
<1>2. Root \in Nodes
  BY PlanFacts DEF Generated, Nodes, Root
<1>3. CASE \E n \in Nodes : a = <<"node", n>>
  BY <1>1, <1>3 DEF Kind, In, Out
<1>4. CASE a = <<"sink", Root>>
  BY <1>2, <1>4 DEF Kind, In, Out
<1>5. CASE \E n \in {m \in Nodes : fanout[m] # "none"} : a = <<"fanout", n>>
  BY <1>5 DEF Kind, In, Out
<1>. QED
  BY <1>3, <1>4, <1>5 DEF Actors

\* The channels of one actor.
LEMMA Ends ==
    ASSUME Generated, NEW a \in Actors
    PROVE  /\ Len(In(a)) \in Nat /\ DOMAIN In(a) = 1..Len(In(a))
           /\ Len(Out(a)) \in Nat /\ DOMAIN Out(a) = 1..Len(Out(a))
           /\ \A j \in DOMAIN In(a) : In(a)[j] \in Channels
           /\ \A k \in DOMAIN Out(a) : /\ Out(a)[k] \in Channels
                                       /\ Out(a)[k][1] = a[2]
           /\ Kind(a) \in NodeKinds =>
                /\ Kind(a) = plan.kind[a[2]]
                /\ Len(In(a)) = Len(plan.args[a[2]])
                /\ \A j \in DOMAIN In(a) : In(a)[j][1] = plan.args[a[2]][j]
                /\ Len(Out(a)) = 1 /\ Out(a)[1] = <<a[2], 0>>
           /\ Kind(a) \notin NodeKinds =>
                Len(In(a)) = 1 /\ In(a)[1] = <<a[2], 0>>
           /\ Kind(a) = "sink" => a[2] = Root /\ a = <<"sink", Root>>
<1>1. /\ \A j \in DOMAIN In(a) : In(a)[j] \in Channels
      /\ \A k \in DOMAIN Out(a) : Out(a)[k] \in Channels
  BY DEF Channels, Chans, Range
<1>2. CASE /\ a = <<"node", a[2]>> /\ Kind(a) = plan.kind[a[2]]
           /\ Kind(a) \in NodeKinds
           /\ In(a) = [j \in DOMAIN plan.args[a[2]] |-> Slot(a[2], j)]
           /\ Out(a) = <<<<a[2], 0>>>>
  <2>1. /\ Len(plan.args[a[2]]) \in Nat
        /\ DOMAIN plan.args[a[2]] = 1..Len(plan.args[a[2]])
    BY Sorts, PlanFacts DEF Generated, Nodes
  <2>2. In(a) = [j \in 1..Len(plan.args[a[2]]) |-> In(a)[j]]
    BY <1>2, <2>1
  <2>3. Len(In(a)) = Len(plan.args[a[2]]) /\ DOMAIN In(a) = 1..Len(plan.args[a[2]])
    BY <2>1, <2>2, ListIsSequence
  <2>4. \A j \in DOMAIN In(a) : In(a)[j][1] = plan.args[a[2]][j]
    BY <1>2, SlotFacts
  <2>5. /\ Len(Out(a)) = 1 /\ DOMAIN Out(a) = 1..1 /\ Out(a)[1] = <<a[2], 0>>
        /\ \A k \in DOMAIN Out(a) : Out(a)[k][1] = a[2]
    BY <1>2
  <2>6. Kind(a) # "sink"
    BY <1>2 DEF NodeKinds
  <2>. QED
    BY <1>1, <1>2, <2>1, <2>3, <2>4, <2>5, <2>6
<1>3. CASE /\ a = <<"sink", Root>> /\ Kind(a) = "sink"
           /\ In(a) = <<<<a[2], 0>>>> /\ Out(a) = <<>>
  <2>1. Kind(a) \notin NodeKinds /\ a[2] = Root
    BY <1>3 DEF NodeKinds
  <2>. QED
    BY <1>1, <1>3, <2>1
<1>4. CASE /\ a = <<"fanout", a[2]>> /\ fanout[a[2]] # "none"
           /\ Kind(a) = fanout[a[2]]
           /\ In(a) = <<<<a[2], 0>>>>
           /\ Out(a) = [k \in 1..DepCount(plan, a[2]) |-> <<a[2], k>>]
  <2>1. Kind(a) \notin NodeKinds /\ Kind(a) # "sink"
    BY <1>4, Sorts, FanoutFacts DEF NodeKinds
  <2>2. DepCount(plan, a[2]) \in Nat
    BY UsesFinite, FS_CardinalityType DEF Generated, DepCount
  <2>3. Out(a) = [k \in 1..DepCount(plan, a[2]) |-> Out(a)[k]]
    BY <1>4
  <2>4. /\ Len(Out(a)) = DepCount(plan, a[2])
        /\ DOMAIN Out(a) = 1..DepCount(plan, a[2])
    BY <2>2, <2>3, ListIsSequence
  <2>5. \A k \in DOMAIN Out(a) : Out(a)[k][1] = a[2]
    BY <1>4
  <2>. QED
    BY <1>1, <1>4, <2>1, <2>2, <2>4, <2>5
<1>. QED
  BY <1>2, <1>3, <1>4, Sorts

\* The channel of a node is read by its only consumer, its fanout or the sink.
LEMMA PlainChannel ==
    ASSUME Generated, NEW m \in Nodes, NEW j \in DOMAIN plan.args[m], NEW n,
           Slot(m, j) = <<n, 0>>
    PROVE  n \in Nodes /\ n # Root /\ fanout[n] = "none"
<1>1. plan \in Plans /\ m \in 1..Len(plan.kind)
  BY DEF Generated, Nodes
<1>2. n = plan.args[m][j]
  BY SlotFacts
<1>3. n \in Nodes /\ n # Root
  <2>1. /\ plan.args[m][j] \in 1..Len(plan.kind) /\ plan.args[m][j] < m
        /\ m \in Nat
    BY <1>1, PlaceNumbers
  <2>2. Len(plan.kind) \in Nat
    BY <1>1, PlanFacts
  <2>. QED
    BY <1>1, <1>2, <2>1, <2>2 DEF Nodes, Root
<1>4. Cardinality(UsesUpto(plan, n, m, j)) # 0
  BY <1>1, <1>2, UseCounted
<1>. QED
  BY <1>2, <1>3, <1>4, SlotFacts

\* A channel has one reader.
LEMMA InsDiffer ==
    ASSUME Generated, NEW a \in Actors, NEW b \in Actors,
           NEW i \in DOMAIN In(a), NEW j \in DOMAIN In(b), In(a)[i] = In(b)[j]
    PROVE  a = b /\ i = j
<1>1. \A e \in Actors : Kind(e) \notin NodeKinds =>
        /\ DOMAIN In(e) = 1..1 /\ In(e)[1] = <<e[2], 0>>
  BY Ends
<1>2. \A e \in Actors : Kind(e) \in NodeKinds =>
        /\ e = <<"node", e[2]>> /\ e[2] \in Nodes
        /\ DOMAIN In(e) = DOMAIN plan.args[e[2]]
        /\ \A k \in DOMAIN In(e) : In(e)[k] = Slot(e[2], k)
  <2>1. ASSUME NEW e \in Actors, Kind(e) \in NodeKinds
        PROVE  /\ e = <<"node", e[2]>> /\ e[2] \in Nodes
               /\ In(e) = [k \in DOMAIN plan.args[e[2]] |-> Slot(e[2], k)]
    <3>1. e[2] \in Nodes => fanout[e[2]] \notin NodeKinds
      BY FanoutFacts DEF NodeKinds
    <3>. QED
      BY <2>1, <3>1, Sorts DEF NodeKinds
  <2>. QED
    BY <2>1
<1>3. \A e \in Actors : Kind(e) \notin NodeKinds =>
        e[2] = Root \/ fanout[e[2]] # "none"
  BY Sorts
<1>4. CASE Kind(a) \in NodeKinds /\ Kind(b) \in NodeKinds
  <2>1. a[2] = b[2] /\ i = j
    BY <1>2, <1>4, SlotsDiffer
  <2>. QED
    BY <1>2, <1>4, <2>1
<1>5. CASE Kind(a) \in NodeKinds /\ Kind(b) \notin NodeKinds
  <2>1. Slot(a[2], i) = <<b[2], 0>>
    BY <1>1, <1>2, <1>5
  <2>. QED
    BY <1>2, <1>3, <1>5, <2>1, PlainChannel
<1>6. CASE Kind(a) \notin NodeKinds /\ Kind(b) \in NodeKinds
  <2>1. Slot(b[2], j) = <<a[2], 0>>
    BY <1>1, <1>2, <1>6
  <2>. QED
    BY <1>2, <1>3, <1>6, <2>1, PlainChannel
<1>7. CASE Kind(a) \notin NodeKinds /\ Kind(b) \notin NodeKinds
  <2>1. i = 1 /\ j = 1 /\ a[2] = b[2]
    BY <1>1, <1>7
  <2>2. fanout[Root] = "none"
    BY FanoutFacts, RootUnused, PlanFacts DEF Generated, Nodes, Root
  <2>3. \A e \in Actors : Kind(e) \notin NodeKinds =>
            \/ e = <<"sink", Root>>
            \/ e = <<"fanout", e[2]>> /\ fanout[e[2]] # "none"
    BY Sorts
  <2>. QED
    BY <1>7, <2>1, <2>2, <2>3
<1>. QED
  BY <1>4, <1>5, <1>6, <1>7

\* A channel has one writer.
LEMMA OutsDiffer ==
    ASSUME Generated, NEW a \in Actors, NEW b \in Actors,
           NEW i \in DOMAIN Out(a), NEW j \in DOMAIN Out(b), Out(a)[i] = Out(b)[j]
    PROVE  a = b /\ i = j
<1>1. \A e \in Actors :
        \/ e = <<"node", e[2]>> /\ Out(e) = <<<<e[2], 0>>>>
        \/ Out(e) = <<>>
        \/ /\ e = <<"fanout", e[2]>>
           /\ Out(e) = [k \in 1..DepCount(plan, e[2]) |-> <<e[2], k>>]
  BY Sorts
<1>2. \A e \in Actors : \A k \in DOMAIN Out(e) :
        \/ e = <<"node", e[2]>> /\ Out(e)[k] = <<e[2], 0>> /\ k = 1
        \/ e = <<"fanout", e[2]>> /\ Out(e)[k] = <<e[2], k>> /\ k # 0
  <2>1. ASSUME NEW e \in Actors, NEW k \in DOMAIN Out(e)
        PROVE  \/ e = <<"node", e[2]>> /\ Out(e)[k] = <<e[2], 0>> /\ k = 1
               \/ e = <<"fanout", e[2]>> /\ Out(e)[k] = <<e[2], k>> /\ k # 0
    <3>1. CASE e = <<"node", e[2]>> /\ Out(e) = <<<<e[2], 0>>>>
      BY <2>1, <3>1
    <3>2. CASE Out(e) = <<>>
      BY <2>1, <3>2
    <3>3. CASE /\ e = <<"fanout", e[2]>>
               /\ Out(e) = [o \in 1..DepCount(plan, e[2]) |-> <<e[2], o>>]
      BY <2>1, <3>3
    <3>. QED
      BY <1>1, <3>1, <3>2, <3>3
  <2>. QED
    BY <2>1
<1>. QED
  BY <1>2

\* No actor reads what it writes.
LEMMA InOutDiffer ==
    ASSUME Generated, NEW a \in Actors,
           NEW j \in DOMAIN In(a), NEW k \in DOMAIN Out(a)
    PROVE  In(a)[j] # Out(a)[k]
<1>1. CASE Kind(a) \in NodeKinds
  <2>1. In(a)[j][1] = plan.args[a[2]][j] /\ j \in 1..Len(plan.args[a[2]])
    BY <1>1, Ends
  <2>2. Out(a)[k][1] = a[2] /\ a[2] \in 1..Len(plan.kind)
    BY Ends, Sorts DEF Nodes
  <2>3. plan.args[a[2]][j] < a[2]
    <3>1. j \in DOMAIN plan.args[a[2]]
      BY <2>1, <2>2, PlanFacts DEF Generated
    <3>. QED
      BY <2>2, <3>1, PlaceNumbers DEF Generated
  <2>4. a[2] \in Nat
    BY <2>2, PlanFacts DEF Generated
  <2>. QED
    BY <2>1, <2>2, <2>3, <2>4
<1>2. CASE Kind(a) \notin NodeKinds
  <2>0. Len(In(a)) = 1 /\ In(a)[1] = <<a[2], 0>> /\ DOMAIN In(a) = 1..Len(In(a))
    BY <1>2, Ends
  <2>1. In(a)[j] = <<a[2], 0>>
    BY <2>0
  <2>2. Out(a) = <<>> \/ Out(a) = [o \in 1..DepCount(plan, a[2]) |-> <<a[2], o>>]
    BY <1>2, Sorts
  <2>3. CASE Out(a) = <<>>
    BY <2>3
  <2>4. CASE Out(a) = [o \in 1..DepCount(plan, a[2]) |-> <<a[2], o>>]
    BY <2>1, <2>4
  <2>. QED
    BY <2>2, <2>3, <2>4
<1>. QED
  BY <1>1, <1>2

-----------------------------------------------------------------------------
(* What a step of an actor does to the history of the channels *)

\* A step changes nothing of what another actor is about.
OwnStep(a) ==
    /\ UNCHANGED netVars
    /\ \A b \in Actors \ {a} :
        /\ pc'[b] = pc[b] /\ loc'[b] = loc[b]
        /\ Kind(b) = "unbounded" => fan'[b[2]] = fan[b[2]]
        /\ Kind(b) = "scan" => lin'[b[2]] = lin[b[2]]
        /\ Kind(b) = "sink" => result' = result

\* The channels of an actor stay its channels.
LEMMA EndsStay ==
    ASSUME UNCHANGED netVars
    PROVE  \A a : /\ In(a)' = In(a) /\ Out(a)' = Out(a) /\ From(a)' = From(a)
                  /\ Kind(a)' = Kind(a)
<1>1. \A a : In(a)' = In(a) /\ Out(a)' = Out(a)
  BY DEF netVars, In, Out, Slot
<1>2. \A a : Kind(a)' = Kind(a)
  BY DEF netVars, Kind
<1>. QED
  BY <1>1, <1>2 DEF From

\* More outputs may be shut at any time.
LEMMA ClosedGrows ==
    ASSUME NEW p, NEW n, NEW x, NEW f, NEW r, NEW t, NEW y, NEW z,
           UnboundedMakes(p, n, x, f, r, t, y), y \subseteq z
    PROVE  UnboundedMakes(p, n, x, f, r, t, z)
<1>1. ASSUME InStep(p, n, f, r, t, y) PROVE InStep(p, n, f, r, t, z)
  BY <1>1, Zenon DEF InStep, FanoutOutput
<1>. QED
  BY <1>1 DEF UnboundedMakes

\* Actors that take no part have made what they had to make.
LEMMA OthersStay ==
    ASSUME UNCHANGED netVars, NEW b, shut \subseteq shut',
           pc'[b] = pc[b], loc'[b] = loc[b],
           Kind(b) = "unbounded" => fan'[b[2]] = fan[b[2]],
           Kind(b) = "scan" => lin'[b[2]] = lin[b[2]],
           Kind(b) = "sink" => result' = result,
           NEW r, NEW t, Makes(b, r, t)
    PROVE  Makes(b, r, t)'
<1>1. Kind(b)' = Kind(b) /\ From(b)' = From(b) /\ Out(b)' = Out(b)
  BY EndsStay
<1>2. plan' = plan
  BY DEF netVars
<1>3. Closed(b) \subseteq Closed(b)'
  BY <1>1 DEF Closed
<1>4. Kind(b) = "unbounded" =>
        UnboundedMakes(plan, b[2], pc[b], fan[b[2]], r, t, Closed(b)')
  BY <1>3, ClosedGrows DEF Makes
<1>. QED
  BY <1>1, <1>2, <1>4 DEF Makes

\* Messages received and sent are counted, and there are enough chunks.
LEMMA Counts ==
    ASSUME Generated, ChannelState, NEW a \in Actors, NEW h, ChannelsCarry(h)
    PROVE  /\ Taken(a, h) \in [DOMAIN In(a) -> Nat]
           /\ Sent(a, h) \in [DOMAIN Out(a) -> Nat]
           /\ \A j \in DOMAIN In(a) : /\ Taken(a, h)[j] <= Size(plan, From(a)[j])
                                      /\ Size(plan, From(a)[j]) \in Nat
           /\ \A k \in DOMAIN Out(a) : Sent(a, h)[k] <= Size(plan, a[2])
           /\ Size(plan, a[2]) \in Nat
<1>1. \A c \in Channels : /\ h[c] \in Nat /\ Len(queue[c]) \in Nat
                          /\ h[c] + Len(queue[c]) <= Size(plan, c[1])
  <2>1. \A c \in Channels : Len(queue[c]) \in Nat
    BY ShortSequences DEF ChannelState
  <2>. QED
    BY <2>1 DEF ChannelsCarry
<1>2. Taken(a, h) \in [DOMAIN In(a) -> Nat]
  BY <1>1, Ends DEF Taken
<1>3. Sent(a, h) \in [DOMAIN Out(a) -> Nat]
  <2>1. \A k \in DOMAIN Out(a) : h[Out(a)[k]] + Len(queue[Out(a)[k]]) \in Nat
    BY <1>1, Ends
  <2>. QED
    BY <2>1 DEF Sent
<1>4. \A j \in DOMAIN In(a) : /\ Taken(a, h)[j] <= Size(plan, From(a)[j])
                              /\ Size(plan, From(a)[j]) \in Nat
  <2>1. ASSUME NEW j \in DOMAIN In(a)
        PROVE  /\ Taken(a, h)[j] <= Size(plan, From(a)[j])
               /\ Size(plan, From(a)[j]) \in Nat
    <3>1. In(a)[j] \in Channels /\ From(a)[j] = In(a)[j][1]
      BY Ends DEF From
    <3>2. Taken(a, h)[j] = h[In(a)[j]]
      BY DEF Taken
    <3>3. From(a)[j] \in 1..Len(plan.kind)
      <4>0. a[2] \in 1..Len(plan.kind)
        BY Sorts DEF Nodes
      <4>1. CASE Kind(a) \in NodeKinds
        <5>1. /\ From(a)[j] = plan.args[a[2]][j]
              /\ j \in 1..Len(plan.args[a[2]])
          BY <3>1, <4>1, Ends
        <5>2. j \in DOMAIN plan.args[a[2]]
          BY <4>0, <5>1, PlanFacts DEF Generated
        <5>. QED
          BY <4>0, <5>1, <5>2, PlaceNumbers DEF Generated
      <4>2. CASE Kind(a) \notin NodeKinds
        <5>1. Len(In(a)) = 1 /\ In(a)[1] = <<a[2], 0>> /\ j \in 1..Len(In(a))
          BY <4>2, Ends
        <5>2. In(a)[j] = <<a[2], 0>>
          BY <5>1
        <5>. QED
          BY <3>1, <4>0, <5>2
      <4>. QED
        BY <4>1, <4>2
    <3>4. Size(plan, From(a)[j]) \in Nat
      BY <3>3, SizeFacts DEF Generated
    <3>. QED
      BY <1>1, <3>1, <3>2, <3>4
  <2>. QED
    BY <2>1
<1>5. \A k \in DOMAIN Out(a) : Sent(a, h)[k] <= Size(plan, a[2])
  BY <1>1, Ends DEF Sent
<1>6. Size(plan, a[2]) \in Nat
  BY Sorts, SizeFacts DEF Generated, Nodes
<1>. QED
  BY <1>2, <1>3, <1>4, <1>5, <1>6

\* The next message of an input is the next chunk of the node it comes from.
LEMMA HeadMessage ==
    ASSUME Generated, ChannelState, NEW a \in Actors, NEW h, ChannelsCarry(h),
           NEW j \in DOMAIN In(a), queue[In(a)[j]] # <<>>
    PROVE  /\ Head(queue[In(a)[j]]) =
                Message(plan, From(a)[j], Taken(a, h)[j] + 1)
           /\ Taken(a, h)[j] < Size(plan, From(a)[j])
<1>1. PICK c : c = In(a)[j]
  OBVIOUS
<1>2. c \in Channels /\ From(a)[j] = c[1] /\ Taken(a, h)[j] = h[c]
  BY <1>1, Ends DEF From, Taken
<1>3. IsSequence(queue[c]) /\ Len(queue[c]) \in Nat \ {0}
  BY <1>1, <1>2, ShortSequences DEF ChannelState
<1>4. Head(queue[c]) = queue[c][1] /\ 1 \in DOMAIN queue[c]
  BY <1>3, ShortSequences
<1>5. queue[c][1] = Message(plan, c[1], h[c] + 1)
  BY <1>2, <1>4 DEF ChannelsCarry
<1>6. h[c] + Len(queue[c]) <= Size(plan, c[1]) /\ h[c] \in Nat
  BY <1>2 DEF ChannelsCarry
<1>7. Size(plan, c[1]) \in Nat
  BY <1>2, Counts
<1>. QED
  BY <1>1, <1>2, <1>3, <1>4, <1>5, <1>6, <1>7

\* From a channel that has ended everything has been taken.
LEMMA EndedInput ==
    ASSUME Generated, ChannelState, NEW a \in Actors, NEW h, ChannelsCarry(h),
           NEW j \in DOMAIN In(a), Ended(In(a)[j])
    PROVE  Taken(a, h)[j] = Size(plan, From(a)[j])
<1>1. PICK c : c = In(a)[j]
  OBVIOUS
<1>2. c \in Channels /\ From(a)[j] = c[1] /\ Taken(a, h)[j] = h[c]
  BY <1>1, Ends DEF From, Taken
<1>3. c \in shut /\ queue[c] = <<>> /\ Len(queue[c]) = 0
  BY <1>1, ShortSequences DEF Ended
<1>4. h[c] + Len(queue[c]) = Size(plan, c[1]) /\ h[c] \in Nat
  BY <1>2, <1>3 DEF ChannelsCarry
<1>. QED
  BY <1>2, <1>3, <1>4

\* What the other actors have taken and sent is the same after a step that
\* takes from inputs of a and puts on outputs of a.
LEMMA OthersMake ==
    ASSUME Generated, ChannelState, NEW a \in Actors, OwnStep(a),
           shut \subseteq shut', NEW h, NEW g, History(h),
           \A c \in Channels :
                (\A j \in DOMAIN In(a) : c # In(a)[j]) => g[c] = h[c],
           \A c \in Channels :
                (\A k \in DOMAIN Out(a) : c # Out(a)[k]) =>
                    g[c] + Len(queue'[c]) = h[c] + Len(queue[c]),
           NEW b \in Actors, b # a
    PROVE  Makes(b, Taken(b, g), Sent(b, g))'
<1>1. In(b)' = In(b) /\ Out(b)' = Out(b)
  BY EndsStay DEF OwnStep
<1>2. \A j \in DOMAIN In(b) : g[In(b)[j]] = h[In(b)[j]]
  <2>1. ASSUME NEW j \in DOMAIN In(b) PROVE g[In(b)[j]] = h[In(b)[j]]
    <3>1. In(b)[j] \in Channels
      BY Ends
    <3>2. \A i \in DOMAIN In(a) : In(b)[j] # In(a)[i]
      BY InsDiffer
    <3>. QED
      BY <3>1, <3>2
  <2>. QED
    BY <2>1
<1>3. \A k \in DOMAIN Out(b) : g[Out(b)[k]] + Len(queue'[Out(b)[k]]) =
                                h[Out(b)[k]] + Len(queue[Out(b)[k]])
  <2>1. ASSUME NEW k \in DOMAIN Out(b)
        PROVE  g[Out(b)[k]] + Len(queue'[Out(b)[k]]) =
                    h[Out(b)[k]] + Len(queue[Out(b)[k]])
    <3>1. Out(b)[k] \in Channels
      BY Ends
    <3>2. \A i \in DOMAIN Out(a) : Out(b)[k] # Out(a)[i]
      BY OutsDiffer
    <3>. QED
      BY <3>1, <3>2
  <2>. QED
    BY <2>1
<1>4. Taken(b, g)' = Taken(b, h) /\ Sent(b, g)' = Sent(b, h)
  BY <1>1, <1>2, <1>3 DEF Taken, Sent
<1>5. Makes(b, Taken(b, h), Sent(b, h))
  BY DEF History
<1>6. PICK r : r = Taken(b, h)
  OBVIOUS
<1>7. PICK t : t = Sent(b, h)
  OBVIOUS
<1>8. Makes(b, r, t)'
  <2>1. Makes(b, r, t)
    BY <1>5, <1>6, <1>7
  <2>. QED
    BY <2>1, OthersStay DEF OwnStep
<1>9. Taken(b, g)' = r /\ Sent(b, g)' = t
  BY <1>4, <1>6, <1>7
<1>. QED
  BY <1>8, <1>9

\* A step that moves no message, and shuts only channels that have carried all
\* their messages.
LEMMA MoveQuiet ==
    ASSUME Generated, ChannelState, NEW a \in Actors, OwnStep(a),
           NEW h, History(h), NEW r, NEW t, r = Taken(a, h), t = Sent(a, h),
           queue' = queue, shut \subseteq shut',
           \A c \in Channels : c \in shut' =>
                c \in shut \/ h[c] + Len(queue[c]) = Size(plan, c[1]),
           Makes(a, r, t)'
    PROVE  History(h)'
<1>1. Channels' = Channels /\ Actors' = Actors /\ plan' = plan
  BY NetworkStays DEF OwnStep, netVars
<1>2. In(a)' = In(a) /\ Out(a)' = Out(a)
  BY EndsStay DEF OwnStep
<1>3. ChannelsCarry(h)'
  BY <1>1 DEF History, ChannelsCarry
<1>4. Taken(a, h)' = r /\ Sent(a, h)' = t
  BY <1>2 DEF Taken, Sent
<1>5. Makes(a, Taken(a, h), Sent(a, h))'
  BY <1>4
<1>6. \A b \in Actors \ {a} : Makes(b, Taken(b, h), Sent(b, h))'
  BY OthersMake
<1>. QED
  BY <1>1, <1>3, <1>5, <1>6 DEF History

\* A send of the next chunk of a node.
LEMMA MoveSend ==
    ASSUME Generated, ChannelState, NEW a \in Actors, OwnStep(a),
           NEW h, History(h), NEW r, NEW t, r = Taken(a, h), t = Sent(a, h),
           NEW k \in DOMAIN Out(a), t[k] < Size(plan, a[2]),
           Send(Out(a)[k], Message(plan, a[2], t[k] + 1)), shut' = shut,
           Makes(a, r, [t EXCEPT ![k] = @ + 1])'
    PROVE  History(h)'
<1>0. PICK c : c = Out(a)[k]
  OBVIOUS
<1>1. Channels' = Channels /\ Actors' = Actors /\ plan' = plan
  BY NetworkStays DEF OwnStep, netVars
<1>2. In(a)' = In(a) /\ Out(a)' = Out(a)
  BY EndsStay DEF OwnStep
<1>3. c \in Channels /\ c[1] = a[2] /\ t[k] = h[c] + Len(queue[c])
  BY <1>0, Ends DEF Sent
<1>4. ChannelsCarry(h)
  BY DEF History
<1>5. Size(plan, a[2]) \in Nat /\ h[c] \in Nat /\ t \in [DOMAIN Out(a) -> Nat]
  BY <1>3, <1>4, Counts DEF ChannelsCarry
<1>6. c \notin shut
  BY <1>3, <1>4, <1>5 DEF ChannelsCarry
<1>7. PICK m : m = Message(plan, a[2], t[k] + 1)
  OBVIOUS
<1>8. IsSequence(queue[c]) /\ DOMAIN queue = Channels
  BY <1>3 DEF ChannelState
<1>9. /\ IsSequence(Append(queue[c], m)) /\ Len(queue[c]) \in Nat
      /\ Len(Append(queue[c], m)) = Len(queue[c]) + 1
      /\ DOMAIN Append(queue[c], m) = 1..(Len(queue[c]) + 1)
      /\ DOMAIN queue[c] = 1..Len(queue[c])
      /\ \A i \in 1..Len(queue[c]) : Append(queue[c], m)[i] = queue[c][i]
      /\ Append(queue[c], m)[Len(queue[c]) + 1] = m
  <2>1. /\ IsSequence(Append(queue[c], m)) /\ Len(queue[c]) \in Nat
        /\ Len(Append(queue[c], m)) = Len(queue[c]) + 1
    BY <1>8, AppendIsSequence
  <2>2. /\ DOMAIN Append(queue[c], m) = 1..(Len(queue[c]) + 1)
        /\ DOMAIN queue[c] = 1..Len(queue[c])
    BY <1>8, <2>1, ShortSequences
  <2>3. queue[c] \in Seq(Range(queue[c]))
    BY <1>8 DEF IsSequence
  <2>4. /\ \A i \in 1..Len(queue[c]) : Append(queue[c], m)[i] = queue[c][i]
        /\ Append(queue[c], m)[Len(queue[c]) + 1] = m
    BY <2>3
  <2>. QED
    BY <2>1, <2>2, <2>4
<1>10. /\ queue'[c] = Append(queue[c], m)
       /\ \A d \in Channels \ {c} : queue'[d] = queue[d]
  <2>1. queue' = [queue EXCEPT ![c] = Append(@, m)]
    BY <1>0, <1>6, <1>7 DEF Send
  <2>. QED
    BY <1>3, <1>8, <2>1
<1>11. ChannelsCarry(h)'
  <2>1. ASSUME NEW d \in Channels
        PROVE  /\ h[d] + Len(queue'[d]) <= Size(plan, d[1])
               /\ \A i \in DOMAIN queue'[d] :
                    queue'[d][i] = Message(plan, d[1], h[d] + i)
               /\ d \in shut => h[d] + Len(queue'[d]) = Size(plan, d[1])
    <3>1. CASE d # c
      BY <1>4, <1>10, <2>1, <3>1 DEF ChannelsCarry
    <3>2. CASE d = c
      <4>1. h[c] + Len(queue'[c]) = t[k] + 1
        BY <1>3, <1>5, <1>9, <1>10
      <4>2. ASSUME NEW i \in DOMAIN queue'[c]
            PROVE  queue'[c][i] = Message(plan, c[1], h[c] + i)
        <5>1. i \in 1..(Len(queue[c]) + 1)
          BY <1>9, <1>10
        <5>2. CASE i \in 1..Len(queue[c])
          <6>1. queue'[c][i] = queue[c][i] /\ i \in DOMAIN queue[c]
            BY <1>9, <1>10, <5>2
          <6>. QED
            BY <1>3, <1>4, <6>1 DEF ChannelsCarry
        <5>3. CASE i = Len(queue[c]) + 1
          <6>1. queue'[c][i] = m /\ h[c] + i = t[k] + 1
            BY <1>3, <1>5, <1>9, <1>10, <5>3
          <6>. QED
            BY <1>3, <1>7, <6>1
        <5>. QED
          BY <1>9, <5>1, <5>2, <5>3
      <4>3. t[k] \in Nat
        BY <1>5
      <4>. QED
        BY <1>3, <1>5, <1>6, <3>2, <4>1, <4>2, <4>3
    <3>. QED
      BY <3>1, <3>2
  <2>2. h \in [Channels -> Nat]
    BY <1>4 DEF ChannelsCarry
  <2>. QED
    BY <1>1, <2>1, <2>2 DEF ChannelsCarry
<1>12. Taken(a, h)' = r
  BY <1>2 DEF Taken
<1>13. Sent(a, h)' = [t EXCEPT ![k] = @ + 1]
  <2>1. \A i \in DOMAIN Out(a) : i # k => Out(a)[i] \in Channels \ {c}
    BY <1>0, Ends, OutsDiffer
  <2>2. \A i \in DOMAIN Out(a) : h[Out(a)[i]] + Len(queue'[Out(a)[i]]) =
            IF i = k THEN t[k] + 1 ELSE t[i]
    <3>1. ASSUME NEW i \in DOMAIN Out(a), i # k
          PROVE  h[Out(a)[i]] + Len(queue'[Out(a)[i]]) = t[i]
      BY <1>10, <2>1, <3>1 DEF Sent
    <3>2. h[Out(a)[k]] + Len(queue'[Out(a)[k]]) = t[k] + 1
      BY <1>0, <1>3, <1>5, <1>9, <1>10
    <3>. QED
      BY <3>1, <3>2
  <2>3. Sent(a, h)' = [i \in DOMAIN Out(a) |->
                            h[Out(a)[i]] + Len(queue'[Out(a)[i]])]
    BY <1>2 DEF Sent
  <2>4. DOMAIN t = DOMAIN Out(a)
    BY <1>5
  <2>. QED
    BY <2>2, <2>3, <2>4
<1>14. Makes(a, Taken(a, h), Sent(a, h))'
  BY <1>12, <1>13
<1>15. \A b \in Actors \ {a} : Makes(b, Taken(b, h), Sent(b, h))'
  <2>1. \A d \in Channels : (\A i \in DOMAIN Out(a) : d # Out(a)[i]) =>
            h[d] + Len(queue'[d]) = h[d] + Len(queue[d])
    BY <1>0, <1>10
  <2>. QED
    BY <2>1, OthersMake
<1>. QED
  BY <1>1, <1>11, <1>14, <1>15 DEF History

\* One more received and one less in the queue.
LEMMA Passed ==
    /\ \A x, i \in Nat : x + (i + 1) = (x + 1) + i
    /\ \A x, i \in Nat : (x + 1) + (i - 1) = x + i
OBVIOUS

\* A receive.
LEMMA MoveReceive ==
    ASSUME Generated, ChannelState, NEW a \in Actors, OwnStep(a),
           NEW h, History(h), NEW r, NEW t, r = Taken(a, h), t = Sent(a, h),
           NEW j \in DOMAIN In(a), queue[In(a)[j]] # <<>>,
           queue' = [queue EXCEPT ![In(a)[j]] = Tail(@)], shut' = shut,
           Makes(a, [r EXCEPT ![j] = @ + 1], t)'
    PROVE  \E g : History(g)'
<1>0. PICK c : c = In(a)[j]
  OBVIOUS
<1>1. Channels' = Channels /\ Actors' = Actors /\ plan' = plan
  BY NetworkStays DEF OwnStep, netVars
<1>2. In(a)' = In(a) /\ Out(a)' = Out(a)
  BY EndsStay DEF OwnStep
<1>3. c \in Channels /\ r[j] = h[c]
  BY <1>0, Ends DEF Taken
<1>4. ChannelsCarry(h)
  BY DEF History
<1>5. h \in [Channels -> Nat] /\ h[c] \in Nat /\ r \in [DOMAIN In(a) -> Nat]
  BY <1>3, <1>4, Counts DEF ChannelsCarry
<1>6. PICK g : g = [h EXCEPT ![c] = @ + 1]
  OBVIOUS
<1>7. /\ g \in [Channels -> Nat] /\ g[c] = h[c] + 1
      /\ \A d \in Channels \ {c} : g[d] = h[d]
  BY <1>3, <1>5, <1>6
<1>8. IsSequence(queue[c]) /\ DOMAIN queue = Channels
  BY <1>3 DEF ChannelState
<1>9. /\ Len(queue[c]) \in Nat /\ Len(Tail(queue[c])) = Len(queue[c]) - 1
      /\ DOMAIN queue[c] = 1..Len(queue[c])
      /\ \A i \in DOMAIN Tail(queue[c]) : /\ i \in Nat /\ i + 1 \in DOMAIN queue[c]
                                          /\ Tail(queue[c])[i] = queue[c][i + 1]
  <2>1. queue[c] \in Seq(Range(queue[c])) /\ queue[c] # <<>>
    BY <1>0, <1>8 DEF IsSequence
  <2>2. PICK S : S = Range(queue[c])
    OBVIOUS
  <2>3. queue[c] \in Seq(S)
    BY <2>1, <2>2
  <2>. QED
    BY <2>1, <2>3, TailFacts
<1>a. /\ h[c] \in Nat /\ g[c] = h[c] + 1 /\ Len(queue[c]) \in Nat
      /\ Len(Tail(queue[c])) = Len(queue[c]) - 1
  BY <1>5, <1>7, <1>9
<1>10. /\ queue'[c] = Tail(queue[c])
       /\ \A d \in Channels \ {c} : queue'[d] = queue[d]
  BY <1>0, <1>3, <1>8
<1>b. g[c] + Len(queue'[c]) = h[c] + Len(queue[c])
  <2>1. Len(queue'[c]) = Len(queue[c]) - 1
    BY <1>a, <1>10, Zenon
  <2>2. g[c] + Len(queue'[c]) = (h[c] + 1) + (Len(queue[c]) - 1)
    BY <1>a, <2>1, Zenon
  <2>3. (h[c] + 1) + (Len(queue[c]) - 1) = h[c] + Len(queue[c])
    BY <1>a, Passed, Zenon
  <2>. QED
    BY <2>2, <2>3, Zenon
<1>11. ChannelsCarry(g)'
  <2>1. ASSUME NEW d \in Channels
        PROVE  /\ g[d] + Len(queue'[d]) <= Size(plan, d[1])
               /\ \A i \in DOMAIN queue'[d] :
                    queue'[d][i] = Message(plan, d[1], g[d] + i)
               /\ d \in shut => g[d] + Len(queue'[d]) = Size(plan, d[1])
    <3>1. CASE d # c
      BY <1>4, <1>7, <1>10, <2>1, <3>1 DEF ChannelsCarry
    <3>2. CASE d = c
      <4>1. g[c] + Len(queue'[c]) = h[c] + Len(queue[c])
        BY <1>b
      <4>2. ASSUME NEW i \in DOMAIN queue'[c]
            PROVE  queue'[c][i] = Message(plan, c[1], g[c] + i)
        <5>1. /\ i \in Nat /\ i + 1 \in DOMAIN queue[c]
              /\ queue'[c][i] = queue[c][i + 1]
          BY <1>9, <1>10, <4>2
        <5>2. queue[c][i + 1] = Message(plan, c[1], h[c] + (i + 1))
          BY <1>3, <1>4, <5>1 DEF ChannelsCarry
        <5>3. h[c] + (i + 1) = g[c] + i
          BY <1>a, <5>1, Passed, Zenon
        <5>. QED
          BY <5>1, <5>2, <5>3
      <4>. QED
        BY <1>3, <1>4, <3>2, <4>1, <4>2 DEF ChannelsCarry
    <3>. QED
      BY <3>1, <3>2
  <2>. QED
    BY <1>1, <1>7, <2>1 DEF ChannelsCarry
<1>12. Taken(a, g)' = [r EXCEPT ![j] = @ + 1]
  <2>1. \A i \in DOMAIN In(a) : i # j => In(a)[i] \in Channels \ {c}
    BY <1>0, Ends, InsDiffer
  <2>2. \A i \in DOMAIN In(a) : g[In(a)[i]] = IF i = j THEN r[j] + 1 ELSE r[i]
    BY <1>0, <1>3, <1>7, <2>1 DEF Taken
  <2>3. Taken(a, g)' = [i \in DOMAIN In(a) |-> g[In(a)[i]]]
    BY <1>2 DEF Taken
  <2>4. DOMAIN r = DOMAIN In(a)
    BY <1>5
  <2>. QED
    BY <2>2, <2>3, <2>4
<1>13. Sent(a, g)' = t
  <2>1. \A k \in DOMAIN Out(a) : Out(a)[k] \in Channels \ {c}
    BY <1>0, Ends, InOutDiffer
  <2>2. \A k \in DOMAIN Out(a) : g[Out(a)[k]] + Len(queue'[Out(a)[k]]) =
                                    h[Out(a)[k]] + Len(queue[Out(a)[k]])
    BY <1>7, <1>10, <2>1
  <2>. QED
    BY <1>2, <2>2 DEF Sent
<1>14. Makes(a, Taken(a, g), Sent(a, g))'
  BY <1>12, <1>13
<1>15. \A b \in Actors \ {a} : Makes(b, Taken(b, g), Sent(b, g))'
  <2>1. \A d \in Channels : g[d] + Len(queue'[d]) = h[d] + Len(queue[d])
    <3>1. g[c] + Len(queue'[c]) = h[c] + Len(queue[c])
      BY <1>b
    <3>. QED
      BY <1>7, <1>10, <3>1
  <2>2. \A d \in Channels : (\A i \in DOMAIN In(a) : d # In(a)[i]) => g[d] = h[d]
    BY <1>0, <1>7
  <2>. QED
    BY <2>1, <2>2, OthersMake
<1>. QED
  BY <1>1, <1>11, <1>14, <1>15 DEF History

\* What a step of actor a may change besides where the actor is.
VarsEffect(a) ==
    /\ loc' = [b \in Actors |-> loc'[b]]
    /\ \A b \in Actors \ {a} : loc'[b] = loc[b]
    /\ fan' = [n \in Nodes |-> fan'[n]]
    /\ \A n \in Nodes : fan'[n] # fan[n] => n = a[2] /\ Kind(a) = "unbounded"
    /\ \A n \in Nodes : lin'[n] # lin[n] => n = a[2] /\ Kind(a) = "scan"
    /\ result' # result => Kind(a) = "sink"

\* Metadata steps, failures and drains change no local variables.
LEMMA QuietVars ==
    ASSUME Locals, NEW a \in Actors,
           RecvMetadata(a) \/ SendMetadata(a) \/ DrainMetadata(a) \/ Drain(a)
           \/ Fail(a)
    PROVE  VarsEffect(a)
<1>1. loc' = loc /\ fan' = fan /\ lin' = lin /\ result' = result
  BY DEF RecvMetadata, SendMetadata, DrainMetadata, Drain, Fail, Raise
<1>. QED
  BY <1>1 DEF Locals, VarsEffect

\* Receiving and sending changes the actor's own loop variables.
LEMMA LoopVars ==
    ASSUME Locals, NEW a \in Actors,
           RecvOne(a) \/ RecvAll(a) \/ RecvRound(a) \/ RecvSequential(a)
           \/ (SendNext(a) /\ Kind(a) \notin {"scan", "unbounded", "sink"}
               /\ Kind(a) \in NodeKinds \cup {"bounded"})
    PROVE  VarsEffect(a)
<1>0. loc = [b \in Actors |-> loc[b]] /\ fan = [n \in Nodes |-> fan[n]]
  BY DEF Locals
<1>1. fan' = fan /\ lin' = lin /\ (result' # result => Kind(a) = "sink")
  BY DEF RecvOne, RecvAll, RecvRound, RecvSequential, Received, SendNext
<1>2. loc' = loc \/ \E l : loc' = [loc EXCEPT ![a] = l]
  <2>1. CASE RecvOne(a)
    BY <1>0, <2>1 DEF RecvOne
  <2>2. CASE RecvAll(a)
    BY <1>0, <2>2 DEF RecvAll
  <2>3. CASE RecvRound(a)
    BY <1>0, <2>3 DEF RecvRound
  <2>4. CASE RecvSequential(a)
    BY <1>0, <2>4 DEF RecvSequential
  <2>5. CASE SendNext(a) /\ Kind(a) \in NodeKinds \cup {"bounded"}
             /\ Kind(a) \notin {"scan", "unbounded", "sink"}
    <3>1. PICK k : AfterSend(a, k)
      BY <2>5 DEF SendNext
    <3>. QED
      BY <1>0, <2>5, <3>1 DEF AfterSend, NodeKinds
  <2>. QED
    BY <2>1, <2>2, <2>3, <2>4, <2>5
<1>. QED
  BY <1>0, <1>1, <1>2 DEF VarsEffect

\* The unbounded fanout and its tasks change its variables.
LEMMA FanoutVars ==
    ASSUME Locals, NEW a \in Actors, Kind(a) = "unbounded",
           ReceiveTask(a) \/ OutputTask(a) \/ MainLoop(a)
    PROVE  VarsEffect(a)
<1>0. loc = [b \in Actors |-> loc[b]] /\ fan = [n \in Nodes |-> fan[n]]
  BY DEF Locals
<1>1. loc' = loc /\ lin' = lin /\ result' = result
  BY DEF ReceiveTask, OutputTask, MainLoop
<1>2. \E f : fan' = [fan EXCEPT ![a[2]] = f]
  <2>1. CASE ReceiveTask(a)
    BY <1>0, <2>1 DEF ReceiveTask
  <2>2. CASE OutputTask(a)
    BY <1>0, <2>2 DEF OutputTask
  <2>3. CASE MainLoop(a)
    BY <1>0, <2>3 DEF MainLoop
  <2>. QED
    BY <2>1, <2>2, <2>3
<1>. QED
  BY <1>0, <1>1, <1>2 DEF VarsEffect

\* The Lineariser and its producers change its state.
LEMMA LineariserVars ==
    ASSUME Locals, Linearisers, NEW a \in Actors, Kind(a) = "scan",
           Produce(a) \/ Collect(a) \/ Forward(a)
    PROVE  VarsEffect(a)
<1>0. /\ loc = [b \in Actors |-> loc[b]] /\ fan = [n \in Nodes |-> fan[n]]
      /\ lin = [n \in Nodes |-> lin[n]]
  BY DEF Locals, Linearisers
<1>1. loc' = loc /\ fan' = fan /\ result' = result
  BY DEF Produce, Collect, Forward
<1>2. lin' = lin \/ \E s : lin' = [lin EXCEPT ![a[2]] = s]
  <2>1. CASE Produce(a)
    BY <1>0, <2>1 DEF Produce
  <2>2. CASE Collect(a)
    BY <1>0, <2>2 DEF Collect
  <2>3. CASE Forward(a)
    BY <1>0, <2>3 DEF Forward
  <2>. QED
    BY <2>1, <2>2, <2>3
<1>. QED
  BY <1>0, <1>1, <1>2 DEF VarsEffect

\* Actors of these kinds are known by their node.
LEMMA KindNames ==
    ASSUME Generated, NEW a \in Actors
    PROVE  /\ Kind(a) = "unbounded" => a = <<"fanout", a[2]>>
           /\ Kind(a) = "scan" => a = <<"node", a[2]>>
           /\ Kind(a) = "sink" => a = <<"sink", Root>>
<1>1. a[2] \in Nodes /\ fanout[a[2]] \in {"none", "bounded", "unbounded"}
  BY Sorts, FanoutFacts
<1>. QED
  BY <1>1, Sorts DEF NodeKinds

\* A step is of one actor.
LEMMA StepIsOwn ==
    ASSUME NetworkState, ChannelState, ActorState, Linearisers, Locals,
           NEW a \in Actors, Step(a) \/ TaskStep(a) \/ Fail(a)
    PROVE  OwnStep(a) /\ Locals'
<1>0. Generated
  BY DEF NetworkState, Locals, Generated
<1>1. Effect(a)
  BY MetadataEffect, ReceiveEffect, SendEffect, FanoutEffect, LineariserEffect
     DEF Step, TaskStep
<1>2. UNCHANGED netVars
  BY <1>1 DEF Effect
<1>3. \A b \in Actors \ {a} : pc'[b] = pc[b]
  BY <1>1 DEF Effect, End, PlaceEffect, Goto, ActorState
<1>4. pc[a] \in StepsOf(Kind(a)) /\ Kind(a) \in NodeKinds \cup
                                        {"bounded", "unbounded", "sink"}
  BY Kinds DEF ActorState, NodeKinds
<1>5. VarsEffect(a)
  <2>1. CASE RecvMetadata(a) \/ SendMetadata(a) \/ DrainMetadata(a) \/ Drain(a)
             \/ Fail(a)
    BY <2>1, QuietVars
  <2>2. CASE RecvOne(a) \/ RecvAll(a) \/ RecvRound(a) \/ RecvSequential(a)
    BY <2>2, LoopVars
  <2>3. CASE SendNext(a)
    <3>1. Kind(a) \notin {"scan", "unbounded", "sink"}
      BY <1>4, <2>3, StepKinds DEF SendNext
    <3>. QED
      BY <1>4, <2>3, <3>1, LoopVars
  <2>4. CASE ReceiveTask(a) \/ OutputTask(a) \/ MainLoop(a)
    <3>1. Kind(a) = "unbounded"
      BY <1>4, <2>4, StepKinds DEF ReceiveTask, OutputTask, MainLoop
    <3>. QED
      BY <2>4, <3>1, FanoutVars
  <2>5. CASE Produce(a) \/ Collect(a) \/ Forward(a)
    <3>1. Kind(a) = "scan"
      BY <1>4, <2>5, StepKinds DEF Produce, Collect, Forward
    <3>. QED
      BY <2>5, <3>1, LineariserVars
  <2>. QED
    BY <2>1, <2>2, <2>3, <2>4, <2>5 DEF Step, TaskStep
<1>6. OwnStep(a)
  <2>1. ASSUME NEW b \in Actors \ {a}
        PROVE  /\ pc'[b] = pc[b] /\ loc'[b] = loc[b]
               /\ Kind(b) = "unbounded" => fan'[b[2]] = fan[b[2]]
               /\ Kind(b) = "scan" => lin'[b[2]] = lin[b[2]]
               /\ Kind(b) = "sink" => result' = result
    <3>1. b[2] \in Nodes
      BY <1>0, Sorts
    <3>2. /\ Kind(a) = Kind(b) /\ Kind(a) \in {"unbounded", "scan"} => a[2] # b[2]
          /\ Kind(a) # "sink" \/ Kind(b) # "sink"
      BY <1>0, KindNames
    <3>. QED
      BY <1>3, <1>5, <3>1, <3>2 DEF VarsEffect
  <2>. QED
    BY <1>2, <2>1 DEF OwnStep
<1>7. Locals'
  <2>1. Actors' = Actors /\ Nodes' = Nodes
    BY <1>2, NetworkStays
  <2>2. (fanout = FanoutNodes(plan))'
    <3>1. plan' = plan /\ fanout' = fanout /\ fanout = FanoutNodes(plan)
      BY <1>2 DEF netVars, Locals
    <3>. QED
      BY <3>1
  <2>. QED
    BY <1>5, <2>1, <2>2 DEF Locals, VarsEffect
<1>. QED
  BY <1>6, <1>7

-----------------------------------------------------------------------------
(* Metadata *)

\* The metadata of outputs by steps.
LEMMA OutMetadataFacts ==
    /\ OutMetadata("recv metadata") = {"none"}
    /\ OutMetadata("send metadata") = {"none"}
    /\ OutMetadata("drain metadata") = {"sent", "taken"}
    /\ \A x : x \notin Early => OutMetadata(x) = {"taken"}
    /\ \A x : "sent" \in OutMetadata(x) => x = "drain metadata"
    /\ \A x : "none" \in OutMetadata(x) =>
            x \in {"recv metadata", "send metadata"}
BY DEF OutMetadata, Early

\* Data steps leave the metadata alone.
LEMMA MetadataStays ==
    ASSUME MetadataFlows, NEW a \in Actors, OwnStep(a), md' = md,
           pc[a] \notin Early, pc'[a] \notin Early
    PROVE  MetadataFlows'
<1>1. /\ Channels' = Channels /\ Actors' = Actors
      /\ \A b : In(b)' = In(b) /\ Out(b)' = Out(b)
  BY NetworkStays, EndsStay DEF OwnStep
<1>2. \A b \in Actors : b # a => pc'[b] = pc[b]
  BY DEF OwnStep
<1>3. ASSUME NEW b \in Actors
      PROVE  /\ \A k \in DOMAIN Out(b) :
                    md[Out(b)[k]] \in OutMetadata(pc'[b])
             /\ pc'[b] # "recv metadata" =>
                    \A j \in DOMAIN In(b) : md[In(b)[j]] = "taken"
  <2>1. CASE b # a
    BY <1>2, <2>1 DEF MetadataFlows
  <2>2. CASE b = a
    <3>1. /\ \A k \in DOMAIN Out(a) : md[Out(a)[k]] = "taken"
          /\ \A j \in DOMAIN In(a) : md[In(a)[j]] = "taken"
      BY OutMetadataFacts DEF MetadataFlows, Early
    <3>. QED
      BY <2>2, <3>1, OutMetadataFacts DEF Early
  <2>. QED
    BY <2>1, <2>2
<1>4. \A c \in Channels : md[c] # "shut"
  BY OutMetadataFacts DEF MetadataFlows, Early
<1>. QED
  BY <1>1, <1>3, <1>4 DEF MetadataFlows

\* An actor that has received all metadata ends without shutting metadata.
LEMMA EndMetadata ==
    ASSUME ChannelState, MetadataFlows, NEW a \in Actors, pc[a] \notin Early,
           ShutDown(Chans(a))
    PROVE  md' = md
<1>1. /\ \A k \in DOMAIN Out(a) : md[Out(a)[k]] = "taken"
      /\ \A j \in DOMAIN In(a) : md[In(a)[j]] = "taken"
  BY OutMetadataFacts DEF MetadataFlows, Early
<1>2. \A c \in Chans(a) : md[c] = "taken"
  BY <1>1 DEF Chans, Range
<1>3. md = [c \in Channels |-> md[c]] /\ DOMAIN md = Channels
  BY DEF ChannelState
<1>. QED
  BY <1>2, <1>3 DEF ShutDown

\* How the invariant of metadata is established.
LEMMA MetadataAfter ==
    ASSUME UNCHANGED netVars, \A d \in Channels : md'[d] # "shut",
           \A b \in Actors : \A k \in DOMAIN Out(b) :
                md'[Out(b)[k]] \in OutMetadata(pc'[b]),
           \A b \in Actors : pc'[b] # "recv metadata" =>
                \A i \in DOMAIN In(b) : md'[In(b)[i]] = "taken"
    PROVE  MetadataFlows'
<1>1. /\ Channels' = Channels /\ Actors' = Actors
      /\ \A b : In(b)' = In(b) /\ Out(b)' = Out(b)
  BY NetworkStays, EndsStay
<1>. QED
  BY <1>1 DEF MetadataFlows

\* One metadata message is taken.
LEMMA TakesMetadata ==
    ASSUME Generated, ChannelState, MetadataFlows, NEW a \in Actors, OwnStep(a),
           NEW j \in DOMAIN In(a), pc[a] = "recv metadata",
           md[In(a)[j]] = "sent", md' = [md EXCEPT ![In(a)[j]] = "taken"],
           \/ pc'[a] = "recv metadata"
           \/ /\ \A k \in DOMAIN In(a) \ {j} : md[In(a)[k]] = "taken"
              /\ \/ pc'[a] = "send metadata"
                 \/ pc'[a] = "recv" /\ DOMAIN Out(a) = {}
    PROVE  MetadataFlows'
<1>0. PICK c : c = In(a)[j]
  OBVIOUS
<1>1. /\ Channels' = Channels /\ Actors' = Actors
      /\ \A b : In(b)' = In(b) /\ Out(b)' = Out(b)
  BY NetworkStays, EndsStay DEF OwnStep
<1>2. \A b \in Actors : b # a => pc'[b] = pc[b]
  BY DEF OwnStep
<1>3. /\ c \in Channels /\ md'[c] = "taken" /\ md[c] = "sent"
      /\ \A d \in Channels \ {c} : md'[d] = md[d]
  <2>1. c \in Channels /\ DOMAIN md = Channels
    BY <1>0, Ends DEF ChannelState
  <2>. QED
    BY <1>0, <2>1
<1>4. ASSUME NEW b \in Actors, NEW k \in DOMAIN Out(b)
      PROVE  md'[Out(b)[k]] \in OutMetadata(pc'[b])
  <2>0. Out(b)[k] \in Channels
    BY Ends
  <2>1. md[Out(b)[k]] \in OutMetadata(pc[b])
    BY OutMetadataFacts DEF MetadataFlows, Early
  <2>2. CASE b = a
    <3>1. pc'[a] \in {"recv metadata", "send metadata"}
      BY <1>4, <2>2
    <3>2. md[Out(b)[k]] = "none"
      BY <2>1, <2>2, OutMetadataFacts
    <3>3. md'[Out(b)[k]] = "none"
      BY <1>3, <2>0, <3>2
    <3>. QED
      BY <2>2, <3>1, <3>3, OutMetadataFacts
  <2>3. CASE b # a
    <3>1. pc'[b] = pc[b]
      BY <1>2, <2>3
    <3>2. CASE Out(b)[k] # c
      BY <1>3, <2>0, <2>1, <3>1, <3>2
    <3>3. CASE Out(b)[k] = c
      <4>0. "sent" \in OutMetadata(pc[b])
        BY <1>3, <2>1, <3>3
      <4>1. pc[b] = "drain metadata"
        BY <4>0, OutMetadataFacts
      <4>. QED
        BY <1>3, <3>1, <3>3, <4>1, OutMetadataFacts
    <3>. QED
      BY <3>2, <3>3
  <2>. QED
    BY <2>2, <2>3
<1>5. ASSUME NEW b \in Actors, pc'[b] # "recv metadata", NEW i \in DOMAIN In(b)
      PROVE  md'[In(b)[i]] = "taken"
  <2>0. In(b)[i] \in Channels
    BY Ends
  <2>1. CASE b = a
    BY <1>0, <1>3, <1>5, <2>0, <2>1
  <2>2. CASE b # a
    <3>1. md[In(b)[i]] = "taken"
      BY <1>2, <1>5, <2>2 DEF MetadataFlows
    <3>. QED
      BY <1>3, <2>0, <3>1
  <2>. QED
    BY <2>1, <2>2
<1>6. \A d \in Channels : md'[d] # "shut"
  BY <1>3 DEF MetadataFlows
<1>. QED
  BY <1>4, <1>5, <1>6, MetadataAfter DEF OwnStep

\* An actor sends its metadata.
LEMMA SendsMetadata ==
    ASSUME Generated, ChannelState, MetadataFlows, NEW a \in Actors, OwnStep(a),
           SendMetadata(a), pc'[a] = "drain metadata"
    PROVE  MetadataFlows'
<1>1. /\ Channels' = Channels /\ Actors' = Actors
      /\ \A b : In(b)' = In(b) /\ Out(b)' = Out(b)
  BY NetworkStays, EndsStay DEF OwnStep
<1>2. \A b \in Actors : b # a => pc'[b] = pc[b]
  BY DEF OwnStep
<1>3. pc[a] = "send metadata"
  BY DEF SendMetadata
<1>4. \A c \in Channels :
        md'[c] = IF c \in Range(Out(a)) /\ md[c] = "none" THEN "sent" ELSE md[c]
  BY DEF SendMetadata, ChannelState
<1>5. ASSUME NEW b \in Actors, NEW k \in DOMAIN Out(b)
      PROVE  md'[Out(b)[k]] \in OutMetadata(pc'[b])
  <2>0. Out(b)[k] \in Channels
    BY Ends
  <2>1. md[Out(b)[k]] \in OutMetadata(pc[b])
    BY OutMetadataFacts DEF MetadataFlows, Early
  <2>2. CASE b = a
    <3>1. md[Out(b)[k]] = "none" /\ Out(b)[k] \in Range(Out(a))
      BY <1>3, <2>1, <2>2, OutMetadataFacts DEF Range
    <3>2. md'[Out(b)[k]] = "sent"
      BY <1>4, <2>0, <3>1
    <3>. QED
      BY <2>2, <3>2, OutMetadataFacts
  <2>3. CASE b # a
    <3>1. Out(b)[k] \notin Range(Out(a))
      BY <2>3, OutsDiffer DEF Range
    <3>. QED
      BY <1>2, <1>4, <2>0, <2>1, <2>3, <3>1
  <2>. QED
    BY <2>2, <2>3
<1>6. ASSUME NEW b \in Actors, pc'[b] # "recv metadata", NEW i \in DOMAIN In(b)
      PROVE  md'[In(b)[i]] = "taken"
  <2>0. In(b)[i] \in Channels
    BY Ends
  <2>1. md[In(b)[i]] = "taken"
    BY <1>2, <1>3, <1>6 DEF MetadataFlows
  <2>. QED
    BY <1>4, <2>0, <2>1
<1>7. \A d \in Channels : md'[d] # "shut"
  BY <1>4 DEF MetadataFlows
<1>. QED
  BY <1>1, <1>5, <1>6, <1>7 DEF MetadataFlows

\* The metadata of an actor has been taken.
LEMMA DrainsMetadata ==
    ASSUME MetadataFlows, NEW a \in Actors, OwnStep(a),
           DrainMetadata(a), pc'[a] \notin Early
    PROVE  MetadataFlows'
<1>1. /\ Channels' = Channels /\ Actors' = Actors /\ md' = md
      /\ \A b : In(b)' = In(b) /\ Out(b)' = Out(b)
  BY NetworkStays, EndsStay DEF OwnStep, DrainMetadata, chanVars
<1>2. \A b \in Actors : b # a => pc'[b] = pc[b]
  BY DEF OwnStep
<1>3. /\ pc[a] = "drain metadata"
      /\ \A k \in DOMAIN Out(a) : md[Out(a)[k]] = "taken"
      /\ \A j \in DOMAIN In(a) : md[In(a)[j]] = "taken"
  BY OutMetadataFacts DEF DrainMetadata, MetadataFlows
<1>4. ASSUME NEW b \in Actors
      PROVE  /\ \A k \in DOMAIN Out(b) :
                    md[Out(b)[k]] \in OutMetadata(pc'[b])
             /\ pc'[b] # "recv metadata" =>
                    \A j \in DOMAIN In(b) : md[In(b)[j]] = "taken"
  <2>1. CASE b # a
    BY <1>2, <2>1 DEF MetadataFlows
  <2>2. CASE b = a
    BY <1>3, <2>2, OutMetadataFacts DEF Early
  <2>. QED
    BY <2>1, <2>2
<1>5. \A c \in Channels : md[c] # "shut"
  BY OutMetadataFacts DEF MetadataFlows, Early
<1>. QED
  BY <1>1, <1>4, <1>5 DEF MetadataFlows

-----------------------------------------------------------------------------
(* What the kinds of actors make, step by step *)

\* A source sends its chunks one by one.
LEMMA SourceStarts ==
    ASSUME NEW p \in Plans, NEW n \in 1..Len(p.kind), p.kind[n] = "source",
           NEW l, l.count = 0, NEW t, t[1] = 0, p.chunks[n] # 0
    PROVE  SourceMakes(p, n, "send", l, t)
BY SourceMessages DEF SourceMakes

\* What a source sends, and what it has made then.
LEMMA SourceSends ==
    ASSUME NEW p \in Plans, NEW n \in 1..Len(p.kind), p.kind[n] = "source",
           NEW l, NEW t \in [1..1 -> Nat], SourceMakes(p, n, "send", l, t),
           NEW k, k.count = l.count + 1
    PROVE  /\ t[1] < Size(p, n)
           /\ [seq |-> l.count, data |-> <<<<n, l.count>>>>] =
                Message(p, n, t[1] + 1)
           /\ l.count + 1 = p.chunks[n] => t[1] + 1 = Size(p, n)
           /\ l.count + 1 # p.chunks[n] =>
                SourceMakes(p, n, "send", k, [t EXCEPT ![1] = @ + 1])
<1>1. Size(p, n) = p.chunks[n] /\ p.chunks[n] \in Nat
  BY SourceMessages
<1>2. l.count = t[1] /\ t[1] < Size(p, n) /\ t[1] \in Nat
  BY DEF SourceMakes
<1>3. t[1] + 1 \in 1..Size(p, n) /\ (t[1] + 1) - 1 = t[1]
  BY <1>1, <1>2
<1>4. Message(p, n, t[1] + 1) = [seq |-> t[1], data |-> <<<<n, t[1]>>>>]
  BY <1>3, SourceMessages
<1>5. [t EXCEPT ![1] = @ + 1][1] = t[1] + 1
  OBVIOUS
<1>6. l.count + 1 # p.chunks[n] =>
        k.count = t[1] + 1 /\ t[1] + 1 < Size(p, n)
  BY <1>1, <1>2
<1>. QED
  BY <1>1, <1>2, <1>4, <1>5, <1>6 DEF SourceMakes

\* A map sends a chunk for every chunk it receives, or one empty chunk.
LEMMA MapReceives ==
    ASSUME NEW p \in Plans, NEW n \in 1..Len(p.kind), p.kind[n] = "map",
           NEW c, c = p.args[n][1], Size(p, c) \in Nat,
           NEW l, NEW r \in [1..1 -> Nat], NEW t \in [1..1 -> Nat],
           MapMakes(p, n, "recv", l, r, t), r[1] < Size(p, c),
           NEW k, k.count = 1, k.hold[1] = <<Message(p, c, r[1] + 1)>>
    PROVE  MapMakes(p, n, "send", k, [r EXCEPT ![1] = @ + 1], t)
<1>1. r[1] \in Nat /\ [r EXCEPT ![1] = @ + 1][1] = r[1] + 1
  OBVIOUS
<1>2. t[1] = r[1]
  BY <1>1 DEF MapMakes
<1>. QED
  BY <1>1, <1>2 DEF MapMakes

\* The input of a map ends: it has sent everything, or sends an empty chunk.
LEMMA MapEnds ==
    ASSUME NEW p \in Plans, NEW n \in 1..Len(p.kind), p.kind[n] = "map",
           NEW c, c = p.args[n][1], Size(p, c) \in Nat,
           NEW l, NEW r \in [1..1 -> Nat], NEW t \in [1..1 -> Nat],
           MapMakes(p, n, "recv", l, r, t), r[1] = Size(p, c)
    PROVE  /\ l.count = 0 =>
                \A k : k.count = 1 /\ k.hold[1] = <<Empty>> =>
                        MapMakes(p, n, "send", k, r, t)
           /\ l.count # 0 => t[1] = Size(p, n)
<1>1. r[1] \in Nat
  OBVIOUS
<1>2. CASE l.count = 0
  <2>1. r[1] = 0 /\ t[1] = 0
    BY <1>2 DEF MapMakes
  <2>. QED
    BY <1>2, <2>1 DEF MapMakes
<1>3. CASE l.count # 0
  BY <1>1, <1>3, MapMessages DEF MapMakes
<1>. QED
  BY <1>2, <1>3

\* Map n, with child c, has taken r and sent t, and holds m.
MapHolds(p, n, c, l, r, t, m) ==
    /\ p \in Plans /\ n \in 1..Len(p.kind) /\ p.kind[n] = "map"
    /\ c = p.args[n][1] /\ Size(p, c) \in Nat
    /\ r \in [1..1 -> Nat] /\ t \in [1..1 -> Nat] /\ r[1] <= Size(p, c)
    /\ MapMakes(p, n, "send", l, r, t) /\ m = l.hold[1][1]

\* What a map sends, and what it has made then.
LEMMA MapSends ==
    ASSUME NEW p, NEW n, NEW c, NEW l, NEW r, NEW t, NEW m,
           MapHolds(p, n, c, l, r, t, m)
    PROVE  /\ t[1] < Size(p, n)
           /\ m = Message(p, n, t[1] + 1)
           /\ MapMakes(p, n, "recv", l, r, [t EXCEPT ![1] = @ + 1])
<1>. SUFFICES ASSUME p \in Plans, n \in 1..Len(p.kind), p.kind[n] = "map",
                     c = p.args[n][1], Size(p, c) \in Nat,
                     r \in [1..1 -> Nat], t \in [1..1 -> Nat],
                     r[1] <= Size(p, c), MapMakes(p, n, "send", l, r, t),
                     m = l.hold[1][1]
              PROVE  /\ t[1] < Size(p, n)
                     /\ m = Message(p, n, t[1] + 1)
                     /\ MapMakes(p, n, "recv", l, r, [t EXCEPT ![1] = @ + 1])
  BY DEF MapHolds
<1>1. r[1] \in Nat /\ [t EXCEPT ![1] = @ + 1][1] = t[1] + 1
  OBVIOUS
<1>2. CASE r[1] > 0
  <2>1. t[1] = r[1] - 1 /\ l.hold[1] = <<Message(p, c, r[1])>> /\ l.count = 1
    BY <1>2 DEF MapMakes
  <2>2. Size(p, n) = Size(p, c) /\ \A i : Message(p, n, i) = Message(p, c, i)
    BY <1>1, <1>2, MapMessages
  <2>3. t[1] + 1 = r[1]
    BY <1>1, <2>1
  <2>. QED
    BY <1>1, <1>2, <2>1, <2>2, <2>3 DEF MapMakes
<1>3. CASE r[1] = 0
  <2>1. t[1] = 0 /\ Size(p, c) = 0 /\ l.hold[1] = <<Empty>> /\ l.count = 1
    BY <1>3 DEF MapMakes
  <2>2. Size(p, n) = 1 /\ Message(p, n, 1) = Empty
    BY <2>1, MapMessages
  <2>. QED
    BY <1>1, <1>3, <2>1, <2>2 DEF MapMakes
<1>. QED
  BY <1>1, <1>2, <1>3

\* A reduce collects all chunks and sends one, unless there are none.
LEMMA ReduceReceives ==
    ASSUME NEW p \in Plans, NEW n \in 1..Len(p.kind), p.kind[n] = "reduce",
           NEW c, c = p.args[n][1],
           NEW l, NEW r \in [1..1 -> Nat], NEW t \in [1..1 -> Nat],
           ReduceMakes(p, n, "recv", l, r, t),
           NEW k, k.hold[1] = Append(l.hold[1], Message(p, c, r[1] + 1))
    PROVE  ReduceMakes(p, n, "recv", k, [r EXCEPT ![1] = @ + 1], t)
<1>1. PICK q : q = l.hold[1]
  OBVIOUS
<1>2. /\ t[1] = 0 /\ IsSequence(q) /\ Len(q) = r[1]
      /\ \A i \in DOMAIN q : q[i] = Message(p, c, i)
  BY <1>1 DEF ReduceMakes
<1>3. PICK m : m = Message(p, c, r[1] + 1)
  OBVIOUS
<1>4. /\ IsSequence(Append(q, m)) /\ Len(Append(q, m)) = r[1] + 1
      /\ r[1] \in Nat
  BY <1>2, AppendIsSequence
<1>5. \A i \in DOMAIN Append(q, m) : Append(q, m)[i] = Message(p, c, i)
  <2>1. q \in Seq(Range(q)) /\ DOMAIN q = 1..r[1]
    BY <1>2, ShortSequences DEF IsSequence
  <2>2. /\ DOMAIN Append(q, m) = 1..(r[1] + 1)
        /\ \A i \in 1..r[1] : Append(q, m)[i] = q[i]
        /\ Append(q, m)[r[1] + 1] = m
    BY <1>2, <2>1
  <2>3. ASSUME NEW i \in DOMAIN Append(q, m)
        PROVE  Append(q, m)[i] = Message(p, c, i)
    <3>1. CASE i \in 1..r[1]
      BY <1>2, <2>1, <2>2, <3>1
    <3>2. CASE i = r[1] + 1
      BY <1>3, <2>2, <3>2
    <3>. QED
      BY <1>4, <2>2, <3>1, <3>2
  <2>. QED
    BY <2>3
<1>6. [r EXCEPT ![1] = @ + 1][1] = r[1] + 1
  OBVIOUS
<1>7. k.hold[1] = Append(q, m)
  BY <1>1, <1>3
<1>. QED
  BY <1>2, <1>4, <1>5, <1>6, <1>7 DEF ReduceMakes

\* The input of a reduce ends.
LEMMA ReduceEnds ==
    ASSUME NEW p \in Plans, NEW n \in 1..Len(p.kind), p.kind[n] = "reduce",
           NEW c, c = p.args[n][1],
           NEW l, NEW r \in [1..1 -> Nat], NEW t \in [1..1 -> Nat],
           ReduceMakes(p, n, "recv", l, r, t), r[1] = Size(p, c)
    PROVE  /\ l.hold[1] = <<>> => t[1] = Size(p, n)
           /\ l.hold[1] # <<>> => ReduceMakes(p, n, "send", l, r, t)
<1>1. /\ t[1] = 0 /\ IsSequence(l.hold[1]) /\ Len(l.hold[1]) = r[1]
      /\ \A i \in DOMAIN l.hold[1] : l.hold[1][i] = Message(p, c, i)
  BY DEF ReduceMakes
<1>2. l.hold[1] = <<>> <=> r[1] = 0
  BY <1>1, ShortSequences
<1>3. r[1] \in Nat
  OBVIOUS
<1>4. l.hold[1] = <<>> => t[1] = Size(p, n)
  BY <1>1, <1>2, ReduceMessage
<1>5. l.hold[1] # <<>> => r[1] > 0
  BY <1>2, <1>3
<1>. QED
  BY <1>1, <1>4, <1>5 DEF ReduceMakes

\* What a reduce sends: it is the only chunk.
LEMMA ReduceSends ==
    ASSUME NEW p \in Plans, NEW n \in 1..Len(p.kind), p.kind[n] = "reduce",
           NEW c, c = p.args[n][1],
           NEW l, NEW r \in [1..1 -> Nat], NEW t \in [1..1 -> Nat],
           ReduceMakes(p, n, "send", l, r, t)
    PROVE  /\ t[1] < Size(p, n) /\ t[1] + 1 = Size(p, n)
           /\ [seq |-> 0, data |-> Combined(l.hold[1])] = Message(p, n, t[1] + 1)
<1>1. /\ t[1] = 0 /\ IsSequence(l.hold[1]) /\ Len(l.hold[1]) = r[1]
      /\ \A i \in DOMAIN l.hold[1] : l.hold[1][i] = Message(p, c, i)
      /\ r[1] = Size(p, c) /\ r[1] > 0 /\ r[1] \in Nat
  BY DEF ReduceMakes
<1>2. Size(p, c) # 0
  BY <1>1
<1>3. /\ Size(p, n) = 1
      /\ [seq |-> 0, data |-> Combined(l.hold[1])] = Message(p, n, 1)
  BY <1>1, <1>2, ReduceMessage
<1>. QED
  BY <1>1, <1>3

\* One child of a zip: it had finished, has another chunk, or ends.
LEMMA ZipChildSteps ==
    ASSUME NEW p, NEW c, Size(p, c) \in Nat, NEW k \in Nat, NEW e, NEW held,
           NEW f, ZipChild(p, c, k, e, held, f)
    PROVE  /\ f => ZipChild(p, c, k + 1, e, held, TRUE)
           /\ ~f /\ e < Size(p, c) =>
                ZipChild(p, c, k + 1, e + 1, <<Message(p, c, e + 1)>>, FALSE)
           /\ ~f /\ e = Size(p, c) => ZipChild(p, c, k + 1, e, held, TRUE)
<1>1. /\ e = Upto(p, c, k) /\ (f <=> Size(p, c) < k) /\ e \in Nat
      /\ IF e = 0 THEN held \in {<<>>, <<Empty>>} ELSE held = <<Message(p, c, e)>>
  BY UptoFacts DEF ZipChild
<1>2. CASE f
  <2>1. Upto(p, c, k + 1) = e /\ Size(p, c) < k + 1
    BY <1>1, <1>2 DEF Upto
  <2>. QED
    BY <1>1, <1>2, <2>1 DEF ZipChild
<1>3. CASE ~f /\ e < Size(p, c)
  <2>1. Upto(p, c, k + 1) = e + 1 /\ ~(Size(p, c) < k + 1) /\ e + 1 # 0
    BY <1>1, <1>3 DEF Upto
  <2>. QED
    BY <1>1, <1>3, <2>1 DEF ZipChild
<1>4. CASE ~f /\ e = Size(p, c)
  <2>1. Upto(p, c, k + 1) = e /\ Size(p, c) < k + 1
    BY <1>1, <1>4 DEF Upto
  <2>. QED
    BY <1>1, <1>4, <2>1 DEF ZipChild
<1>. QED
  BY <1>1, <1>2, <1>3, <1>4

\* What a round of a zip does with the child at which it is: g are the
\* variables with the child handled, e the chunks taken.
ZipHandled(p, n, l, e, g) ==
    /\ g.at = l.at /\ g.count = l.count
    /\ g.finished \ {l.at} = l.finished \ {l.at}
    /\ \A i \in 1..Len(p.args[n]) : i # l.at => g.hold[i] = l.hold[i]
    /\ ZipChild(p, p.args[n][l.at], l.count + 1, e, g.hold[l.at],
                l.at \in g.finished)

\* A zip starts with its first child.
LEMMA ZipStarts ==
    ASSUME NEW p \in Plans, NEW n, NEW m \in Nat \ {0}, NEW r, DOMAIN r = 1..m,
           \A j \in 1..m : r[j] = 0 /\ Size(p, p.args[n][j]) \in Nat,
           NEW l, l.at = 1, l.count = 0, l.finished = {},
           \A j \in 1..m : l.hold[j] = <<>>,
           NEW t, t[1] = 0
    PROVE  ZipMakes(p, n, "recv", l, r, t)
<1>1. ASSUME NEW j \in 1..m
      PROVE  ZipChild(p, p.args[n][j], IF j < l.at THEN l.count + 1 ELSE l.count,
                      r[j], l.hold[j], j \in l.finished)
  <2>1. ~(j < l.at) /\ j \notin l.finished
    OBVIOUS
  <2>2. Upto(p, p.args[n][j], 0) = 0
    BY UptoFacts
  <2>. QED
    BY <2>1, <2>2 DEF ZipChild
<1>2. 1 \in 1..m
  OBVIOUS
<1>. QED
  BY <1>1, <1>2 DEF ZipMakes

\* The round goes on to the next child.
LEMMA ZipGoesOn ==
    ASSUME NEW p \in Plans, NEW n, NEW m \in Nat, m = Len(p.args[n]),
           NEW r \in [1..m -> Nat],
           NEW l, NEW t, ZipMakes(p, n, "recv", l, r, t), l.at < m,
           NEW e, NEW g, ZipHandled(p, n, l, e, g), g.finished \subseteq 1..m,
           NEW k, k.at = l.at + 1, k.count = g.count, k.finished = g.finished,
           k.hold = g.hold
    PROVE  ZipMakes(p, n, "recv", k, [r EXCEPT ![l.at] = e], t)
<1>1. /\ l.at \in 1..m /\ l.count = t[1]
      /\ \A j \in 1..m :
            ZipChild(p, p.args[n][j], IF j < l.at THEN l.count + 1 ELSE l.count,
                     r[j], l.hold[j], j \in l.finished)
  BY DEF ZipMakes
<1>2. PICK a : a = l.at
  OBVIOUS
<1>3. PICK s : s = [r EXCEPT ![a] = e]
  OBVIOUS
<1>4. /\ DOMAIN s = 1..m /\ s[a] = e /\ \A j \in 1..m : j # a => s[j] = r[j]
      /\ a \in 1..m
  BY <1>1, <1>2, <1>3
<1>5. /\ g.count = l.count /\ g.finished \ {a} = l.finished \ {a}
      /\ \A i \in 1..m : i # a => g.hold[i] = l.hold[i]
      /\ ZipChild(p, p.args[n][a], l.count + 1, e, g.hold[a], a \in g.finished)
  BY <1>2 DEF ZipHandled
<1>6. ASSUME NEW j \in 1..m
      PROVE  ZipChild(p, p.args[n][j], IF j < k.at THEN k.count + 1 ELSE k.count,
                      s[j], k.hold[j], j \in k.finished)
  <2>1. CASE j = a
    <3>1. j < k.at
      BY <1>2, <1>4, <2>1
    <3>. QED
      BY <1>4, <1>5, <2>1, <3>1
  <2>2. CASE j # a
    <3>1. j < k.at <=> j < l.at
      BY <1>2, <1>4, <2>2
    <3>2. /\ s[j] = r[j] /\ k.hold[j] = l.hold[j] /\ k.count = l.count
          /\ j \in k.finished <=> j \in l.finished
      BY <1>4, <1>5, <2>2
    <3>3. ZipChild(p, p.args[n][j], IF j < l.at THEN l.count + 1 ELSE l.count,
                   r[j], l.hold[j], j \in l.finished)
      BY <1>1
    <3>. QED
      BY <3>1, <3>2, <3>3 DEF ZipChild
  <2>. QED
    BY <2>1, <2>2
<1>7. k.at \in 1..m
  BY <1>2, <1>4
<1>8. ZipMakes(p, n, "recv", k, s, t)
  BY <1>1, <1>4, <1>5, <1>6, <1>7 DEF ZipMakes
<1>. QED
  BY <1>2, <1>3, <1>8

\* Everything has been taken of the m children of a node.
TakenAll(p, n, m, s) == \A j \in 1..m : s[j] = Size(p, p.args[n][j])

\* A zip has handled its last child, g are its variables then and k when the
\* round is complete.
ZipRound(p, n, m, r, l, t, e, g, k, s) ==
    /\ p \in Plans /\ n \in 1..Len(p.kind) /\ p.kind[n] = "zip"
    /\ m \in Nat \ {0} /\ m = Len(p.args[n]) /\ r \in [1..m -> Nat]
    /\ t[1] \in Nat /\ t[1] <= Size(p, n)
    /\ ZipMakes(p, n, "recv", l, r, t) /\ l.at = m
    /\ ZipHandled(p, n, l, e, g) /\ g.finished \subseteq 1..m
    /\ k.at = 1 /\ k.count = g.count /\ k.finished = g.finished
    /\ \A i \in 1..m :
        k.hold[i] = IF g.hold[i] = <<>> THEN <<Empty>> ELSE g.hold[i]
    /\ s = [r EXCEPT ![m] = e]

\* The round is complete: a chunk is sent, or all children have finished.
LEMMA ZipCompletes ==
    ASSUME NEW p, NEW n, NEW m, NEW r, NEW l, NEW t, NEW e, NEW g, NEW k,
           NEW s, ZipRound(p, n, m, r, l, t, e, g, k, s)
    PROVE  /\ g.finished # 1..m => ZipMakes(p, n, "send", k, s, t)
           /\ g.finished = 1..m =>
                /\ t[1] = Size(p, n)
                /\ TakenAll(p, n, m, s)
<1>. SUFFICES
        ASSUME p \in Plans, n \in 1..Len(p.kind), p.kind[n] = "zip",
               m \in Nat \ {0}, m = Len(p.args[n]), r \in [1..m -> Nat],
               t[1] \in Nat, t[1] <= Size(p, n),
               ZipMakes(p, n, "recv", l, r, t), l.at = m,
               ZipHandled(p, n, l, e, g), g.finished \subseteq 1..m,
               k.at = 1, k.count = g.count, k.finished = g.finished,
               \A i \in 1..m :
                    k.hold[i] = IF g.hold[i] = <<>> THEN <<Empty>> ELSE g.hold[i],
               s = [r EXCEPT ![m] = e]
        PROVE  /\ g.finished # 1..m => ZipMakes(p, n, "send", k, s, t)
               /\ g.finished = 1..m =>
                    /\ t[1] = Size(p, n)
                    /\ TakenAll(p, n, m, s)
  BY DEF ZipRound
<1>0. \A j \in 1..m : Size(p, p.args[n][j]) \in Nat
  BY SizeFacts
<1>1. /\ l.count = t[1]
      /\ \A j \in 1..m :
            ZipChild(p, p.args[n][j], IF j < l.at THEN l.count + 1 ELSE l.count,
                     r[j], l.hold[j], j \in l.finished)
  BY DEF ZipMakes
<1>3. /\ DOMAIN s = 1..m /\ s[m] = e /\ \A j \in 1..m : j # m => s[j] = r[j]
      /\ m \in 1..m /\ 1 \in 1..m
  OBVIOUS
<1>4. /\ g.count = l.count /\ g.finished \ {m} = l.finished \ {m}
      /\ \A i \in 1..m : i # m => g.hold[i] = l.hold[i]
      /\ ZipChild(p, p.args[n][m], l.count + 1, e, g.hold[m], m \in g.finished)
  BY DEF ZipHandled
<1>5. ASSUME NEW j \in 1..m
      PROVE  ZipChild(p, p.args[n][j], t[1] + 1, s[j], g.hold[j], j \in g.finished)
  <2>1. CASE j = m
    BY <1>1, <1>3, <1>4, <2>1
  <2>2. CASE j # m
    <3>1. j < l.at
      BY <2>2
    <3>2. /\ s[j] = r[j] /\ g.hold[j] = l.hold[j]
          /\ j \in g.finished <=> j \in l.finished
      BY <1>3, <1>4, <2>2
    <3>3. ZipChild(p, p.args[n][j], l.count + 1, r[j], l.hold[j], j \in l.finished)
      BY <1>1, <3>1
    <3>. QED
      BY <1>1, <3>2, <3>3 DEF ZipChild
  <2>. QED
    BY <2>1, <2>2
<1>6. ASSUME NEW j \in 1..m
      PROVE  /\ ZipChild(p, p.args[n][j], t[1] + 1, s[j], k.hold[j],
                         j \in g.finished)
             /\ k.hold[j] # <<>>
  <2>1. ZipChild(p, p.args[n][j], t[1] + 1, s[j], g.hold[j], j \in g.finished)
    BY <1>5
  <2>2. k.hold[j] = IF g.hold[j] = <<>> THEN <<Empty>> ELSE g.hold[j]
    OBVIOUS
  <2>3. <<Empty>> # <<>> /\ \A x : <<x>> # <<>>
    OBVIOUS
  <2>. QED
    BY <2>1, <2>2, <2>3 DEF ZipChild
<1>7. \A j \in 1..m : j \in g.finished <=> Size(p, p.args[n][j]) < t[1] + 1
  BY <1>5 DEF ZipChild
<1>8. CASE g.finished # 1..m
  <2>1. PICK j \in 1..m : j \notin g.finished
    BY <1>8
  <2>2. ~(Size(p, p.args[n][j]) < t[1] + 1)
    BY <1>7, <2>1
  <2>3. Size(p, p.args[n][j]) <= Size(p, n)
    BY ZipMessages
  <2>4. Size(p, n) \in Nat
    BY SizeFacts
  <2>5. t[1] < Size(p, n)
    BY <1>0, <2>2, <2>3, <2>4
  <2>6. ZipMakes(p, n, "send", k, s, t)
    BY <1>1, <1>3, <1>4, <1>6, <2>5 DEF ZipMakes
  <2>. QED
    BY <1>8, <2>6
<1>9. CASE g.finished = 1..m
  <2>1. PICK j \in 1..m : Size(p, p.args[n][j]) = Size(p, n)
    BY ZipMessages
  <2>2. Size(p, n) < t[1] + 1 /\ Size(p, n) \in Nat
    BY <1>7, <1>9, <2>1, SizeFacts
  <2>3. t[1] = Size(p, n)
    BY <2>2
  <2>4. ASSUME NEW i \in 1..m PROVE s[i] = Size(p, p.args[n][i])
    <3>1. s[i] = Upto(p, p.args[n][i], t[1] + 1)
      BY <1>5 DEF ZipChild
    <3>2. Size(p, p.args[n][i]) < t[1] + 1
      BY <1>7, <1>9
    <3>. QED
      BY <1>0, <3>1, <3>2 DEF Upto
  <2>. QED
    BY <1>9, <2>3, <2>4 DEF TakenAll
<1>. QED
  BY <1>8, <1>9

\* The chunk that a zip sends is its next one.
LEMMA ZipSends ==
    ASSUME NEW p \in Plans, NEW n \in 1..Len(p.kind), p.kind[n] = "zip",
           NEW m \in Nat, m = Len(p.args[n]),
           NEW r \in [1..m -> Nat], NEW l, HasLocals(l, 1..m),
           NEW t \in [1..1 -> Nat], ZipMakes(p, n, "send", l, r, t),
           NEW k, k.at = l.at, k.count = l.count + 1, k.finished = l.finished,
           k.hold = l.hold
    PROVE  /\ t[1] < Size(p, n)
           /\ [seq |-> l.count, data |-> Combined(FirstOf(l.hold))] =
                Message(p, n, t[1] + 1)
           /\ ZipMakes(p, n, "recv", k, r, [t EXCEPT ![1] = @ + 1])
<1>1. /\ l.at = 1 /\ l.at \in 1..m /\ l.count = t[1] /\ t[1] < Size(p, n)
      /\ l.finished \subseteq 1..m /\ t[1] \in Nat
      /\ \A j \in 1..m :
            /\ ZipChild(p, p.args[n][j], l.count + 1, r[j], l.hold[j],
                        j \in l.finished)
            /\ l.hold[j] # <<>>
  BY DEF ZipMakes
<1>2. Size(p, n) \in Nat
  BY SizeFacts
<1>a. t[1] < Size(p, n) /\ t[1] \in Nat
  BY <1>1
<1>3. t[1] + 1 \in 1..Size(p, n) /\ (t[1] + 1) - 1 = t[1]
  BY <1>2, <1>a
<1>4. DOMAIN l.hold = 1..m
  BY DEF HasLocals
<1>5. ASSUME NEW j \in 1..m
      PROVE  l.hold[j] = IF Upto(p, p.args[n][j], t[1] + 1) = 0 THEN <<Empty>>
                         ELSE <<Message(p, p.args[n][j],
                                        Upto(p, p.args[n][j], t[1] + 1))>>
  <2>1. /\ ZipChild(p, p.args[n][j], t[1] + 1, r[j], l.hold[j], j \in l.finished)
        /\ l.hold[j] # <<>>
    BY <1>1
  <2>. QED
    BY <2>1 DEF ZipChild
<1>6. [seq |-> (t[1] + 1) - 1, data |-> Combined(FirstOf(l.hold))] =
            Message(p, n, t[1] + 1)
  BY <1>3, <1>4, <1>5, ZipMessages
<1>7. [t EXCEPT ![1] = @ + 1][1] = t[1] + 1
  OBVIOUS
<1>8. ASSUME NEW j \in 1..m
      PROVE  ZipChild(p, p.args[n][j], IF j < k.at THEN k.count + 1 ELSE k.count,
                      r[j], k.hold[j], j \in k.finished)
  <2>1. ~(j < k.at)
    BY <1>1
  <2>. QED
    BY <1>1, <2>1
<1>9. ZipMakes(p, n, "recv", k, r, [t EXCEPT ![1] = @ + 1])
  BY <1>1, <1>7, <1>8 DEF ZipMakes
<1>. QED
  BY <1>1, <1>3, <1>6, <1>9

\* A union begins with its first child.
LEMMA UnionStarts ==
    ASSUME NEW p \in Plans, NEW n \in 1..Len(p.kind), p.kind[n] = "union",
           NEW m \in Nat \ {0}, NEW r, DOMAIN r = 1..m, \A j \in 1..m : r[j] = 0,
           NEW l, l.at = 1, l.count = 0, l.base = 0, NEW t, t[1] = 0
    PROVE  UnionMakes(p, n, "recv", l, r, t)
<1>1. Offsets(p, n)[1] = 0
  BY UnionMessages DEF IsOffsets
<1>2. 1 \in 1..m /\ \A j \in 1..m : ~(j < 1)
  OBVIOUS
<1>. QED
  BY <1>1, <1>2 DEF UnionMakes

\* It holds the next chunk of the child at which it is.
LEMMA UnionReceives ==
    ASSUME NEW p \in Plans, NEW n, NEW m \in Nat, NEW r \in [1..m -> Nat],
           NEW l, NEW t, UnionMakes(p, n, "recv", l, r, t),
           NEW k, k.at = l.at, k.count = l.count, k.base = l.base,
           k.hold[l.at] = <<Message(p, p.args[n][l.at], r[l.at] + 1)>>
    PROVE  UnionMakes(p, n, "send", k, [r EXCEPT ![l.at] = @ + 1], t)
<1>1. PICK a : a = l.at
  OBVIOUS
<1>2. /\ a \in 1..m /\ l.base = Offsets(p, n)[a] /\ t[1] = l.base + l.count
      /\ l.count = r[a]
      /\ \A j \in 1..m : /\ j < a => r[j] = Size(p, p.args[n][j])
                         /\ j > a => r[j] = 0
  BY <1>1 DEF UnionMakes
<1>3. PICK s : s = [r EXCEPT ![a] = @ + 1]
  OBVIOUS
<1>4. /\ DOMAIN s = 1..m /\ s[a] = r[a] + 1 /\ \A j \in 1..m : j # a => s[j] = r[j]
  BY <1>2, <1>3
<1>5. r[a] \in Nat
  BY <1>2
<1>6. s[a] > 0 /\ s[a] - 1 = r[a]
  <2>1. \A x \in Nat : x + 1 > 0 /\ (x + 1) - 1 = x
    OBVIOUS
  <2>. QED
    BY <1>4, <1>5, <2>1, Zenon
<1>7. \A j \in 1..m : /\ j < a => s[j] = Size(p, p.args[n][j])
                      /\ j > a => s[j] = 0
  BY <1>2, <1>4
<1>8. k.hold[a] = <<Message(p, p.args[n][a], s[a])>>
  BY <1>1, <1>4
<1>9. UnionMakes(p, n, "send", k, s, t)
  BY <1>1, <1>2, <1>4, <1>6, <1>7, <1>8 DEF UnionMakes
<1>. QED
  BY <1>1, <1>3, <1>9

\* A union has taken everything from the child at which it is.
UnionEnded(p, n, m, r, l, t) ==
    /\ p \in Plans /\ n \in 1..Len(p.kind) /\ p.kind[n] = "union"
    /\ m \in Nat \ {0} /\ m = Len(p.args[n]) /\ r \in [1..m -> Nat]
    /\ UnionMakes(p, n, "recv", l, r, t)
    /\ r[l.at] = Size(p, p.args[n][l.at])

\* What it has sent then.
LEMMA UnionAtEnd ==
    ASSUME NEW p, NEW n, NEW m, NEW r, NEW l, NEW t, UnionEnded(p, n, m, r, l, t)
    PROVE  \E g, a :
            /\ g = Offsets(p, n) /\ a = l.at
            /\ a \in 1..m /\ a \in Nat /\ a + 1 \in 1..(m + 1)
            /\ g[a + 1] \in Nat /\ g[m + 1] = Size(p, n)
            /\ l.base + l.count = g[a + 1] /\ t[1] = g[a + 1]
            /\ r[a] = Size(p, p.args[n][a])
            /\ \A j \in 1..m : /\ j < a => r[j] = Size(p, p.args[n][j])
                               /\ j > a => r[j] = 0
<1>1. PICK g : g = Offsets(p, n)
  OBVIOUS
<1>2. PICK a : a = l.at
  OBVIOUS
<1>3. /\ a \in 1..m /\ m \in Nat /\ l.base = Offsets(p, n)[a]
      /\ t[1] = l.base + l.count /\ l.count = r[a]
      /\ r[a] = Size(p, p.args[n][a]) /\ r \in [1..m -> Nat]
      /\ \A j \in 1..m : /\ j < a => r[j] = Size(p, p.args[n][j])
                         /\ j > a => r[j] = 0
  BY <1>2 DEF UnionEnded, UnionMakes
<1>4. /\ g \in [1..(m + 1) -> Nat] /\ g[m + 1] = Size(p, n)
      /\ g[a + 1] = g[a] + Size(p, p.args[n][a])
  BY <1>1, <1>3, UnionMessages DEF IsOffsets, UnionEnded
<1>5. l.base + l.count = g[a + 1] /\ t[1] = g[a + 1]
  BY <1>1, <1>3, <1>4
<1>6. a + 1 \in 1..(m + 1) /\ g[a + 1] \in Nat /\ a \in Nat
  <2>1. a + 1 \in 1..(m + 1) /\ a \in Nat
    BY <1>3
  <2>. QED
    BY <1>4, <2>1
<1>. QED
  BY <1>1, <1>2, <1>3, <1>4, <1>5, <1>6

\* It goes on to the next child.
LEMMA UnionNext ==
    ASSUME NEW p, NEW n, NEW m, NEW r, NEW l, NEW t, UnionEnded(p, n, m, r, l, t),
           l.at < m, NEW k, k.at = l.at + 1, k.base = l.base + l.count, k.count = 0
    PROVE  UnionMakes(p, n, "recv", k, r, t)
<1>1. PICK g, a :
            /\ g = Offsets(p, n) /\ a = l.at
            /\ a \in 1..m /\ a \in Nat /\ a + 1 \in 1..(m + 1)
            /\ g[a + 1] \in Nat
            /\ l.base + l.count = g[a + 1] /\ t[1] = g[a + 1]
            /\ r[a] = Size(p, p.args[n][a])
            /\ \A j \in 1..m : /\ j < a => r[j] = Size(p, p.args[n][j])
                               /\ j > a => r[j] = 0
  BY UnionAtEnd
<1>2. m \in Nat /\ r \in [1..m -> Nat]
  BY DEF UnionEnded
<1>3. a + 1 \in 1..m
  BY <1>1, <1>2
<1>4. k.at = a + 1 /\ k.base = g[a + 1] /\ t[1] = k.base + k.count
  BY <1>1
<1>5. \A j \in 1..m : /\ j < k.at => r[j] = Size(p, p.args[n][j])
                      /\ j > k.at => r[j] = 0
  <2>1. \A j \in 1..m : (j < a + 1 => j < a \/ j = a) /\ (j > a + 1 => j > a)
    BY <1>1
  <2>. QED
    BY <1>1, <1>4, <2>1
<1>6. r[k.at] = 0
  <2>1. a + 1 > a
    BY <1>1
  <2>. QED
    BY <1>1, <1>3, <1>4, <2>1
<1>7. DOMAIN r = 1..m
  BY <1>2
<1>. QED
  BY <1>1, <1>3, <1>5, <1>6, <1>7 DEF UnionMakes

\* Its last child has ended: everything has been sent.
LEMMA UnionAll ==
    ASSUME NEW p, NEW n, NEW m, NEW r, NEW l, NEW t, UnionEnded(p, n, m, r, l, t),
           ~(l.at < m)
    PROVE  t[1] = Size(p, n) /\ \A j \in 1..m : r[j] = Size(p, p.args[n][j])
<1>1. PICK g, a :
            /\ a = l.at /\ a \in 1..m /\ g[m + 1] = Size(p, n) /\ t[1] = g[a + 1]
            /\ r[a] = Size(p, p.args[n][a])
            /\ \A j \in 1..m : j < a => r[j] = Size(p, p.args[n][j])
  BY UnionAtEnd
<1>2. m \in Nat
  BY DEF UnionEnded
<1>3. a = m
  BY <1>1, <1>2
<1>4. \A j \in 1..m : j < m \/ j = m
  BY <1>2
<1>. QED
  BY <1>1, <1>3, <1>4

\* The chunk it passes on is its next one.
LEMMA UnionSends ==
    ASSUME NEW p \in Plans, NEW n \in 1..Len(p.kind), p.kind[n] = "union",
           NEW m \in Nat, m = Len(p.args[n]), NEW r \in [1..m -> Nat],
           \A j \in 1..m : r[j] <= Size(p, p.args[n][j]),
           NEW l, NEW t \in [1..1 -> Nat], UnionMakes(p, n, "send", l, r, t),
           NEW k, k.at = l.at, k.count = l.count + 1, k.base = l.base
    PROVE  /\ t[1] < Size(p, n)
           /\ [seq |-> l.hold[l.at][1].seq + l.base,
               data |-> l.hold[l.at][1].data] = Message(p, n, t[1] + 1)
           /\ UnionMakes(p, n, "recv", k, r, [t EXCEPT ![1] = @ + 1])
<1>1. PICK a : a = l.at
  OBVIOUS
<1>2. /\ a \in 1..m /\ l.base = Offsets(p, n)[a] /\ t[1] = l.base + l.count
      /\ r[a] > 0 /\ l.count = r[a] - 1 /\ r[a] \in Nat
      /\ l.hold[a] = <<Message(p, p.args[n][a], r[a])>>
      /\ \A j \in 1..m : /\ j < a => r[j] = Size(p, p.args[n][j])
                         /\ j > a => r[j] = 0
  BY <1>1 DEF UnionMakes
<1>3. PICK g : g = Offsets(p, n)
  OBVIOUS
<1>4. PICK c : c = p.args[n][a]
  OBVIOUS
<1>5. Size(p, c) \in Nat /\ Size(p, n) \in Nat
  BY <1>2, <1>4, SizeFacts
<1>6. /\ g \in [1..(m + 1) -> Nat]
      /\ g[a + 1] = g[a] + Size(p, c) /\ g[a + 1] <= Size(p, n)
      /\ \A i \in 1..Size(p, c) : Values(p)[n][g[a] + i] = Values(p)[c][i]
  BY <1>2, <1>3, <1>4, UnionMessages DEF IsOffsets
<1>7. g[a] \in Nat
  <2>1. a \in 1..(m + 1)
    BY <1>2
  <2>. QED
    BY <1>6, <2>1
<1>8. r[a] \in 1..Size(p, c)
  BY <1>2, <1>4, <1>5
<1>9. l.base = g[a] /\ t[1] + 1 = g[a] + r[a] /\ t[1] = (r[a] - 1) + g[a]
  <2>1. PICK x : x = r[a]
    OBVIOUS
  <2>2. x \in Nat /\ l.count = x - 1 /\ l.base = g[a] /\ t[1] = g[a] + (x - 1)
    BY <1>2, <1>3, <2>1
  <2>3. t[1] + 1 = g[a] + x /\ t[1] = (x - 1) + g[a]
    BY <1>7, <2>2
  <2>. QED
    BY <2>1, <2>2, <2>3
<1>10. t[1] \in Nat
  OBVIOUS
<1>11. t[1] < Size(p, n)
  <2>1. g[a] + r[a] <= Size(p, n)
    BY <1>5, <1>6, <1>7, <1>8
  <2>. QED
    BY <1>5, <1>9, <1>10, <2>1
<1>12. [seq |-> l.hold[l.at][1].seq + l.base, data |-> l.hold[l.at][1].data] =
            Message(p, n, t[1] + 1)
  <2>1. l.hold[a][1] = Message(p, c, r[a])
    BY <1>2, <1>4
  <2>2. l.hold[a][1].seq = r[a] - 1 /\ l.hold[a][1].data = Values(p)[c][r[a]]
    BY <2>1 DEF Message
  <2>3. Values(p)[n][t[1] + 1] = Values(p)[c][r[a]]
    BY <1>6, <1>8, <1>9
  <2>4. l.hold[a][1].seq + l.base = t[1]
    BY <1>9, <2>2
  <2>5. (t[1] + 1) - 1 = t[1]
    BY <1>10
  <2>. QED
    BY <1>1, <2>2, <2>3, <2>4, <2>5 DEF Message
<1>13. [t EXCEPT ![1] = @ + 1][1] = t[1] + 1
  OBVIOUS
<1>14. k.count = r[a] /\ t[1] + 1 = k.base + k.count
  <2>1. PICK x : x = r[a]
    OBVIOUS
  <2>2. x \in Nat /\ l.count = x - 1
    BY <1>2, <2>1
  <2>3. k.count = x
    BY <2>2
  <2>. QED
    BY <1>9, <2>1, <2>3
<1>15. UnionMakes(p, n, "recv", k, r, [t EXCEPT ![1] = @ + 1])
  BY <1>1, <1>2, <1>13, <1>14 DEF UnionMakes
<1>. QED
  BY <1>11, <1>12, <1>15

\* A bounded fanout sends every chunk to all its outputs before the next one.
LEMMA BoundedReceives ==
    ASSUME NEW p, NEW n, NEW m \in Nat \ {0}, NEW r \in [1..1 -> Nat],
           NEW t \in [1..m -> Nat], NEW l, BoundedMakes(p, n, "recv", l, r, t),
           NEW k, k.at = 1, k.hold[1] = <<Message(p, n, r[1] + 1)>>
    PROVE  BoundedMakes(p, n, "send", k, [r EXCEPT ![1] = @ + 1], t)
<1>1. r[1] \in Nat /\ [r EXCEPT ![1] = @ + 1][1] = r[1] + 1
  OBVIOUS
<1>2. \A i \in 1..m : t[i] = r[1]
  BY DEF BoundedMakes
<1>3. /\ r[1] + 1 > 0 /\ (r[1] + 1) - 1 = r[1] /\ 1 \in 1..m
      /\ \A i \in 1..m : ~(i < 1)
  BY <1>1
<1>. QED
  BY <1>1, <1>2, <1>3 DEF BoundedMakes

\* The chunk it sends is the next one of that output.
LEMMA BoundedSends ==
    ASSUME NEW p, NEW n, Size(p, n) \in Nat, NEW m \in Nat,
           NEW r \in [1..1 -> Nat], r[1] <= Size(p, n),
           NEW t \in [1..m -> Nat], NEW l, BoundedMakes(p, n, "send", l, r, t)
    PROVE  /\ l.at \in 1..m /\ t[l.at] < Size(p, n)
           /\ l.at < m =>
                \A k : k.at = l.at + 1 /\ k.hold = l.hold =>
                    BoundedMakes(p, n, "send", k, r, [t EXCEPT ![l.at] = @ + 1])
           /\ ~(l.at < m) =>
                BoundedMakes(p, n, "recv", l, r, [t EXCEPT ![l.at] = @ + 1])
<1>1. PICK a : a = l.at
  OBVIOUS
<1>2. /\ r[1] > 0 /\ r[1] \in Nat /\ a \in 1..m
      /\ l.hold[1] = <<Message(p, n, r[1])>>
      /\ \A i \in 1..m : t[i] = IF i < a THEN r[1] ELSE r[1] - 1
  BY <1>1 DEF BoundedMakes
<1>3. t[a] + 1 = r[1] /\ t[a] < Size(p, n)
  <2>1. t[a] = r[1] - 1
    BY <1>2
  <2>2. PICK y : y = r[1]
    OBVIOUS
  <2>3. y \in Nat /\ y > 0 /\ y <= Size(p, n) /\ t[a] = y - 1
    BY <1>2, <2>1, <2>2
  <2>4. t[a] + 1 = y /\ t[a] < Size(p, n)
    BY <2>3
  <2>. QED
    BY <2>2, <2>4
<1>5. PICK s : s = [t EXCEPT ![a] = @ + 1]
  OBVIOUS
<1>6. /\ DOMAIN s = 1..m /\ s[a] = r[1]
      /\ \A i \in 1..m : i # a => s[i] = IF i < a THEN r[1] ELSE r[1] - 1
  BY <1>2, <1>3, <1>5
<1>7. \A i \in 1..m : s[i] = IF i < a + 1 THEN r[1] ELSE r[1] - 1
  BY <1>2, <1>6
<1>8. CASE a < m
  <2>1. a + 1 \in 1..m
    BY <1>2, <1>8
  <2>2. ASSUME NEW k, k.at = l.at + 1, k.hold = l.hold
        PROVE  BoundedMakes(p, n, "send", k, r, s)
    <3>1. k.at = a + 1
      BY <1>1, <2>2
    <3>. QED
      BY <1>2, <1>6, <1>7, <2>1, <2>2, <3>1 DEF BoundedMakes
  <2>. QED
    BY <1>1, <1>2, <1>3, <1>5, <1>8, <2>2
<1>9. CASE ~(a < m)
  <2>1. \A i \in 1..m : i < a + 1
    BY <1>2, <1>9
  <2>2. BoundedMakes(p, n, "recv", l, r, s)
    BY <1>6, <1>7, <2>1 DEF BoundedMakes
  <2>. QED
    BY <1>1, <1>2, <1>3, <1>5, <1>9, <2>2
<1>. QED
  BY <1>8, <1>9

-----------------------------------------------------------------------------
(* The unbounded fanout *)

\* The chunk that has been received last is added to a buffer.
LEMMA BufferedMore ==
    ASSUME NEW p, NEW n, NEW q, NEW u \in Nat, NEW e \in Nat, e > 0,
           Buffered(p, n, q, u, e - 1)
    PROVE  /\ Buffered(p, n, q \o <<Message(p, n, e)>>, u, e)
           /\ q \o <<Message(p, n, e)>> # <<>>
<1>1. /\ IsSequence(q) /\ u + Len(q) = e - 1 /\ Len(q) \in Nat
      /\ DOMAIN q = 1..Len(q)
      /\ \A i \in DOMAIN q : q[i] = Message(p, n, u + i)
  BY ShortSequences DEF Buffered
<1>2. PICK m : m = Message(p, n, e)
  OBVIOUS
<1>3. PICK b : b = q \o <<m>>
  OBVIOUS
<1>4. /\ IsSequence(b) /\ Len(b) = Len(q) + 1
      /\ \A i \in 1..Len(q) : b[i] = q[i]
      /\ b[Len(q) + 1] = m
  <2>1. IsSequence(<<m>>) /\ Len(<<m>>) = 1 /\ <<m>>[1] = m /\ 1 \in 1..Len(<<m>>)
    BY ShortSequences
  <2>2. PICK o : o = <<m>>
    OBVIOUS
  <2>3. /\ IsSequence(q \o o) /\ Len(q \o o) = Len(q) + Len(o)
        /\ \A i \in 1..Len(q) : (q \o o)[i] = q[i]
        /\ \A i \in 1..Len(o) : (q \o o)[Len(q) + i] = o[i]
    BY <1>1, <2>1, <2>2, JoinFacts
  <2>4. b = q \o o /\ Len(o) = 1 /\ o[1] = m /\ 1 \in 1..Len(o)
    BY <1>3, <2>1, <2>2
  <2>. QED
    BY <2>3, <2>4
<1>5. DOMAIN b = 1..(Len(q) + 1) /\ b # <<>>
  BY <1>1, <1>4, ShortSequences
<1>6. ASSUME NEW i \in DOMAIN b PROVE b[i] = Message(p, n, u + i)
  <2>1. CASE i \in 1..Len(q)
    BY <1>1, <1>4, <2>1
  <2>2. CASE i = Len(q) + 1
    <3>1. u + i = e
      BY <1>1, <2>2
    <3>. QED
      BY <1>2, <1>4, <2>2, <3>1
  <2>. QED
    BY <1>1, <1>5, <2>1, <2>2
<1>7. Buffered(p, n, b, u, e)
  <2>1. u + Len(b) = e
    BY <1>1, <1>4
  <2>. QED
    BY <1>4, <1>6, <2>1 DEF Buffered
<1>. QED
  BY <1>2, <1>3, <1>5, <1>7

\* What is buffered for an output, as chunks are sent.
LEMMA BufferedFacts ==
    ASSUME NEW p, NEW n, NEW q, NEW u \in Nat, NEW e \in Nat,
           Buffered(p, n, q, u, e)
    PROVE  /\ q = <<>> => u = e
           /\ q # <<>> => /\ Head(q) = Message(p, n, u + 1) /\ u < e
                          /\ Buffered(p, n, Tail(q), u + 1, e)
<1>1. /\ IsSequence(q) /\ u + Len(q) = e /\ Len(q) \in Nat
      /\ DOMAIN q = 1..Len(q)
      /\ \A i \in DOMAIN q : q[i] = Message(p, n, u + i)
  BY ShortSequences DEF Buffered
<1>8. q = <<>> => u = e
  BY <1>1, ShortSequences
<1>9. ASSUME q # <<>>
      PROVE  /\ Head(q) = Message(p, n, u + 1) /\ u < e
             /\ Buffered(p, n, Tail(q), u + 1, e)
  <2>1. q \in Seq(Range(q))
    BY <1>1 DEF IsSequence
  <2>2. Len(q) # 0
    BY <1>1, <1>9, ShortSequences
  <2>3. 1 \in DOMAIN q /\ Head(q) = q[1]
    BY <1>1, <2>1, <2>2
  <2>4. Head(q) = Message(p, n, u + 1) /\ u < e
    BY <1>1, <2>2, <2>3
  <2>5. IsSequence(Tail(q)) /\ Len(Tail(q)) = Len(q) - 1
    BY <1>1, <1>9, TailIsSequence
  <2>6. \A i \in DOMAIN Tail(q) : /\ i \in Nat /\ i + 1 \in DOMAIN q
                                  /\ Tail(q)[i] = q[i + 1]
    <3>1. PICK S : S = Range(q)
      OBVIOUS
    <3>2. q \in Seq(S)
      BY <2>1, <3>1
    <3>. QED
      BY <1>9, <3>2, TailFacts
  <2>7. ASSUME NEW i \in DOMAIN Tail(q)
        PROVE  Tail(q)[i] = Message(p, n, (u + 1) + i)
    <3>1. i \in Nat /\ i + 1 \in DOMAIN q /\ Tail(q)[i] = q[i + 1]
      BY <2>6
    <3>2. q[i + 1] = Message(p, n, u + (i + 1))
      BY <1>1, <3>1
    <3>3. u + (i + 1) = (u + 1) + i
      BY <3>1
    <3>. QED
      BY <3>1, <3>2, <3>3
  <2>8. (u + 1) + Len(Tail(q)) = e
    <3>1. (u + 1) + (Len(q) - 1) = u + Len(q)
      BY <1>1, Passed
    <3>. QED
      BY <1>1, <2>5, <3>1, Zenon
  <2>. QED
    BY <2>4, <2>5, <2>7, <2>8 DEF Buffered
<1>. QED
  BY <1>8, <1>9

\* A fanout starts with nothing.
LEMMA FanoutStarts ==
    ASSUME NEW p, NEW n, NEW m \in Nat, NEW r, r[1] = 0, NEW t, DOMAIN t = 1..m,
           \A k \in 1..m : t[k] = 0, NEW closed
    PROVE  InStep(p, n, InitFanout(m), r, t, closed)
<1>1. PICK f : f = InitFanout(m)
  OBVIOUS
<1>2. /\ f = [recv |-> "wait", prefetched |-> <<>>, canReceive |-> TRUE,
              needsDrain |-> {}, task |-> [k \in 1..m |-> "none"],
              buffer |-> [k \in 1..m |-> <<>>]]
      /\ f.recv = "wait" /\ f.prefetched = <<>> /\ f.canReceive = TRUE
      /\ f.needsDrain = {} /\ f.task = [k \in 1..m |-> "none"]
      /\ f.buffer = [k \in 1..m |-> <<>>]
  BY <1>1 DEF InitFanout
<1>3. \A k \in 1..m : f.task[k] = "none" /\ f.buffer[k] = <<>>
  BY <1>2
<1>4. Buffered(p, n, <<>>, 0, 0)
  BY ShortSequences DEF Buffered
<1>5. FanoutShape(f, 1..m)
  BY <1>2 DEF FanoutShape
<1>6. FanoutInput(p, n, f, 0)
  BY <1>2 DEF FanoutInput
<1>7. \A k \in 1..m : FanoutOutput(p, n, f, 0, k, 0, k \in closed)
  BY <1>2, <1>3, <1>4 DEF FanoutOutput
<1>8. InStep(p, n, f, r, t, closed)
  BY <1>5, <1>6, <1>7 DEF InStep
<1>. QED
  BY <1>1, <1>8

\* It receives a chunk ahead of the main loop.
LEMMA FanoutReceives ==
    ASSUME NEW p, NEW n, NEW f, NEW m \in Nat, NEW r \in [1..1 -> Nat],
           NEW t \in [1..m -> Nat], NEW closed, InStep(p, n, f, r, t, closed),
           f.recv = "wait",
           NEW g, g = [f EXCEPT !.recv = "msg",
                                !.prefetched = <<Message(p, n, r[1] + 1)>>]
    PROVE  InStep(p, n, g, [r EXCEPT ![1] = @ + 1], t, closed)
<1>0. PICK e : e = r[1]
  OBVIOUS
<1>1. /\ DOMAIN t = 1..m /\ e \in Nat /\ [r EXCEPT ![1] = @ + 1][1] = e + 1
      /\ (e + 1) - 1 = e /\ e + 1 > 0
  BY <1>0
<1>2. /\ FanoutShape(f, 1..m) /\ FanoutInput(p, n, f, e)
      /\ \A k \in 1..m : FanoutOutput(p, n, f, e, k, t[k], k \in closed)
  BY <1>0, <1>1 DEF InStep
<1>3. /\ g = [recv |-> "msg", prefetched |-> <<Message(p, n, e + 1)>>,
              canReceive |-> f.canReceive, needsDrain |-> f.needsDrain,
              task |-> f.task, buffer |-> f.buffer]
      /\ g.recv = "msg" /\ g.prefetched = <<Message(p, n, e + 1)>>
      /\ g.canReceive = f.canReceive /\ g.needsDrain = f.needsDrain
      /\ g.task = f.task /\ g.buffer = f.buffer
  BY <1>0, <1>2 DEF FanoutShape
<1>4. FanoutShape(g, 1..m)
  BY <1>2, <1>3 DEF FanoutShape
<1>5. FanoutInput(p, n, g, e + 1)
  BY <1>1, <1>2, <1>3 DEF FanoutInput
<1>6. \A k \in 1..m : FanoutOutput(p, n, g, e + 1, k, t[k], k \in closed)
  BY <1>1, <1>2, <1>3 DEF FanoutOutput
<1>. QED
  BY <1>1, <1>4, <1>5, <1>6 DEF InStep

\* Its input has ended.
LEMMA FanoutEnds ==
    ASSUME NEW p, NEW n, NEW f, NEW m \in Nat, NEW r \in [1..1 -> Nat],
           NEW t \in [1..m -> Nat], NEW closed, InStep(p, n, f, r, t, closed),
           f.recv = "wait", r[1] = Size(p, n), NEW g, g = [f EXCEPT !.recv = "eof"]
    PROVE  InStep(p, n, g, r, t, closed)
<1>0. PICK e : e = r[1]
  OBVIOUS
<1>1. DOMAIN t = 1..m
  OBVIOUS
<1>2. /\ FanoutShape(f, 1..m) /\ FanoutInput(p, n, f, e)
      /\ \A k \in 1..m : FanoutOutput(p, n, f, e, k, t[k], k \in closed)
  BY <1>0, <1>1 DEF InStep
<1>3. /\ g = [recv |-> "eof", prefetched |-> f.prefetched,
              canReceive |-> f.canReceive, needsDrain |-> f.needsDrain,
              task |-> f.task, buffer |-> f.buffer]
      /\ g.recv = "eof" /\ g.prefetched = f.prefetched
      /\ g.canReceive = f.canReceive /\ g.needsDrain = f.needsDrain
      /\ g.task = f.task /\ g.buffer = f.buffer
  BY <1>2 DEF FanoutShape
<1>4. FanoutShape(g, 1..m)
  BY <1>2, <1>3 DEF FanoutShape
<1>5. FanoutInput(p, n, g, e)
  BY <1>0, <1>2, <1>3 DEF FanoutInput
<1>6. \A k \in 1..m : FanoutOutput(p, n, g, e, k, t[k], k \in closed)
  BY <1>2, <1>3 DEF FanoutOutput
<1>. QED
  BY <1>0, <1>1, <1>4, <1>5, <1>6 DEF InStep

\* Chunk m of node n is the one after x chunks.
IsNext(p, n, x, m) == m = Message(p, n, x + 1)

\* Node n has x chunks.
AreAll(p, n, x) == x = Size(p, n)

\* A send task of an output takes its next chunk from the buffer.
LEMMA FanoutSends ==
    ASSUME NEW p, NEW n, NEW f, NEW m \in Nat, NEW r \in [1..1 -> Nat],
           NEW t \in [1..m -> Nat], NEW closed, InStep(p, n, f, r, t, closed),
           Size(p, n) \in Nat, r[1] <= Size(p, n),
           NEW k \in 1..m, f.task[k] = "send",
           NEW g, g = [f EXCEPT !.task[k] = "done", !.buffer[k] = Tail(@)],
           NEW o, o = Head(f.buffer[k])
    PROVE  /\ t[k] < Size(p, n) /\ IsNext(p, n, t[k], o)
           /\ InStep(p, n, g, r, [t EXCEPT ![k] = @ + 1], closed)
<1>0. PICK e : e = r[1]
  OBVIOUS
<1>1. DOMAIN t = 1..m /\ e \in Nat /\ e <= Size(p, n)
  BY <1>0
<1>2. /\ FanoutShape(f, 1..m) /\ FanoutInput(p, n, f, e)
      /\ \A i \in 1..m : FanoutOutput(p, n, f, e, i, t[i], i \in closed)
  BY <1>0, <1>1 DEF InStep
<1>3. PICK u : u = t[k]
  OBVIOUS
<1>4. u \in Nat /\ FanoutOutput(p, n, f, e, k, u, k \in closed)
  BY <1>2, <1>3
<1>5. PICK z \in Nat : /\ f.recv = "msg" => z = e - 1
                       /\ f.recv # "msg" => z = e
  <2>1. f.recv = "msg" => e - 1 \in Nat
    BY <1>1, <1>2 DEF FanoutInput
  <2>. QED
    BY <1>1, <2>1
<1>6. Buffered(p, n, f.buffer[k], u, z) /\ f.buffer[k] # <<>>
  BY <1>4, <1>5 DEF FanoutOutput
<1>7. /\ Head(f.buffer[k]) = Message(p, n, u + 1) /\ u < z
      /\ Buffered(p, n, Tail(f.buffer[k]), u + 1, z)
  BY <1>4, <1>6, BufferedFacts
<1>8. u < Size(p, n)
  <2>1. z <= e
    BY <1>1, <1>5
  <2>. QED
    BY <1>1, <1>4, <1>7, <2>1
<1>9. /\ g = [recv |-> f.recv, prefetched |-> f.prefetched,
              canReceive |-> f.canReceive, needsDrain |-> f.needsDrain,
              task |-> [f.task EXCEPT ![k] = "done"],
              buffer |-> [f.buffer EXCEPT ![k] = Tail(@)]]
      /\ g.recv = f.recv /\ g.prefetched = f.prefetched
      /\ g.canReceive = f.canReceive /\ g.needsDrain = f.needsDrain
      /\ g.task = [f.task EXCEPT ![k] = "done"]
      /\ g.buffer = [f.buffer EXCEPT ![k] = Tail(@)]
  BY <1>2 DEF FanoutShape
<1>10. /\ g.task[k] = "done" /\ g.buffer[k] = Tail(f.buffer[k])
       /\ \A i \in 1..m : i # k => /\ g.task[i] = f.task[i]
                                   /\ g.buffer[i] = f.buffer[i]
       /\ g.task = [i \in 1..m |-> g.task[i]]
       /\ g.buffer = [i \in 1..m |-> g.buffer[i]]
  BY <1>2, <1>9 DEF FanoutShape
<1>11. FanoutShape(g, 1..m)
  BY <1>2, <1>9, <1>10 DEF FanoutShape
<1>12. FanoutInput(p, n, g, e)
  BY <1>2, <1>9 DEF FanoutInput
<1>13. FanoutOutput(p, n, g, e, k, u + 1, k \in closed)
  BY <1>4, <1>5, <1>7, <1>9, <1>10 DEF FanoutOutput
<1>14. \A i \in 1..m : i # k =>
            FanoutOutput(p, n, g, e, i, t[i], i \in closed)
  BY <1>2, <1>9, <1>10 DEF FanoutOutput
<1>15. PICK s : s = [t EXCEPT ![k] = @ + 1]
  OBVIOUS
<1>16. DOMAIN s = 1..m /\ s[k] = u + 1 /\ \A i \in 1..m : i # k => s[i] = t[i]
  BY <1>3, <1>15
<1>17. \A i \in 1..m : FanoutOutput(p, n, g, e, i, s[i], i \in closed)
  BY <1>13, <1>14, <1>16
<1>18. InStep(p, n, g, r, s, closed)
  BY <1>0, <1>11, <1>12, <1>16, <1>17 DEF InStep
<1>. QED
  BY <1>3, <1>7, <1>8, <1>15, <1>18 DEF IsNext

\* A drain task shuts an output on which everything has been sent.
LEMMA FanoutDrains ==
    ASSUME NEW p, NEW n, NEW f, NEW m \in Nat, NEW r \in [1..1 -> Nat],
           NEW t \in [1..m -> Nat], NEW closed, InStep(p, n, f, r, t, closed),
           NEW k \in 1..m, f.task[k] = "drain",
           NEW g, g = [f EXCEPT !.task[k] = "done"]
    PROVE  /\ AreAll(p, n, t[k])
           /\ InStep(p, n, g, r, t, closed \cup {k})
<1>0. PICK e : e = r[1]
  OBVIOUS
<1>1. DOMAIN t = 1..m /\ e \in Nat
  BY <1>0
<1>2. /\ FanoutShape(f, 1..m) /\ FanoutInput(p, n, f, e)
      /\ \A i \in 1..m : FanoutOutput(p, n, f, e, i, t[i], i \in closed)
  BY <1>0, <1>1 DEF InStep
<1>3. PICK u : u = t[k]
  OBVIOUS
<1>4. u \in Nat /\ FanoutOutput(p, n, f, e, k, u, k \in closed)
  BY <1>2, <1>3
<1>5. f.recv = "none" /\ f.buffer[k] = <<>> /\ Buffered(p, n, f.buffer[k], u, e)
  BY <1>4 DEF FanoutOutput
<1>6. u = Size(p, n)
  <2>1. u = e
    BY <1>1, <1>4, <1>5, ShortSequences DEF Buffered
  <2>2. e = Size(p, n)
    BY <1>2, <1>5 DEF FanoutInput
  <2>. QED
    BY <2>1, <2>2
<1>9. /\ g = [recv |-> f.recv, prefetched |-> f.prefetched,
              canReceive |-> f.canReceive, needsDrain |-> f.needsDrain,
              task |-> [f.task EXCEPT ![k] = "done"],
              buffer |-> f.buffer]
      /\ g.recv = f.recv /\ g.prefetched = f.prefetched
      /\ g.canReceive = f.canReceive /\ g.needsDrain = f.needsDrain
      /\ g.task = [f.task EXCEPT ![k] = "done"]
      /\ g.buffer = f.buffer
  BY <1>2 DEF FanoutShape
<1>10. /\ g.task[k] = "done"
       /\ \A i \in 1..m : i # k => g.task[i] = f.task[i]
       /\ g.task = [i \in 1..m |-> g.task[i]]
  BY <1>2, <1>9 DEF FanoutShape
<1>11. FanoutShape(g, 1..m)
  BY <1>2, <1>9, <1>10 DEF FanoutShape
<1>12. FanoutInput(p, n, g, e)
  BY <1>2, <1>9 DEF FanoutInput
<1>13. FanoutOutput(p, n, g, e, k, u, TRUE)
  BY <1>4, <1>5, <1>9, <1>10 DEF FanoutOutput
<1>14. \A i \in 1..m : i # k =>
            FanoutOutput(p, n, g, e, i, t[i], i \in closed)
  BY <1>2, <1>9, <1>10 DEF FanoutOutput
<1>15. \A i \in 1..m : FanoutOutput(p, n, g, e, i, t[i], i \in closed \cup {k})
  <2>1. (k \in closed \cup {k}) = TRUE
    OBVIOUS
  <2>2. \A i \in 1..m : i # k => (i \in closed \cup {k}) = (i \in closed)
    OBVIOUS
  <2>3. FanoutOutput(p, n, g, e, k, t[k], k \in closed \cup {k})
    BY <1>3, <1>13, <2>1
  <2>4. ASSUME NEW i \in 1..m, i # k
        PROVE  FanoutOutput(p, n, g, e, i, t[i], i \in closed \cup {k})
    BY <1>14, <2>2, <2>4
  <2>. QED
    BY <2>3, <2>4, Zenon
<1>16. InStep(p, n, g, r, t, closed \cup {k})
  BY <1>0, <1>1, <1>11, <1>12, <1>15 DEF InStep
<1>. QED
  BY <1>3, <1>6, <1>16 DEF AreAll

\* A round of the main loop hands a received chunk to all outputs, or notes
\* that the outputs have to be drained.
LEMMA FanoutHandles ==
    ASSUME NEW p, NEW n, NEW f, NEW m \in Nat, NEW r \in [1..1 -> Nat],
           NEW t \in [1..m -> Nat], NEW closed, InStep(p, n, f, r, t, closed),
           NEW receiving \in BOOLEAN, NEW can,
           NEW g, g = HandleDone(f, receiving, can)
    PROVE  InStep(p, n, g, r, t, closed)
<1>0. PICK e : e = r[1]
  OBVIOUS
<1>1. DOMAIN t = 1..m /\ e \in Nat
  BY <1>0
<1>2. /\ FanoutShape(f, 1..m) /\ FanoutInput(p, n, f, e)
      /\ \A i \in 1..m : FanoutOutput(p, n, f, e, i, t[i], i \in closed)
  BY <1>0, <1>1 DEF InStep
<1>3. /\ f = [recv |-> f.recv, prefetched |-> f.prefetched,
              canReceive |-> f.canReceive, needsDrain |-> f.needsDrain,
              task |-> f.task, buffer |-> f.buffer]
      /\ DOMAIN f.task = 1..m /\ DOMAIN f.buffer = 1..m
  BY <1>2 DEF FanoutShape
<1>4. PICK got \in BOOLEAN : got = (receiving /\ f.recv = "msg")
  OBVIOUS
<1>5. PICK eof \in BOOLEAN : eof = (receiving /\ f.recv = "eof")
  OBVIOUS
<1>6. /\ g = [recv |-> g.recv, prefetched |-> g.prefetched,
              canReceive |-> g.canReceive, needsDrain |-> g.needsDrain,
              task |-> g.task, buffer |-> g.buffer]
      /\ g.recv = (IF got THEN "wait" ELSE IF eof THEN "none" ELSE f.recv)
      /\ g.prefetched = (IF got THEN <<>> ELSE f.prefetched)
      /\ g.needsDrain = (IF eof THEN 1..m ELSE f.needsDrain)
      /\ g.buffer = [k \in 1..m |-> IF got THEN f.buffer[k] \o f.prefetched
                                    ELSE f.buffer[k]]
      /\ g.task = [k \in 1..m |-> IF f.task[k] = "done" THEN "none"
                                  ELSE f.task[k]]
  BY <1>3, <1>4, <1>5 DEF HandleDone
<1>7. \A k \in 1..m :
        /\ g.buffer[k] = IF got THEN f.buffer[k] \o f.prefetched ELSE f.buffer[k]
        /\ g.task[k] = IF f.task[k] = "done" THEN "none" ELSE f.task[k]
  BY <1>6
<1>8. /\ got => f.recv = "msg" /\ ~eof
      /\ eof => f.recv = "eof"
      /\ f.recv \in {"wait", "msg", "eof", "none"}
  BY <1>2, <1>4, <1>5 DEF FanoutShape
<1>9. FanoutShape(g, 1..m)
  <2>1. /\ g.task = [k \in 1..m |-> g.task[k]]
        /\ g.buffer = [k \in 1..m |-> g.buffer[k]]
    BY <1>6
  <2>2. g.recv \in {"wait", "msg", "eof", "none"} /\ g.needsDrain \subseteq 1..m
    BY <1>2, <1>6, <1>8 DEF FanoutShape
  <2>. QED
    BY <1>6, <2>1, <2>2 DEF FanoutShape
<1>10. FanoutInput(p, n, g, e)
  <2>1. CASE got
    BY <1>2, <1>6, <1>8, <2>1 DEF FanoutInput
  <2>2. CASE eof
    BY <1>2, <1>6, <1>8, <2>2 DEF FanoutInput
  <2>3. CASE ~got /\ ~eof
    BY <1>2, <1>6, <2>3 DEF FanoutInput
  <2>. QED
    BY <2>1, <2>2, <2>3
<1>11. ASSUME NEW k \in 1..m
       PROVE  FanoutOutput(p, n, g, e, k, t[k], k \in closed)
  <2>0. PICK u : u = t[k]
    OBVIOUS
  <2>1. u \in Nat /\ FanoutOutput(p, n, f, e, k, u, k \in closed)
    BY <1>2, <2>0
  <2>2. CASE got
    <3>1. /\ e > 0 /\ f.prefetched = <<Message(p, n, e)>> /\ f.recv = "msg"
          /\ g.recv = "wait" /\ g.buffer[k] = f.buffer[k] \o f.prefetched
      BY <1>2, <1>6, <1>7, <1>8, <2>2 DEF FanoutInput
    <3>2. Buffered(p, n, f.buffer[k], u, e - 1)
      BY <2>1, <3>1 DEF FanoutOutput
    <3>3. \A q : Buffered(p, n, q, u, e - 1) =>
                    /\ Buffered(p, n, q \o <<Message(p, n, e)>>, u, e)
                    /\ q \o <<Message(p, n, e)>> # <<>>
      BY <1>1, <2>1, <3>1, BufferedMore
    <3>6. Buffered(p, n, g.buffer[k], u, e) /\ g.buffer[k] # <<>>
      BY <3>1, <3>2, <3>3
    <3>7. g.task[k] \in {"none", "send"}
      BY <1>7, <2>1, <3>1 DEF FanoutOutput
    <3>8. FanoutOutput(p, n, g, e, k, u, k \in closed)
      BY <3>1, <3>6, <3>7 DEF FanoutOutput
    <3>. QED
      BY <2>0, <3>8
  <2>3. CASE eof
    <3>1. /\ f.recv = "eof" /\ g.recv = "none" /\ g.buffer[k] = f.buffer[k]
          /\ k \in g.needsDrain
      BY <1>6, <1>7, <1>8, <2>3
    <3>2. Buffered(p, n, g.buffer[k], u, e)
      BY <2>1, <3>1 DEF FanoutOutput
    <3>3. /\ g.task[k] \in {"none", "send"}
          /\ g.task[k] = "send" => g.buffer[k] # <<>>
      BY <1>7, <2>1, <3>1 DEF FanoutOutput
    <3>4. FanoutOutput(p, n, g, e, k, u, k \in closed)
      BY <3>1, <3>2, <3>3 DEF FanoutOutput
    <3>. QED
      BY <2>0, <3>4
  <2>4. CASE ~got /\ ~eof
    <3>1. /\ g.recv = f.recv /\ g.buffer[k] = f.buffer[k]
          /\ g.needsDrain = f.needsDrain
          /\ g.task[k] = IF f.task[k] = "done" THEN "none" ELSE f.task[k]
      BY <1>6, <1>7, <2>4
    <3>2. FanoutOutput(p, n, g, e, k, u, k \in closed)
      BY <2>1, <3>1 DEF FanoutOutput
    <3>. QED
      BY <2>0, <3>2
  <2>. QED
    BY <2>2, <2>3, <2>4
<1>. QED
  BY <1>0, <1>1, <1>9, <1>10, <1>11 DEF InStep

\* It starts a send for every output with a chunk, and drains an output that
\* has nothing left.
LEMMA FanoutGoesOn ==
    ASSUME NEW p, NEW n, NEW f, NEW m \in Nat, NEW r \in [1..1 -> Nat],
           NEW t \in [1..m -> Nat], NEW closed, InStep(p, n, f, r, t, closed),
           NEW g, g = StartTasks(f)
    PROVE  InStep(p, n, g, r, t, closed)
<1>0. PICK e : e = r[1]
  OBVIOUS
<1>1. DOMAIN t = 1..m /\ e \in Nat
  BY <1>0
<1>2. /\ FanoutShape(f, 1..m) /\ FanoutInput(p, n, f, e)
      /\ \A i \in 1..m : FanoutOutput(p, n, f, e, i, t[i], i \in closed)
  BY <1>0, <1>1 DEF InStep
<1>3. /\ f = [recv |-> f.recv, prefetched |-> f.prefetched,
              canReceive |-> f.canReceive, needsDrain |-> f.needsDrain,
              task |-> f.task, buffer |-> f.buffer]
      /\ DOMAIN f.task = 1..m
  BY <1>2 DEF FanoutShape
<1>4. PICK sends : sends = {k \in {i \in 1..m : f.task[i] = "none"} :
                                f.buffer[k] # <<>>}
  OBVIOUS
<1>5. PICK drains : drains = ({i \in 1..m : f.task[i] = "none"} \ sends)
                                \cap f.needsDrain
  OBVIOUS
<1>6. /\ g = [recv |-> g.recv, prefetched |-> g.prefetched,
              canReceive |-> g.canReceive, needsDrain |-> g.needsDrain,
              task |-> g.task, buffer |-> g.buffer]
      /\ g.recv = f.recv /\ g.prefetched = f.prefetched
      /\ g.buffer = f.buffer /\ g.needsDrain = f.needsDrain \ drains
      /\ g.task = [k \in 1..m |-> IF k \in sends THEN "send"
                                  ELSE IF k \in drains THEN "drain"
                                  ELSE f.task[k]]
  BY <1>3, <1>4, <1>5 DEF StartTasks
<1>7. \A k \in 1..m : g.task[k] = IF k \in sends THEN "send"
                                  ELSE IF k \in drains THEN "drain"
                                  ELSE f.task[k]
  BY <1>6
<1>8. \A k \in 1..m : /\ k \in sends => f.buffer[k] # <<>> /\ f.task[k] = "none"
                      /\ k \in drains => /\ f.buffer[k] = <<>>
                                         /\ k \in f.needsDrain
                                         /\ f.task[k] = "none"
  BY <1>4, <1>5
<1>9. FanoutShape(g, 1..m)
  <2>1. g.task = [k \in 1..m |-> g.task[k]]
    BY <1>6
  <2>2. g.buffer = [k \in 1..m |-> g.buffer[k]]
    BY <1>2, <1>6 DEF FanoutShape
  <2>3. g.recv \in {"wait", "msg", "eof", "none"} /\ g.needsDrain \subseteq 1..m
    BY <1>2, <1>6 DEF FanoutShape
  <2>. QED
    BY <1>6, <2>1, <2>2, <2>3 DEF FanoutShape
<1>10. FanoutInput(p, n, g, e)
  BY <1>2, <1>6 DEF FanoutInput
<1>11. ASSUME NEW k \in 1..m
       PROVE  FanoutOutput(p, n, g, e, k, t[k], k \in closed)
  <2>1. FanoutOutput(p, n, f, e, k, t[k], k \in closed)
    BY <1>2
  <2>2. g.recv = f.recv /\ g.buffer[k] = f.buffer[k]
    BY <1>6
  <2>3. CASE k \in sends
    <3>1. g.task[k] = "send" /\ f.buffer[k] # <<>> /\ k \notin drains
      BY <1>5, <1>7, <1>8, <2>3
    <3>2. k \in f.needsDrain => k \in g.needsDrain
      BY <1>6, <3>1
    <3>3. f.task[k] = "none"
      BY <1>8, <2>3
    <3>. QED
      BY <2>1, <2>2, <3>1, <3>2, <3>3 DEF FanoutOutput
  <2>4. CASE k \in drains
    <3>1. /\ g.task[k] = "drain" /\ f.buffer[k] = <<>> /\ k \in f.needsDrain
      BY <1>5, <1>7, <1>8, <2>4
    <3>2. f.recv = "none"
      BY <1>2, <3>1 DEF FanoutInput
    <3>. QED
      BY <2>1, <2>2, <3>1, <3>2 DEF FanoutOutput
  <2>5. CASE k \notin sends /\ k \notin drains
    <3>1. g.task[k] = f.task[k] /\ (k \in f.needsDrain => k \in g.needsDrain)
      BY <1>6, <1>7, <2>5
    <3>. QED
      BY <2>1, <2>2, <3>1 DEF FanoutOutput
  <2>. QED
    BY <2>3, <2>4, <2>5
<1>. QED
  BY <1>0, <1>1, <1>9, <1>10, <1>11 DEF InStep

\* It ends when everything has been sent and all its outputs are shut.
LEMMA FanoutDone ==
    ASSUME NEW p, NEW n, NEW f, NEW m \in Nat, NEW r \in [1..1 -> Nat],
           NEW t \in [1..m -> Nat], NEW closed, InStep(p, n, f, r, t, closed),
           f.recv = "none", f.needsDrain = {},
           \A k \in 1..m : f.task[k] = "none" /\ f.buffer[k] = <<>>
    PROVE  /\ AreAll(p, n, r[1])
           /\ \A k \in 1..m : k \in closed /\ AreAll(p, n, t[k])
<1>0. PICK e : e = r[1]
  OBVIOUS
<1>1. DOMAIN t = 1..m /\ e \in Nat
  BY <1>0
<1>2. /\ FanoutInput(p, n, f, e)
      /\ \A i \in 1..m : FanoutOutput(p, n, f, e, i, t[i], i \in closed)
  BY <1>0, <1>1 DEF InStep
<1>3. e = Size(p, n)
  BY <1>2 DEF FanoutInput
<1>4. ASSUME NEW k \in 1..m PROVE k \in closed /\ t[k] = e
  <2>0. PICK u : u = t[k]
    OBVIOUS
  <2>1. u \in Nat /\ FanoutOutput(p, n, f, e, k, u, k \in closed)
    BY <1>2, <2>0
  <2>2. Buffered(p, n, <<>>, u, e) /\ k \in closed
    BY <2>1 DEF FanoutOutput
  <2>3. u = e
    BY <1>1, <2>1, <2>2, ShortSequences DEF Buffered
  <2>. QED
    BY <2>0, <2>2, <2>3
<1>. QED
  BY <1>0, <1>3, <1>4 DEF AreAll

-----------------------------------------------------------------------------
(* The Lineariser of a scan *)

\* Of P consecutive numbers one is of a given producer.
LEMMA SameModulus ==
    ASSUME NEW n \in Nat \ {0}, NEW x \in Nat, NEW y \in Nat, y <= x, x < y + n,
           x % n = y % n
    PROVE  x = y
<1>. DEFINE q == x \div n
            p == y \div n
            r == x % n
            s == y % n
<1>1. q \in Int /\ r \in 0..(n - 1) /\ x = n * q + r
  OBVIOUS
<1>2. p \in Int /\ s \in 0..(n - 1) /\ y = n * p + s
  OBVIOUS
<1>2a. r = s
  OBVIOUS
<1>. HIDE DEF q, r, p, s
<1>3. \A z \in Int : z >= 1 => n * z >= n
  OBVIOUS
<1>4. n * (q - p) = x - y /\ n * (p - q) = y - x
  BY <1>1, <1>2, <1>2a
<1>5. ~(q - p >= 1)
  BY <1>1, <1>2, <1>3, <1>4
<1>5a. ~(p - q >= 1)
  BY <1>1, <1>2, <1>3, <1>4
<1>6. p = q
  BY <1>1, <1>2, <1>5, <1>5a
<1>. QED
  BY <1>1, <1>2, <1>2a, <1>6

\* Something of producer i has been read and not forwarded.
InFlight(s, i) == ~(s.inbox[i] = <<>> /\ NoneBuffered(s, i))

\* The types of what a Lineariser holds for a producer.
LEMMA ProducerFields ==
    ASSUME NEW s, Linearised(s), NEW i \in DOMAIN s.producer
    PROVE  /\ s.next[i] \in Nat /\ s.inbox[i] \in Seq(Chunks)
           /\ s.producer[i] \in {"acquire", "read", "drain", "done"}
           /\ Len(s.producer) \in Nat \ {0} /\ i \in 1..Len(s.producer)
           /\ i \in DOMAIN s.next /\ i \in DOMAIN s.inbox
           /\ s.inbox[i] # <<>> =>
                /\ Len(s.inbox[i]) = 1 /\ DOMAIN s.inbox[i] = 1..1
                /\ Head(s.inbox[i]) = s.inbox[i][1]
                /\ Head(s.inbox[i]) \in Chunks /\ NoneBuffered(s, i)
<1>1. /\ s.producer \in Seq({"acquire", "read", "drain", "done"})
      /\ s.next \in Seq(Nat) /\ s.inbox \in Seq(Seq(Chunks))
      /\ Len(s.producer) \in Nat /\ DOMAIN s.producer = 1..Len(s.producer)
      /\ Len(s.next) = Len(s.producer) /\ Len(s.inbox) = Len(s.producer)
  BY Fields
<1>2. i \in 1..Len(s.producer) /\ Len(s.producer) # 0
  BY <1>1
<1>3. \A S, q : q \in Seq(S) => \A k \in 1..Len(q) : q[k] \in S
  BY ElementOfSeq
<1>4. /\ s.next[i] \in Nat /\ s.inbox[i] \in Seq(Chunks)
      /\ s.producer[i] \in {"acquire", "read", "drain", "done"}
  BY <1>1, <1>2, <1>3
<1>5. i \in DOMAIN s.next /\ i \in DOMAIN s.inbox
  BY <1>1, <1>2
<1>6. s.inbox[i] # <<>> => Len(s.inbox[i]) = 1 /\ NoneBuffered(s, i)
  BY DEF Linearised, OneToken
<1>7. \A q \in Seq(Chunks) : Len(q) = 1 =>
        DOMAIN q = 1..1 /\ Head(q) = q[1] /\ Head(q) \in Chunks
  <2>. SUFFICES ASSUME NEW q \in Seq(Chunks), Len(q) = 1
                PROVE  DOMAIN q = 1..1 /\ Head(q) = q[1] /\ Head(q) \in Chunks
    OBVIOUS
  <2>1. DOMAIN q = 1..1
    OBVIOUS
  <2>2. Head(q) = q[1]
    OBVIOUS
  <2>3. q[1] \in Chunks
    BY <2>1, ElementOfSeq
  <2>. QED
    BY <2>1, <2>2, <2>3
<1>8. s.inbox[i] # <<>> =>
        /\ DOMAIN s.inbox[i] = 1..1 /\ Head(s.inbox[i]) = s.inbox[i][1]
        /\ Head(s.inbox[i]) \in Chunks
  BY <1>4, <1>6, <1>7
<1>. QED
  BY <1>1, <1>2, <1>4, <1>5, <1>6, <1>8

\* What is outstanding of a producer is a chunk of that producer.
LEMMA OutstandingFacts ==
    ASSUME NEW p, NEW n, NEW s, Linearised(s), InOrder(p, n, s),
           NEW i \in DOMAIN s.producer
    PROVE  /\ Outstanding(s, i) \in Nat
           /\ ProducerOf(s, Outstanding(s, i)) = i
           /\ ~InFlight(s, i) => Outstanding(s, i) = s.next[i]
           /\ InFlight(s, i) => Outstanding(s, i) + Len(s.producer) = s.next[i]
           /\ \A m \in s.buffer : ProducerOf(s, m.seq) = i =>
                m.seq = Outstanding(s, i) /\ InFlight(s, i) /\ m.seq < p.chunks[n]
<1>1. /\ s.next[i] \in Nat /\ Len(s.producer) \in Nat
      /\ s.buffer \subseteq Chunks
  BY ProducerFields, Fields
<1>2. ~InFlight(s, i) => Outstanding(s, i) = s.next[i]
  BY DEF InFlight, Outstanding
<1>3. InFlight(s, i) => Outstanding(s, i) = s.next[i] - Len(s.producer)
  BY DEF InFlight, Outstanding
<1>4. ProducerOf(s, s.next[i]) = i
  BY DEF Linearised, Numbered
<1>5. ASSUME NEW m, m.seq \in Nat, ReadBy(p, n, s, i, m)
      PROVE  m.seq = s.next[i] - Len(s.producer)
  BY <1>1, <1>5 DEF ReadBy
<1>6. ASSUME NEW m \in s.buffer, ProducerOf(s, m.seq) = i
      PROVE  /\ m.seq \in Nat /\ m.seq = Outstanding(s, i) /\ InFlight(s, i)
             /\ m.seq < p.chunks[n]
  <2>1. ReadBy(p, n, s, i, m) /\ m.seq \in Nat
    BY <1>1, <1>6 DEF InOrder, Chunks
  <2>2. InFlight(s, i)
    BY <1>6 DEF InFlight, NoneBuffered
  <2>3. m.seq < p.chunks[n]
    BY <2>1 DEF ReadBy
  <2>. QED
    BY <1>3, <1>5, <2>1, <2>2, <2>3
<1>7. ASSUME s.inbox[i] # <<>>
      PROVE  /\ Outstanding(s, i) \in Nat /\ InFlight(s, i)
             /\ ProducerOf(s, Outstanding(s, i)) = i
  <2>1. 1 \in DOMAIN s.inbox[i] /\ s.inbox[i][1] \in Chunks
    BY <1>7, ProducerFields
  <2>2. ReadBy(p, n, s, i, s.inbox[i][1]) /\ s.inbox[i][1].seq \in Nat
    BY <2>1 DEF InOrder, Chunks
  <2>3. ProducerOf(s, s.inbox[i][1].seq) = i
    BY <2>1 DEF Linearised, Numbered
  <2>4. InFlight(s, i)
    BY <1>7 DEF InFlight
  <2>5. s.inbox[i][1].seq = Outstanding(s, i)
    BY <1>3, <1>5, <2>2, <2>4
  <2>. QED
    BY <2>2, <2>3, <2>4, <2>5
<1>8. InFlight(s, i) => /\ Outstanding(s, i) \in Nat
                        /\ ProducerOf(s, Outstanding(s, i)) = i
  <2>1. CASE s.inbox[i] # <<>>
    BY <1>7, <2>1
  <2>2. CASE ~NoneBuffered(s, i)
    <3>1. PICK m \in s.buffer : ProducerOf(s, m.seq) = i
      BY <2>2 DEF NoneBuffered
    <3>. QED
      BY <1>6, <3>1
  <2>. QED
    BY <2>1, <2>2 DEF InFlight
<1>9. InFlight(s, i) => Outstanding(s, i) + Len(s.producer) = s.next[i]
  BY <1>1, <1>3
<1>. QED
  BY <1>1, <1>2, <1>4, <1>6, <1>8, <1>9

\* What InOrder says of producer i.
ProducerInOrder(p, n, s, i) ==
    /\ \A k \in DOMAIN s.inbox[i] : ReadBy(p, n, s, i, s.inbox[i][k])
    /\ s.nextSeq <= Outstanding(s, i)
    /\ Outstanding(s, i) < s.nextSeq + Len(s.producer)
    /\ s.producer[i] \in {"acquire", "read"} <=> s.next[i] < p.chunks[n]
    /\ s.producer[i] = "done" => s.inbox[i] = <<>>
    /\ i \notin s.pending =>
         s.inbox[i] = <<>> /\ (s.producer[i] = "done" \/ ~NoneBuffered(s, i))

\* The order of the chunks by producers.
LEMMA InOrderParts ==
    ASSUME NEW p, NEW n, NEW s
    PROVE  InOrder(p, n, s) <=>
            /\ Len(s.producer) = NumProducers(p, n)
            /\ \A m \in s.buffer : ReadBy(p, n, s, ProducerOf(s, m.seq), m)
            /\ \A i \in DOMAIN s.producer : ProducerInOrder(p, n, s, i)
BY DEF InOrder, ProducerInOrder

\* The producers start with the first chunks.
LEMMA StartsInOrder ==
    ASSUME NEW p \in Plans, NEW n \in 1..Len(p.kind)
    PROVE  /\ InOrder(p, n, InitLineariser(NumProducers(p, n)))
           /\ InitLineariser(NumProducers(p, n)).nextSeq = 0
<1>1. PICK P : P = NumProducers(p, n)
  OBVIOUS
<1>2. P \in Nat /\ P <= p.chunks[n] /\ p.chunks[n] \in Nat
  <2>1. p.chunks[n] \in Nat
    BY PlanFacts
  <2>2. PICK c \in Nat : c = p.chunks[n]
    BY <2>1
  <2>. QED
    BY <1>1, <2>2, ActorNetworkAssumption DEF NumProducers
<1>3. PICK s : s = InitLineariser(P)
  OBVIOUS
<1>4. /\ s.producer = [i \in 1..P |-> "acquire"]
      /\ s.next = [i \in 1..P |-> i - 1] /\ s.inbox = [i \in 1..P |-> <<>>]
      /\ s.pending = 1..P /\ s.buffer = {} /\ s.nextSeq = 0
  BY <1>3 DEF InitLineariser
<1>5. Len(s.producer) = P /\ DOMAIN s.producer = 1..P
  BY <1>2, <1>4
<1>6. ASSUME NEW i \in 1..P PROVE ProducerInOrder(p, n, s, i)
  <2>1. /\ s.producer[i] = "acquire" /\ s.next[i] = i - 1 /\ s.inbox[i] = <<>>
        /\ DOMAIN s.inbox[i] = {}
    BY <1>4
  <2>2. NoneBuffered(s, i)
    BY <1>4 DEF NoneBuffered
  <2>3. Outstanding(s, i) = i - 1
    BY <2>1, <2>2 DEF Outstanding
  <2>4. 0 <= i - 1 /\ i - 1 < 0 + P /\ i - 1 < p.chunks[n]
    BY <1>2
  <2>. QED
    BY <1>4, <1>5, <2>1, <2>3, <2>4 DEF ProducerInOrder
<1>7. InOrder(p, n, s)
  BY <1>1, <1>4, <1>5, <1>6, InOrderParts
<1>. QED
  BY <1>1, <1>3, <1>4, <1>7

\* A producer that takes no part stays in order.
LEMMA ProducerStays ==
    ASSUME NEW p, NEW n, NEW s, NEW t, NEW j, ProducerInOrder(p, n, s, j),
           Len(t.producer) = Len(s.producer), t.nextSeq = s.nextSeq,
           t.producer[j] = s.producer[j], t.next[j] = s.next[j],
           t.inbox[j] = s.inbox[j], NoneBuffered(t, j) <=> NoneBuffered(s, j),
           j \in t.pending <=> j \in s.pending
    PROVE  ProducerInOrder(p, n, t, j)
<1>1. Outstanding(t, j) = Outstanding(s, j)
  BY DEF Outstanding
<1>2. \A m : ReadBy(p, n, t, j, m) <=> ReadBy(p, n, s, j, m)
  BY DEF ReadBy
<1>. QED
  BY <1>1, <1>2 DEF ProducerInOrder

\* A producer takes its slot, or ends when its channel is drained.
LEMMA GoesOnInOrder ==
    ASSUME NEW p, NEW n, NEW s, Linearised(s), InOrder(p, n, s),
           NEW i \in DOMAIN s.producer, NEW l, NEW t,
           \/ s.producer[i] = "acquire" /\ l = "read"
           \/ s.producer[i] = "drain" /\ s.inbox[i] = <<>> /\ l = "done",
           t.producer = [s.producer EXCEPT ![i] = l],
           t.next = s.next, t.inbox = s.inbox, t.buffer = s.buffer,
           t.pending = s.pending, t.nextSeq = s.nextSeq
    PROVE  InOrder(p, n, t)
<1>1. /\ Len(t.producer) = Len(s.producer)
      /\ DOMAIN t.producer = DOMAIN s.producer /\ t.producer[i] = l
      /\ \A j \in DOMAIN s.producer \ {i} : t.producer[j] = s.producer[j]
  <2>1. /\ s.producer \in Seq({"acquire", "read", "drain", "done"})
        /\ i \in 1..Len(s.producer)
        /\ l \in {"acquire", "read", "drain", "done"}
    BY Fields
  <2>. QED
    BY <2>1, EntryReplaced
<1>2. /\ Len(s.producer) = NumProducers(p, n)
      /\ \A m \in s.buffer : ReadBy(p, n, s, ProducerOf(s, m.seq), m)
      /\ \A j \in DOMAIN s.producer : ProducerInOrder(p, n, s, j)
  BY InOrderParts
<1>3. \A j : NoneBuffered(t, j) <=> NoneBuffered(s, j)
  BY <1>1 DEF NoneBuffered, ProducerOf
<1>4. \A m \in t.buffer : ReadBy(p, n, t, ProducerOf(t, m.seq), m)
  BY <1>1, <1>2 DEF ReadBy, ProducerOf
<1>5. ASSUME NEW j \in DOMAIN s.producer \ {i} PROVE ProducerInOrder(p, n, t, j)
  BY <1>1, <1>2, <1>3, ProducerStays
<1>6. ProducerInOrder(p, n, t, i)
  <2>1. Outstanding(t, i) = Outstanding(s, i)
    BY <1>1, <1>3 DEF Outstanding
  <2>2. \A m : ReadBy(p, n, t, i, m) <=> ReadBy(p, n, s, i, m)
    BY <1>1 DEF ReadBy
  <2>3. ProducerInOrder(p, n, s, i)
    BY <1>2
  <2>. QED
    BY <1>1, <1>3, <2>1, <2>2, <2>3 DEF ProducerInOrder
<1>. QED
  BY <1>1, <1>2, <1>4, <1>5, <1>6, InOrderParts

\* v is s after producer i has sent the chunk it has read, m, and has gone on
\* to step l.
AfterRead(p, n, s, i, P, l, m, v) ==
    /\ P = Len(s.producer)
    /\ l = IF s.next[i] + P < p.chunks[n] THEN "acquire" ELSE "drain"
    /\ m = [seq |-> s.next[i], data |-> <<<<n, s.next[i]>>>>]
    /\ v.producer = [s.producer EXCEPT ![i] = l]
    /\ v.next = [s.next EXCEPT ![i] = @ + P]
    /\ v.inbox = [s.inbox EXCEPT ![i] = Append(@, m)]
    /\ v.buffer = s.buffer /\ v.pending = s.pending /\ v.nextSeq = s.nextSeq

\* A producer sends the chunk it has read.
LEMMA ProducesInOrder ==
    ASSUME NEW p, NEW n, NEW s, Linearised(s), InOrder(p, n, s),
           p.chunks[n] \in Nat,
           NEW i \in DOMAIN s.producer, s.producer[i] = "read",
           NEW P, NEW l, NEW m, NEW t, AfterRead(p, n, s, i, P, l, m, t)
    PROVE  InOrder(p, n, t)
<1>. SUFFICES ASSUME
        P = Len(s.producer),
        l = IF s.next[i] + P < p.chunks[n] THEN "acquire" ELSE "drain",
        m = [seq |-> s.next[i], data |-> <<<<n, s.next[i]>>>>],
        t.producer = [s.producer EXCEPT ![i] = l],
        t.next = [s.next EXCEPT ![i] = @ + P],
        t.inbox = [s.inbox EXCEPT ![i] = Append(@, m)],
        t.buffer = s.buffer, t.pending = s.pending, t.nextSeq = s.nextSeq
     PROVE InOrder(p, n, t)
  BY DEF AfterRead
<1>0. /\ s.next[i] \in Nat /\ s.inbox[i] \in Seq(Chunks)
      /\ P \in Nat \ {0} /\ i \in DOMAIN s.next /\ i \in DOMAIN s.inbox
  BY ProducerFields
<1>1. /\ Len(t.producer) = P
      /\ DOMAIN t.producer = DOMAIN s.producer /\ t.producer[i] = l
      /\ \A j \in DOMAIN s.producer \ {i} : t.producer[j] = s.producer[j]
  <2>1. /\ s.producer \in Seq({"acquire", "read", "drain", "done"})
        /\ i \in 1..Len(s.producer)
        /\ l \in {"acquire", "read", "drain", "done"}
    BY Fields
  <2>. QED
    BY <2>1, EntryReplaced
<1>2. /\ Len(s.producer) = NumProducers(p, n)
      /\ \A o \in s.buffer : ReadBy(p, n, s, ProducerOf(s, o.seq), o)
      /\ \A j \in DOMAIN s.producer : ProducerInOrder(p, n, s, j)
  BY InOrderParts
<1>3. /\ t.next[i] = s.next[i] + P /\ t.inbox[i] = Append(s.inbox[i], m)
      /\ \A j \in DOMAIN s.producer \ {i} :
            t.next[j] = s.next[j] /\ t.inbox[j] = s.inbox[j]
  BY <1>0, ProducerFields
<1>4. s.inbox[i] = <<>> /\ NoneBuffered(s, i)
  BY DEF Linearised, OneToken
<1>5. \A j : NoneBuffered(t, j) <=> NoneBuffered(s, j)
  BY <1>1 DEF NoneBuffered, ProducerOf
<1>6. t.inbox[i] = <<m>>
  BY <1>3, <1>4
<1>6a. t.inbox[i] # <<>> /\ \A k \in DOMAIN t.inbox[i] : t.inbox[i][k] = m
  <2>1. \A q : q = <<m>> => q # <<>> /\ \A k \in DOMAIN q : q[k] = m
    OBVIOUS
  <2>. QED
    BY <1>6, <2>1
<1>7. \A o \in t.buffer : ReadBy(p, n, t, ProducerOf(t, o.seq), o)
  <2>. SUFFICES ASSUME NEW o \in s.buffer
                PROVE  ReadBy(p, n, t, ProducerOf(t, o.seq), o)
    OBVIOUS
  <2>1. ProducerOf(t, o.seq) = ProducerOf(s, o.seq)
    BY <1>1 DEF ProducerOf
  <2>2. ProducerOf(s, o.seq) \in DOMAIN s.producer \ {i}
    BY <1>4 DEF NoneBuffered, Linearised, Numbered
  <2>3. ReadBy(p, n, s, ProducerOf(s, o.seq), o)
    BY <1>2
  <2>. QED
    BY <1>1, <1>3, <2>1, <2>2, <2>3 DEF ReadBy
<1>8. ASSUME NEW j \in DOMAIN s.producer \ {i} PROVE ProducerInOrder(p, n, t, j)
  BY <1>1, <1>2, <1>3, <1>5, ProducerStays
<1>9. ProducerInOrder(p, n, t, i)
  <2>0. ProducerInOrder(p, n, s, i)
    BY <1>2
  <2>1. Outstanding(s, i) = s.next[i]
    BY <1>4 DEF Outstanding
  <2>2. Outstanding(t, i) = (s.next[i] + P) - P
    <3>1. t.inbox[i] # <<>>
      BY <1>6a
    <3>. QED
      BY <1>1, <1>3, <3>1 DEF Outstanding
  <2>3. Outstanding(t, i) = s.next[i]
    BY <1>0, <2>2
  <2>4. s.next[i] < p.chunks[n]
    BY <2>0 DEF ProducerInOrder
  <2>5. ReadBy(p, n, t, i, m)
    BY <1>1, <1>3, <2>4 DEF ReadBy
  <2>6. \A k \in DOMAIN t.inbox[i] : t.inbox[i][k] = m
    BY <1>6a
  <2>7. t.producer[i] \in {"acquire", "read"} <=> t.next[i] < p.chunks[n]
    BY <1>1, <1>3
  <2>8. i \in s.pending
    BY <1>4, <2>0 DEF ProducerInOrder
  <2>9. s.nextSeq <= s.next[i] /\ s.next[i] < s.nextSeq + P
    BY <2>0, <2>1 DEF ProducerInOrder
  <2>10. t.producer[i] # "done"
    BY <1>1
  <2>. QED
    BY <1>1, <2>3, <2>5, <2>6, <2>7, <2>8, <2>9, <2>10 DEF ProducerInOrder
<1>. QED
  BY <1>1, <1>2, <1>7, <1>8, <1>9, InOrderParts

\* The Lineariser buffers what it has received.
LEMMA CollectsInOrder ==
    ASSUME NEW p, NEW n, NEW s, Linearised(s), InOrder(p, n, s), NEW done,
           done = {i \in s.pending : s.inbox[i] # <<>> \/ s.producer[i] = "done"},
           NEW t, t = BufferReceived(s, done)
    PROVE  InOrder(p, n, t) /\ t.nextSeq = s.nextSeq
<1>. DEFINE full == {j \in done : s.inbox[j] # <<>>}
            new == UNION {{Head(s.inbox[i])} : i \in full}
<1>1. /\ t.producer = s.producer /\ t.next = s.next /\ t.nextSeq = s.nextSeq
      /\ t.pending = s.pending \ done
      /\ t.buffer = s.buffer \cup new
      /\ t.inbox = [i \in DOMAIN s.inbox |->
                        IF i \in full THEN Tail(s.inbox[i]) ELSE s.inbox[i]]
  BY DEF Linearised, LineariserStates, BufferReceived
<1>2. /\ Len(s.producer) = NumProducers(p, n)
      /\ \A o \in s.buffer : ReadBy(p, n, s, ProducerOf(s, o.seq), o)
      /\ \A j \in DOMAIN s.producer : ProducerInOrder(p, n, s, j)
  BY InOrderParts
<1>3. \A k : ProducerOf(t, k) = ProducerOf(s, k)
  BY <1>1 DEF ProducerOf
<1>4. ASSUME NEW i \in full
      PROVE  /\ i \in DOMAIN s.producer /\ 1 \in DOMAIN s.inbox[i]
             /\ Head(s.inbox[i]) = s.inbox[i][1]
             /\ Tail(s.inbox[i]) = <<>> /\ NoneBuffered(s, i)
             /\ ProducerOf(s, Head(s.inbox[i]).seq) = i
             /\ ReadBy(p, n, s, i, Head(s.inbox[i]))
  <2>1. i \in DOMAIN s.producer /\ s.inbox[i] # <<>>
    BY DEF Linearised, PerProducer
  <2>2. /\ Len(s.inbox[i]) = 1 /\ DOMAIN s.inbox[i] = 1..1
        /\ Head(s.inbox[i]) = s.inbox[i][1] /\ NoneBuffered(s, i)
        /\ s.inbox[i] \in Seq(Chunks)
    BY <2>1, ProducerFields
  <2>3. \A q \in Seq(Chunks) : Len(q) = 1 => Tail(q) = <<>>
    <3>. SUFFICES ASSUME NEW q \in Seq(Chunks), Len(q) = 1 PROVE Tail(q) = <<>>
      OBVIOUS
    <3>1. Tail(q) \in Seq(Chunks) /\ Len(Tail(q)) = 0
      OBVIOUS
    <3>. QED
      BY <3>1, EmptySeq
  <2>4. ProducerOf(s, s.inbox[i][1].seq) = i
    BY <2>1, <2>2 DEF Linearised, Numbered
  <2>5. ReadBy(p, n, s, i, s.inbox[i][1])
    BY <1>2, <2>1, <2>2 DEF ProducerInOrder
  <2>. QED
    BY <2>1, <2>2, <2>3, <2>4, <2>5
<1>5. \A m \in new : \E i \in full : m = Head(s.inbox[i])
  OBVIOUS
<1>6. \A i \in full : Head(s.inbox[i]) \in t.buffer
  BY <1>1
<1>7. \A i \in DOMAIN s.producer :
        t.inbox[i] = IF i \in full THEN <<>> ELSE s.inbox[i]
  BY <1>1, <1>4 DEF Linearised, PerProducer
<1>7a. \A i \in s.pending : i \notin done =>
            s.inbox[i] = <<>> /\ s.producer[i] # "done"
  OBVIOUS
<1>7b. \A i \in done : i \in full \/ (s.inbox[i] = <<>> /\ s.producer[i] = "done")
  OBVIOUS
<1>7c. full \subseteq done
  OBVIOUS
<1>. HIDE DEF full, new
<1>8. ASSUME NEW m \in t.buffer PROVE ReadBy(p, n, t, ProducerOf(t, m.seq), m)
  <2>1. ReadBy(p, n, s, ProducerOf(s, m.seq), m)
    <3>1. CASE m \in s.buffer
      BY <1>2, <3>1
    <3>2. CASE m \in new
      <4>1. PICK i \in full : m = Head(s.inbox[i])
        BY <1>5, <3>2
      <4>. QED
        BY <1>4, <4>1
    <3>. QED
      BY <1>1, <1>8, <3>1, <3>2
  <2>. QED
    BY <1>1, <1>3, <2>1 DEF ReadBy
<1>9. ASSUME NEW i \in DOMAIN s.producer PROVE ProducerInOrder(p, n, t, i)
  <2>0. ProducerInOrder(p, n, s, i)
    BY <1>2
  <2>1. CASE i \in full
    <3>0. s.inbox[i] # <<>>
      BY <2>1 DEF full
    <3>0a. t.inbox[i] = <<>>
      BY <1>7, <2>1
    <3>0b. ~NoneBuffered(t, i)
      BY <1>3, <1>4, <1>6, <2>1 DEF NoneBuffered
    <3>1. ~NoneBuffered(t, i) /\ t.inbox[i] = <<>> /\ s.inbox[i] # <<>>
      BY <3>0, <3>0a, <3>0b
    <3>2. Outstanding(t, i) = Outstanding(s, i)
      BY <1>1, <3>1 DEF Outstanding
    <3>3. DOMAIN t.inbox[i] = {}
      <4>1. \A q : q = <<>> => DOMAIN q = {}
        OBVIOUS
      <4>. QED
        BY <3>1, <4>1
    <3>. QED
      BY <1>1, <2>0, <3>1, <3>2, <3>3 DEF ProducerInOrder
  <2>2. CASE i \notin full
    <3>1. NoneBuffered(t, i) <=> NoneBuffered(s, i)
      <4>1. \A m \in new : ProducerOf(s, m.seq) # i
        BY <1>4, <1>5, <2>2
      <4>. QED
        BY <1>1, <1>3, <4>1 DEF NoneBuffered
    <3>2. t.inbox[i] = s.inbox[i]
      BY <1>7, <2>2
    <3>3. CASE i \in done
      <4>1. s.inbox[i] = <<>> /\ s.producer[i] = "done"
        BY <1>7b, <2>2, <3>3
      <4>2. Outstanding(t, i) = Outstanding(s, i)
        BY <1>1, <3>1, <3>2 DEF Outstanding
      <4>3. DOMAIN t.inbox[i] = {}
        BY <3>2, <4>1
      <4>. QED
        BY <1>1, <2>0, <3>1, <3>2, <4>1, <4>2, <4>3 DEF ProducerInOrder
    <3>4. CASE i \notin done
      <4>1. i \in t.pending <=> i \in s.pending
        BY <1>1, <3>4
      <4>. QED
        BY <1>1, <2>0, <3>1, <3>2, <4>1, ProducerStays
    <3>. QED
      BY <3>3, <3>4
  <2>. QED
    BY <2>1, <2>2
<1>. QED
  BY <1>1, <1>2, <1>8, <1>9, InOrderParts

\* A chunk of whatever number has a producer.
LEMMA ModulusRange ==
    ASSUME NEW n \in Nat \ {0}, NEW x \in Nat
    PROVE  x % n \in 0..(n - 1) /\ (x % n) + 1 \in 1..n
<1>1. x % n \in 0..(n - 1)
  OBVIOUS
<1>2. PICK r \in 0..(n - 1) : r = x % n
  BY <1>1
<1>. QED
  BY <1>2

\* The chunk that has to be forwarded next is outstanding.
LEMMA NextProducer ==
    ASSUME NEW p, NEW n, NEW s, Linearised(s), InOrder(p, n, s),
           Len(s.producer) # 0, NEW j, j = ProducerOf(s, s.nextSeq)
    PROVE  j \in DOMAIN s.producer /\ Outstanding(s, j) = s.nextSeq
<1>1. /\ Len(s.producer) \in Nat \ {0} /\ s.nextSeq \in Nat
      /\ DOMAIN s.producer = 1..Len(s.producer)
  BY Fields
<1>2. PICK P \in Nat \ {0} : P = Len(s.producer)
  BY <1>1
<1>3. PICK y \in Nat : y = s.nextSeq
  BY <1>1
<1>4. j = (y % P) + 1 /\ y % P \in 0..(P - 1) /\ j \in 1..P
  <2>1. j = (y % P) + 1
    BY <1>2, <1>3 DEF ProducerOf
  <2>. QED
    BY <2>1, ModulusRange
<1>5. j \in DOMAIN s.producer
  BY <1>1, <1>2, <1>4
<1>6. PICK x : x = Outstanding(s, j)
  OBVIOUS
<1>7. x \in Nat /\ ProducerOf(s, x) = j
  BY <1>5, <1>6, OutstandingFacts
<1>8. y <= x /\ x < y + P
  BY <1>2, <1>3, <1>5, <1>6 DEF InOrder
<1>9. (x % P) + 1 = j /\ x % P \in 0..(P - 1)
  <2>1. (x % P) + 1 = j
    BY <1>2, <1>7 DEF ProducerOf
  <2>. QED
    BY <1>7, <2>1, ModulusRange
<1>10. x % P = y % P
  BY <1>4, <1>9
<1>11. x = y
  BY <1>7, <1>8, <1>10, SameModulus
<1>. QED
  BY <1>3, <1>5, <1>6, <1>11

\* A chunk that is ready to be forwarded is the next one.
LEMMA ReadyIsNext ==
    ASSUME NEW p, NEW n, NEW s, Linearised(s), InOrder(p, n, s),
           p.chunks[n] \in Nat, NEW m \in s.buffer,
           \/ m.seq = s.nextSeq
           \/ s.pending = {} /\ \A o \in s.buffer : m.seq <= o.seq
    PROVE  m.seq = s.nextSeq /\ m.seq < p.chunks[n]
<1>1. PICK i : i = ProducerOf(s, m.seq)
  OBVIOUS
<1>2. i \in DOMAIN s.producer /\ m \in Chunks
  BY <1>1, Fields DEF Linearised, Numbered
<1>3. m.seq = Outstanding(s, i) /\ m.seq < p.chunks[n]
  BY <1>1, <1>2, OutstandingFacts
<1>4. s.nextSeq <= m.seq /\ m.seq \in Nat /\ s.nextSeq \in Nat
  BY <1>2, <1>3, Fields DEF InOrder, Chunks
<1>5. ASSUME s.pending = {}, \A o \in s.buffer : m.seq <= o.seq
      PROVE  m.seq = s.nextSeq
  <2>1. PICK j : j = ProducerOf(s, s.nextSeq)
    OBVIOUS
  <2>2. Len(s.producer) # 0
    BY <1>2, ProducerFields
  <2>3. j \in DOMAIN s.producer /\ Outstanding(s, j) = s.nextSeq
    BY <2>1, <2>2, NextProducer
  <2>4. s.inbox[j] = <<>> /\ (s.producer[j] = "done" \/ ~NoneBuffered(s, j))
    BY <1>5, <2>3 DEF InOrder
  <2>5. CASE ~NoneBuffered(s, j)
    <3>1. PICK o \in s.buffer : ProducerOf(s, o.seq) = j
      BY <2>5 DEF NoneBuffered
    <3>2. o.seq = s.nextSeq
      BY <2>3, <3>1, OutstandingFacts
    <3>3. m.seq <= s.nextSeq
      BY <1>5, <3>1, <3>2
    <3>. QED
      BY <1>4, <3>3
  <2>6. CASE NoneBuffered(s, j)
    <3>1. s.producer[j] = "done" /\ ~InFlight(s, j)
      BY <2>4, <2>6 DEF InFlight
    <3>2. s.next[j] = s.nextSeq
      BY <2>3, <3>1, OutstandingFacts
    <3>3. ~(s.next[j] < p.chunks[n])
      BY <2>3, <3>1 DEF InOrder
    <3>. QED
      BY <1>3, <1>4, <3>2, <3>3
  <2>. QED
    BY <2>5, <2>6
<1>. QED
  BY <1>3, <1>5

\* v is s after chunk m of producer i has been forwarded.
AfterForward(s, i, m, v) ==
    /\ i = ProducerOf(s, m.seq)
    /\ v.producer = s.producer /\ v.next = s.next /\ v.inbox = s.inbox
    /\ v.buffer = s.buffer \ {m} /\ v.pending = s.pending \cup {i}
    /\ v.nextSeq = s.nextSeq + 1

\* Forwarding it keeps the order.
LEMMA ForwardsInOrder ==
    ASSUME NEW p \in Plans, NEW n \in 1..Len(p.kind), p.kind[n] = "scan",
           NEW s, Linearised(s), InOrder(p, n, s), NEW m \in s.buffer,
           \/ m.seq = s.nextSeq
           \/ s.pending = {} /\ \A o \in s.buffer : m.seq <= o.seq,
           NEW i, NEW t, AfterForward(s, i, m, t)
    PROVE  /\ s.nextSeq < Size(p, n) /\ IsNext(p, n, s.nextSeq, m)
           /\ InOrder(p, n, t)
<1>. SUFFICES ASSUME
        i = ProducerOf(s, m.seq),
        t.producer = s.producer, t.next = s.next, t.inbox = s.inbox,
        t.buffer = s.buffer \ {m}, t.pending = s.pending \cup {i},
        t.nextSeq = s.nextSeq + 1
     PROVE  /\ s.nextSeq < Size(p, n)
            /\ m = Message(p, n, s.nextSeq + 1)
            /\ InOrder(p, n, t)
  BY DEF AfterForward, IsNext
<1>0. p.chunks[n] \in Nat /\ Size(p, n) = p.chunks[n] /\ s.nextSeq \in Nat
  BY SourceMessages, Fields
<1>1. m.seq = s.nextSeq /\ m.seq < p.chunks[n]
  BY <1>0, ReadyIsNext
<1>2. i \in DOMAIN s.producer /\ m \in Chunks
  BY Fields DEF Linearised, Numbered
<1>3. /\ m.seq = Outstanding(s, i) /\ InFlight(s, i)
      /\ Outstanding(s, i) + Len(s.producer) = s.next[i]
      /\ Len(s.producer) \in Nat \ {0} /\ s.next[i] \in Nat
  BY <1>2, OutstandingFacts, ProducerFields
<1>4. /\ Len(s.producer) = NumProducers(p, n)
      /\ \A o \in s.buffer : ReadBy(p, n, s, ProducerOf(s, o.seq), o)
      /\ \A j \in DOMAIN s.producer : ProducerInOrder(p, n, s, j)
  BY InOrderParts
<1>5. \A k : ProducerOf(t, k) = ProducerOf(s, k)
  BY DEF ProducerOf
<1>6. NoneBuffered(t, i) /\ s.inbox[i] = <<>>
  <2>1. NoneBuffered(t, i)
    BY <1>2, <1>5 DEF NoneBuffered, Linearised, OneToken
  <2>2. ~NoneBuffered(s, i)
    BY DEF NoneBuffered
  <2>. QED
    BY <1>2, <2>1, <2>2, ProducerFields
<1>7. \A j \in DOMAIN s.producer \ {i} : NoneBuffered(t, j) <=> NoneBuffered(s, j)
  BY <1>5 DEF NoneBuffered
<1>8. \A o \in t.buffer : ReadBy(p, n, t, ProducerOf(t, o.seq), o)
  BY <1>4, <1>5 DEF ReadBy
<1>9. ProducerInOrder(p, n, t, i)
  <2>0. ProducerInOrder(p, n, s, i)
    BY <1>2, <1>4
  <2>1. Outstanding(t, i) = s.next[i]
    BY <1>6 DEF Outstanding
  <2>2. s.nextSeq + Len(s.producer) = s.next[i]
    BY <1>1, <1>3
  <2>3. s.nextSeq + 1 <= s.next[i] /\ s.next[i] < (s.nextSeq + 1) + Len(s.producer)
    BY <1>0, <1>3, <2>2
  <2>4. \A k \in DOMAIN t.inbox[i] : ReadBy(p, n, t, i, t.inbox[i][k])
    BY <2>0 DEF ProducerInOrder, ReadBy
  <2>5. i \in t.pending
    OBVIOUS
  <2>. QED
    BY <2>0, <2>1, <2>3, <2>4, <2>5 DEF ProducerInOrder
<1>10. ASSUME NEW j \in DOMAIN s.producer \ {i}
       PROVE  ProducerInOrder(p, n, t, j)
  <2>0. ProducerInOrder(p, n, s, j)
    BY <1>4
  <2>1. Outstanding(t, j) = Outstanding(s, j)
    BY <1>7 DEF Outstanding
  <2>2. ProducerOf(s, Outstanding(s, j)) = j /\ Outstanding(s, j) \in Nat
    BY OutstandingFacts
  <2>3. Outstanding(s, j) # s.nextSeq
    BY <1>1, <2>2
  <2>4. /\ s.nextSeq <= Outstanding(s, j)
        /\ Outstanding(s, j) < s.nextSeq + Len(s.producer)
    BY <2>0 DEF ProducerInOrder
  <2>5. /\ s.nextSeq + 1 <= Outstanding(s, j)
        /\ Outstanding(s, j) < (s.nextSeq + 1) + Len(s.producer)
    <3>1. PICK x \in Nat : x = Outstanding(s, j)
      BY <2>2
    <3>. QED
      BY <1>0, <1>3, <2>3, <2>4, <3>1
  <2>6. \A k \in DOMAIN t.inbox[j] : ReadBy(p, n, t, j, t.inbox[j][k])
    BY <2>0 DEF ProducerInOrder, ReadBy
  <2>7. j \in t.pending <=> j \in s.pending
    OBVIOUS
  <2>8. NoneBuffered(t, j) <=> NoneBuffered(s, j)
    BY <1>7
  <2>. QED
    BY <2>0, <2>1, <2>5, <2>6, <2>7, <2>8 DEF ProducerInOrder
<1>11. InOrder(p, n, t)
  BY <1>4, <1>8, <1>9, <1>10, InOrderParts
<1>12. m = Message(p, n, s.nextSeq + 1)
  <2>1. m = [seq |-> m.seq, data |-> m.data]
    BY <1>2 DEF Chunks
  <2>2. m.data = <<<<n, m.seq>>>>
    BY <1>4 DEF ReadBy
  <2>3. s.nextSeq + 1 \in 1..Size(p, n) /\ (s.nextSeq + 1) - 1 = s.nextSeq
    BY <1>0, <1>1
  <2>4. Message(p, n, s.nextSeq + 1) =
            [seq |-> (s.nextSeq + 1) - 1,
             data |-> <<<<n, (s.nextSeq + 1) - 1>>>>]
    BY <2>3, SourceMessages
  <2>. QED
    BY <1>1, <2>1, <2>2, <2>3, <2>4
<1>. QED
  BY <1>0, <1>1, <1>11, <1>12

\* The Lineariser ends when all chunks have been forwarded.
LEMMA AllForwarded ==
    ASSUME NEW p \in Plans, NEW n \in 1..Len(p.kind), p.kind[n] = "scan",
           NEW s, Linearised(s), InOrder(p, n, s), s.buffer = {}, s.pending = {},
           s.nextSeq <= Size(p, n)
    PROVE  AreAll(p, n, s.nextSeq)
<1>0. p.chunks[n] \in Nat /\ Size(p, n) = p.chunks[n] /\ s.nextSeq \in Nat
  BY SourceMessages, Fields
<1>1. CASE Len(s.producer) = 0
  <2>1. NumProducers(p, n) = 0
    BY <1>1 DEF InOrder
  <2>2. p.chunks[n] = 0
    BY <1>0, <2>1, ActorNetworkAssumption DEF NumProducers
  <2>. QED
    BY <1>0, <2>2 DEF AreAll
<1>2. CASE Len(s.producer) # 0
  <2>1. PICK j : j = ProducerOf(s, s.nextSeq)
    OBVIOUS
  <2>2. j \in DOMAIN s.producer /\ Outstanding(s, j) = s.nextSeq
    BY <1>2, <2>1, NextProducer
  <2>3. NoneBuffered(s, j)
    BY DEF NoneBuffered
  <2>4. s.inbox[j] = <<>> /\ s.producer[j] = "done"
    BY <2>2, <2>3 DEF InOrder
  <2>5. Outstanding(s, j) = s.next[j]
    BY <2>3, <2>4 DEF Outstanding
  <2>6. ~(s.next[j] < p.chunks[n])
    BY <2>2, <2>4 DEF InOrder
  <2>. QED
    BY <1>0, <2>2, <2>5, <2>6 DEF AreAll
<1>. QED
  BY <1>1, <1>2

-----------------------------------------------------------------------------
(* The sink *)

\* It receives the chunks of the root.
LEMMA SinkReceives ==
    ASSUME NEW p, NEW r \in [1..1 -> Nat], NEW q, SinkMakes(p, "recv", r, q)
    PROVE  SinkMakes(p, "recv", [r EXCEPT ![1] = @ + 1],
                     Append(q, Message(p, Len(p.kind), r[1] + 1)))
<1>1. IsSequence(q) /\ Len(q) = r[1] /\ r[1] \in Nat
  BY DEF SinkMakes
<1>2. PICK m : m = Message(p, Len(p.kind), r[1] + 1)
  OBVIOUS
<1>3. PICK s : s = Append(q, m)
  OBVIOUS
<1>4. /\ IsSequence(s) /\ Len(s) = r[1] + 1 /\ DOMAIN s = 1..(r[1] + 1)
      /\ s[r[1] + 1] = m
      /\ \A i \in DOMAIN q : s[i] = q[i]
  <2>1. q \in Seq(Range(q) \cup {m})
    BY <1>1 DEF IsSequence, Range
  <2>2. IsSequence(s)
    BY <1>1, <1>3, AppendIsSequence
  <2>3. PICK S : S = Range(q) \cup {m}
    OBVIOUS
  <2>4. q \in Seq(S) /\ m \in S
    BY <2>1, <2>3
  <2>. QED
    BY <1>1, <1>3, <2>2, <2>4
<1>5. \A i \in DOMAIN s : s[i] = Message(p, Len(p.kind), i)
  <2>1. DOMAIN q = 1..r[1]
    BY <1>1, ShortSequences
  <2>2. \A i \in DOMAIN q : q[i] = Message(p, Len(p.kind), i)
    BY DEF SinkMakes
  <2>3. \A i \in DOMAIN s : i \in DOMAIN q \/ i = r[1] + 1
    BY <1>1, <1>4, <2>1
  <2>. QED
    BY <1>2, <1>4, <2>2, <2>3
<1>6. [r EXCEPT ![1] = @ + 1][1] = r[1] + 1
  OBVIOUS
<1>7. SinkMakes(p, "recv", [r EXCEPT ![1] = @ + 1], s)
  BY <1>4, <1>5, <1>6 DEF SinkMakes
<1>. QED
  BY <1>2, <1>3, <1>7

\* It ends when it has received all of them.
LEMMA SinkEnds ==
    ASSUME NEW p, NEW r, NEW q, SinkMakes(p, "recv", r, q),
           r[1] = Size(p, Len(p.kind))
    PROVE  SinkMakes(p, "done", r, q)
BY DEF SinkMakes

=============================================================================
