--------------------------- MODULE SequenceLemmas ---------------------------
(***************************************************************************)
(* Facts about numbers and sequences that the proofs about channels, queues*)
(* and partitions share.                                                   *)
(*                                                                         *)
(* Induction is stated for sets of numbers, and follows from the library's *)
(* theorem that a well-founded relation has minimal elements: a step that  *)
(* needs it defines the set of the numbers for which its claim holds.      *)
(***************************************************************************)
EXTENDS Integers, Sequences, SequencesExt, FiniteSetTheorems,
        SequenceTheorems, WellFoundedInduction, TLAPS

-----------------------------------------------------------------------------
(* Induction *)

\* A set of numbers has a least one.
LEMMA Least ==
    ASSUME NEW T \in SUBSET Nat, T # {}
    PROVE  \E m \in T : \A k \in T : m <= k
<1>1. PICK R : R = OpToRel(<, Nat)
  OBVIOUS
<1>2. IsWellFoundedOn(R, Nat)
  BY <1>1, NatLessThanWellFounded
<1>3. \A x, y \in Nat : x < y => <<x, y>> \in R
  BY <1>1 DEF OpToRel
<1>4. PICK m \in T : \A k \in T : ~(<<k, m>> \in R)
  BY <1>2, WFMin
<1>5. \A k \in T : ~(k < m)
  BY <1>3, <1>4
<1>. QED
  BY <1>5

\* Induction, on the set of the numbers for which a property holds.
LEMMA Induction ==
    ASSUME NEW S \in SUBSET Nat, 0 \in S, \A n \in S : n + 1 \in S
    PROVE  S = Nat
<1>. DEFINE T == Nat \ S
<1>. SUFFICES ASSUME T # {} PROVE FALSE
  OBVIOUS
<1>1. T \in SUBSET Nat
  OBVIOUS
<1>. HIDE DEF T
<1>2. PICK m \in T : \A k \in T : m <= k
  BY <1>1, Least
<1>. QED
  BY <1>2 DEF T

-----------------------------------------------------------------------------
(* Sequences *)

\* A channel or queue holds a sequence, of whatever its messages are.
IsSequence(q) == q \in Seq(Range(q))

\* A sequence of any set is one of its own elements.
LEMMA OfItsRange ==
    ASSUME NEW S, NEW q \in Seq(S)
    PROVE  IsSequence(q)
<1>1. Len(q) \in Nat /\ q \in [1..Len(q) -> S]
  BY LenProperties
<1>2. q \in [1..Len(q) -> Range(q)]
  BY <1>1 DEF Range
<1>. QED
  BY <1>1, <1>2, SeqDef DEF IsSequence

\* A receive leaves a sequence with one element less ...
LEMMA TailIsSequence ==
    ASSUME NEW q, IsSequence(q), q # <<>>
    PROVE  IsSequence(Tail(q)) /\ Len(q) \in Nat /\ Len(Tail(q)) = Len(q) - 1
<1>1. /\ Tail(q) \in Seq(Range(q)) /\ Len(q) \in Nat
      /\ Len(Tail(q)) = Len(q) - 1
  BY HeadTailProperties DEF IsSequence
<1>. QED
  BY <1>1, OfItsRange

\* ... and a send one with one element more.
LEMMA AppendIsSequence ==
    ASSUME NEW q, IsSequence(q), NEW m
    PROVE  /\ IsSequence(Append(q, m)) /\ Len(q) \in Nat
           /\ Len(Append(q, m)) = Len(q) + 1
<1>. DEFINE S == Range(q) \cup {m}
<1>1. q \in Seq(S) /\ m \in S
  BY DEF IsSequence
<1>. HIDE DEF S
<1>2. /\ Append(q, m) \in Seq(S) /\ Len(q) \in Nat
      /\ Len(Append(q, m)) = Len(q) + 1
  BY <1>1, AppendProperties
<1>. QED
  BY <1>2, OfItsRange

\* A range that begins one later.
LEMMA Shifted ==
    ASSUME NEW n \in Nat
    PROVE  /\ \A i \in 1..(n - 1) : i + 1 \in 1..n
           /\ \A i \in 1..n : i # 1 => i - 1 \in 1..(n - 1) /\ (i - 1) + 1 = i
OBVIOUS

\* The tail of a sequence and the sequence.
LEMMA TailFacts ==
    ASSUME NEW S, NEW q \in Seq(S), q # <<>>
    PROVE  /\ DOMAIN q = 1..Len(q) /\ Len(q) \in Nat /\ 1 \in DOMAIN q
           /\ Tail(q) \in Seq(S) /\ Len(Tail(q)) = Len(q) - 1
           /\ DOMAIN Tail(q) = 1..(Len(q) - 1)
           /\ \A i \in DOMAIN Tail(q) : /\ i + 1 \in DOMAIN q
                                        /\ Tail(q)[i] = q[i + 1]
           /\ \A i \in DOMAIN q : i # 1 => /\ i - 1 \in DOMAIN Tail(q)
                                           /\ q[i] = Tail(q)[i - 1]
<1>1. PICK n : n = Len(q)  OBVIOUS
<1>2. PICK r : r = Tail(q)  OBVIOUS
<1>3. /\ DOMAIN q = 1..n /\ n \in Nat /\ 1 \in DOMAIN q
      /\ r \in Seq(S) /\ Len(r) = n - 1 /\ DOMAIN r = 1..(n - 1)
  BY <1>1, <1>2
<1>4. \A i \in 1..(n - 1) : r[i] = q[i + 1]  BY <1>1, <1>2
<1>5. \A i \in DOMAIN r : i + 1 \in DOMAIN q /\ r[i] = q[i + 1]
  BY <1>3, <1>4, Shifted
<1>6. \A i \in DOMAIN q : i # 1 => i - 1 \in DOMAIN r /\ q[i] = r[i - 1]
  <2>. SUFFICES ASSUME NEW i \in 1..n, i # 1
                PROVE  i - 1 \in 1..(n - 1) /\ q[i] = r[i - 1]
    BY <1>3
  <2>1. PICK j : j = i - 1  OBVIOUS
  <2>2. j \in 1..(n - 1) /\ j + 1 = i  BY <1>3, <2>1, Shifted
  <2>3. r[j] = q[j + 1]  BY <1>4, <2>2
  <2>. QED  BY <2>1, <2>2, <2>3
<1>. QED  BY <1>1, <1>2, <1>3, <1>5, <1>6

\* What replacing an entry does to a sequence.
LEMMA EntryReplaced ==
    ASSUME NEW S, NEW q \in Seq(S), NEW i \in 1..Len(q), NEW e \in S
    PROVE  /\ [q EXCEPT ![i] = e] \in Seq(S)
           /\ Len([q EXCEPT ![i] = e]) = Len(q)
           /\ DOMAIN [q EXCEPT ![i] = e] = DOMAIN q
           /\ [q EXCEPT ![i] = e][i] = e
           /\ \A j \in DOMAIN q \ {i} : [q EXCEPT ![i] = e][j] = q[j]
  BY ExceptSeq

\* A function on 1..n is a sequence of length n.
LEMMA FunctionIsSequence ==
    ASSUME NEW S, NEW n \in Nat, NEW q \in [1..n -> S]
    PROVE  q \in Seq(S) /\ Len(q) = n /\ DOMAIN q = 1..n
<1>1. q \in Seq(S)
  BY SeqDef
<1>2. Len(q) \in Nat /\ DOMAIN q = 1..Len(q) /\ DOMAIN q = 1..n
  BY <1>1, LenProperties
<1>. QED
  BY <1>1, <1>2

\* f lists the numbers from low to high, without high, in increasing order.
Enumerates(f, n, low, high) ==
    /\ low <= high /\ f \in [1..n -> low..(high - 1)]
    /\ \A i, j \in 1..n : i < j => f[i] < f[j]
    /\ \A p \in low..(high - 1) : \E i \in 1..n : f[i] = p

\* Such a list is as long as the interval.
LEMMA LengthOfInterval ==
    ASSUME NEW n \in Nat, NEW low \in Nat, NEW high \in Nat, NEW f,
           Enumerates(f, n, low, high)
    PROVE  n = high - low
<1>0. /\ low <= high /\ f \in [1..n -> low..(high - 1)]
      /\ \A i, j \in 1..n : i < j => f[i] < f[j]
      /\ \A p \in low..(high - 1) : \E i \in 1..n : f[i] = p
  BY DEF Enumerates
<1>1. \A i, j \in 1..n : i # j => f[i] # f[j]
  <2>1. \A i \in 1..n : f[i] \in Int
    BY <1>0
  <2>2. \A i, j \in 1..n : i # j => i < j \/ j < i
    OBVIOUS
  <2>. QED
    BY <1>0, <2>1, <2>2
<1>2. f \in Bijection(1..n, low..(high - 1))
  BY <1>0, <1>1 DEF Bijection, Injection, Surjection, IsInjective
<1>3. IsFiniteSet(1..n) /\ Cardinality(1..n) = n
  BY FS_Interval
<1>4. Cardinality(low..(high - 1)) = high - low
  <2>1. /\ low \in Int /\ high - 1 \in Int
    OBVIOUS
  <2>2. Cardinality(low..(high - 1)) =
            IF low > high - 1 THEN 0 ELSE (high - 1) - low + 1
    BY <2>1, FS_Interval
  <2>. QED
    BY <1>0, <2>2
<1>5. Cardinality(low..(high - 1)) = Cardinality(1..n)
  <2>1. ExistsBijection(1..n, low..(high - 1))
    BY <1>2 DEF ExistsBijection
  <2>. QED
    BY <1>3, <2>1, FS_Bijection
<1>. QED
  BY <1>3, <1>4, <1>5

-----------------------------------------------------------------------------
(* Concatenation *)

\* The order in which three sequences are concatenated does not matter.
Associates(x, y, z) == (x \o y) \o z = x \o (y \o z)

\* Concatenation is associative.
LEMMA Associative ==
    ASSUME NEW S, NEW x \in Seq(S), NEW y \in Seq(S), NEW z \in Seq(S)
    PROVE  Associates(x, y, z)
  BY ConcatAssociative DEF Associates

\* What the concatenation of two sequences contains.
LEMMA RangeOfConcatenation ==
    ASSUME NEW S, NEW p \in Seq(S), NEW q \in Seq(S)
    PROVE  p \o q \in Seq(S) /\ Range(p \o q) = Range(p) \cup Range(q)
<1>1. /\ p \o q \in Seq(S) /\ DOMAIN (p \o q) = 1..(Len(p) + Len(q))
      /\ Len(p) \in Nat /\ Len(q) \in Nat
      /\ DOMAIN p = 1..Len(p) /\ DOMAIN q = 1..Len(q)
  OBVIOUS
<1>2. \A i \in 1..Len(p) : (p \o q)[i] = p[i]
  OBVIOUS
<1>3. \A i \in 1..Len(q) : (p \o q)[Len(p) + i] = q[i]
  OBVIOUS
<1>4. \A i \in 1..(Len(p) + Len(q)) :
        i \in 1..Len(p) \/ (i - Len(p) \in 1..Len(q)
                            /\ i = Len(p) + (i - Len(p)))
  BY <1>1
<1>5. \A i \in 1..Len(q) : Len(p) + i \in 1..(Len(p) + Len(q))
  BY <1>1
<1>6. \A i \in 1..Len(p) : i \in 1..(Len(p) + Len(q))
  BY <1>1
<1>7. ASSUME NEW x \in Range(p \o q) PROVE x \in Range(p) \cup Range(q)
  <2>1. PICK i \in 1..(Len(p) + Len(q)) : x = (p \o q)[i]
    BY <1>1 DEF Range
  <2>2. CASE i \in 1..Len(p)
    BY <1>1, <1>2, <2>1, <2>2 DEF Range
  <2>3. CASE i - Len(p) \in 1..Len(q) /\ i = Len(p) + (i - Len(p))
    <3>1. PICK k \in 1..Len(q) : i = Len(p) + k
      BY <2>3
    <3>. QED
      BY <1>1, <1>3, <2>1, <3>1 DEF Range
  <2>. QED
    BY <1>4, <2>2, <2>3
<1>8. ASSUME NEW x \in Range(p) \cup Range(q) PROVE x \in Range(p \o q)
  <2>1. CASE x \in Range(p)
    BY <1>1, <1>2, <1>6, <2>1 DEF Range
  <2>2. CASE x \in Range(q)
    BY <1>1, <1>3, <1>5, <2>2 DEF Range
  <2>. QED
    BY <2>1, <2>2
<1>. QED
  BY <1>1, <1>7, <1>8

\* The head of a queue moved to the end of the one before it.
LEMMA MovedHead ==
    ASSUME NEW S, NEW p \in Seq(S), NEW q \in Seq(S), q # <<>>
    PROVE  /\ Head(q) \in S /\ Tail(q) \in Seq(S)
           /\ Append(p, Head(q)) \in Seq(S)
           /\ Append(p, Head(q)) \o Tail(q) = p \o q
<1>1. /\ Head(q) \in S /\ Tail(q) \in Seq(S) /\ Append(p, Head(q)) \in Seq(S)
      /\ p \o q \in Seq(S) /\ Append(p, Head(q)) \o Tail(q) \in Seq(S)
  OBVIOUS
<1>2. Len(p) \in Nat /\ Len(q) \in Nat \ {0} /\ Len(Tail(q)) = Len(q) - 1
      /\ Len(Append(p, Head(q))) = Len(p) + 1
  OBVIOUS
<1>3. Len(Append(p, Head(q)) \o Tail(q)) = Len(p \o q)
  BY <1>1, <1>2
<1>4. ASSUME NEW i \in 1..Len(p \o q)
      PROVE  (Append(p, Head(q)) \o Tail(q))[i] = (p \o q)[i]
  <2>1. CASE i <= Len(p)
    BY <1>1, <1>2, <2>1
  <2>2. CASE i = Len(p) + 1
    BY <1>1, <1>2, <2>2
  <2>3. CASE i > Len(p) + 1
    BY <1>1, <1>2, <2>3
  <2>. QED
    BY <1>2, <2>1, <2>2, <2>3
<1>. QED
  BY <1>1, <1>3, <1>4, SeqEqual

-----------------------------------------------------------------------------
(* Concatenation of the members of a sequence *)

\* f has the concatenations of the first members of q, as FlattenSeq computes
\* them.
Concatenates(f, q, n) ==
    f = [i \in 1..n |-> IF i = 1 THEN q[i] ELSE f[i - 1] \o q[i]]

\* There is such a function for every q.
LEMMA ConcatenationExists ==
    ASSUME NEW q, NEW n \in Nat
    PROVE  \E f : Concatenates(f, q, n)
<1>. DEFINE S == {m \in Nat : \E f : Concatenates(f, q, m)}
<1>1. 0 \in S
  <2>. DEFINE f == [i \in 1..0 |-> q[i]]
  <2>1. f = [i \in 1..0 |-> IF i = 1 THEN q[i] ELSE f[i - 1] \o q[i]]
    OBVIOUS
  <2>. HIDE DEF f
  <2>. QED BY <2>1 DEF Concatenates
<1>2. ASSUME NEW m \in S PROVE m + 1 \in S
  <2>1. PICK f : Concatenates(f, q, m)
    OBVIOUS
  <2>. DEFINE g == [i \in 1..(m + 1) |->
                      IF i = m + 1 THEN IF i = 1 THEN q[i] ELSE f[m] \o q[i]
                      ELSE f[i]]
  <2>2. ASSUME NEW i \in 1..(m + 1)
        PROVE  g[i] = IF i = 1 THEN q[i] ELSE g[i - 1] \o q[i]
    <3>1. CASE i = m + 1
      BY <3>1
    <3>2. CASE i # m + 1
      <4>1. i \in 1..m /\ (i # 1 => i - 1 \in 1..m)
        BY <3>2
      <4>2. f[i] = IF i = 1 THEN q[i] ELSE f[i - 1] \o q[i]
        BY <2>1, <4>1 DEF Concatenates
      <4>3. g[i] = f[i] /\ (i # 1 => g[i - 1] = f[i - 1])
        BY <3>2, <4>1
      <4>. QED BY <4>2, <4>3
    <3>. QED BY <3>1, <3>2
  <2>3. g = [i \in 1..(m + 1) |-> g[i]]
    OBVIOUS
  <2>. HIDE DEF g
  <2>4. g = [i \in 1..(m + 1) |-> IF i = 1 THEN q[i] ELSE g[i - 1] \o q[i]]
    BY <2>2, <2>3
  <2>5. \E h : Concatenates(h, q, m + 1)
    BY <2>4 DEF Concatenates
  <2>. QED
    BY <2>5
<1>3. S \in SUBSET Nat
  OBVIOUS
<1>. HIDE DEF S
<1>4. S = Nat
  BY <1>1, <1>2, <1>3, Induction
<1>. QED
  BY <1>4 DEF S

\* What FlattenSeq computes.
LEMMA Flattened ==
    ASSUME NEW S, NEW q \in Seq(S), q # <<>>
    PROVE  \E f : Concatenates(f, q, Len(q)) /\ FlattenSeq(q) = f[Len(q)]
<1>. DEFINE f == CHOOSE g : g = [i \in 1..Len(q) |->
                                  IF i = 1 THEN q[i] ELSE g[i - 1] \o q[i]]
<1>0. Len(q) \in Nat /\ Len(q) # 0 OBVIOUS
<1>1. \E g : g = [i \in 1..Len(q) |-> IF i = 1 THEN q[i] ELSE g[i - 1] \o q[i]]
  BY <1>0, ConcatenationExists DEF Concatenates
<1>2. f = [i \in 1..Len(q) |-> IF i = 1 THEN q[i] ELSE f[i - 1] \o q[i]]
  BY <1>1
<1>3. FlattenSeq(q) = f[Len(q)]
  BY <1>0, Zenon DEF FlattenSeq
<1>. QED BY <1>2, <1>3 DEF Concatenates

=============================================================================
