---------------------------- MODULE ValueBuffers ----------------------------
(***************************************************************************)
(* What copy-on-write promises to the rest of cudf: every Buffer has a     *)
(* value of its own.  Copies and slices start from the value of another    *)
(* buffer, and a write changes the buffer it was made through and no       *)
(* other, as if every copy had been a physical one.                        *)
(*                                                                         *)
(* CopyOnWrite implements this specification.                              *)
(***************************************************************************)
EXTENDS Naturals, Sequences

CONSTANTS
    Buffers,   \* Buffer objects
    Values,    \* the contents of a byte
    MaxSize    \* bytes of the largest buffer

VARIABLE val   \* buffer -> its bytes; <<>> if there is no such buffer

Bytes == UNION {[1..n -> Values] : n \in 1..MaxSize}

Init == val = [b \in Buffers |-> <<>>]

\* A buffer is made from new memory.
Make(b) ==
    /\ val[b] = <<>>
    /\ \E x \in Bytes : val' = [val EXCEPT ![b] = x]

\* c becomes a copy of bytes lo to hi of b.
Copy(b, c) ==
    /\ val[c] = <<>>
    /\ \E lo, hi \in 1..Len(val[b]) :
        /\ lo <= hi
        /\ val' = [val EXCEPT ![c] = SubSeq(val[b], lo, hi)]

\* One byte is written through b.
Write(b) ==
    \E i \in 1..Len(val[b]), v \in Values : val' = [val EXCEPT ![b][i] = v]

Drop(b) == val' = [val EXCEPT ![b] = <<>>]

Next ==
    \/ \E b \in Buffers : Make(b) \/ Write(b) \/ Drop(b)
    \/ \E b, c \in Buffers : Copy(b, c)

Spec == Init /\ [][Next]_val

=============================================================================
