--------------------------- MODULE MCCopyOnWrite ---------------------------
(***************************************************************************)
(* Instances of CopyOnWrite for TLC.                                       *)
(***************************************************************************)
EXTENDS CopyOnWrite, TLC

CONSTANTS b1, b2, b3, o1, o2, o3, v1, v2

TwoBuffers == {b1, b2}
ThreeBuffers == {b1, b2, b3}
AllAccesses == Modes \X Scopes
WriteAccess == {<<"write", "internal">>}
OneValue == {v1}
TwoValues == {v1, v2}
TwoOwners == {o1, o2}
ThreeOwners == {o1, o2, o3}

\* Buffers, owners and the values of bytes are interchangeable.
Symmetry == Permutations(Buffers) \cup Permutations(Owners)
                                  \cup Permutations(Values)

=============================================================================
