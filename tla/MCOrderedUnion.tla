--------------------------- MODULE MCOrderedUnion ---------------------------
EXTENDS OrderedUnion

\* chunks and estimates of child c on rank r, from two matrices of numbers.
Scenario(n, chunks, counts, dup) ==
    [nranks |-> n, chunks |-> chunks, counts |-> counts, duplicated |-> dup]

Matrices(children, ranks, most) ==
    [1..children -> [0..(ranks - 1) -> 0..most]]

\* Two ranks and two children: every number of chunks up to 2, estimated
\* exactly, as none, as one each, and as what the other child has.
TwoRanks ==
    UNION {{Scenario(2, m, e, {}) :
                e \in {m, [c \in 1..2 |-> [r \in 0..1 |-> 0]],
                       [c \in 1..2 |-> [r \in 0..1 |-> 1]],
                       [c \in 1..2 |-> m[3 - c]]}} :
           m \in Matrices(2, 2, 2)}

\* A child that every rank holds.
Duplicated ==
    {Scenario(2, <<[r \in 0..1 |-> k], m[1]>>, <<[r \in 0..1 |-> e], m[1]>>,
              {1}) : k \in 1..2, e \in 0..2, m \in Matrices(1, 2, 1)}

\* Three ranks, wrong estimates.
Row(a, b, c) == [r \in 0..2 |-> <<a, b, c>>[r + 1]]
ThreeRanks ==
    Scenario(3, <<Row(2, 0, 0), Row(0, 0, 1)>>,
             <<Row(1, 1, 0), Row(1, 0, 0)>>, {})

MCScenarios == TwoRanks \cup Duplicated \cup {ThreeRanks}
=============================================================================
