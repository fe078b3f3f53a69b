--------------------------- MODULE MCActorNetwork ---------------------------
EXTENDS ActorNetwork

Plan(k, a, c) == [kind |-> k, args |-> a, chunks |-> c]

\* Chunks read by several producers, mapped.
Scanned ==
    Plan(<<"scan", "map">>, <<<<>>, <<1>>>>, <<5, 0>>)

\* df.select(f, g): two columns of one frame.
Columns ==
    Plan(<<"source", "map", "map", "zip">>,
         <<<<>>, <<1>>, <<1>>, <<2, 3>>>>, <<3, 0, 0, 0>>)

\* df.select(f, g.sum()) and df.select(g.sum(), f): a column beside an
\* aggregate of the same frame, which is broadcast.
Broadcast ==
    {Plan(<<"source", "reduce", "zip">>, <<<<>>, <<1>>, zip>>, <<4, 0, 0>>) :
        zip \in {<<1, 2>>, <<2, 1>>}}

\* pl.concat([df, df, df]), and a frame that is also filtered.
Concat ==
    {Plan(<<"source", "union">>, <<<<>>, <<1, 1, 1>>>>, <<3, 0>>),
     Plan(<<"source", "map", "union">>,
          <<<<>>, <<1>>, <<2, 1>>>>, <<3, 0, 0>>)}

\* An empty frame concatenated with, and broadcast to, another one.
EmptyFrame ==
    {Plan(<<"source", "source", "reduce", "zip">>,
          <<<<>>, <<>>, <<1>>, <<3, 2>>>>, <<0, 2, 0, 0>>),
     Plan(<<"scan", "map", "union">>,
          <<<<>>, <<1>>, <<1, 2, 1>>>>, <<0, 0, 0>>)}

\* h = pl.concat([df, df], how="horizontal") beside pl.concat([h, h]): the
\* traversal reaches h from the root first, so that the union marks h but no
\* longer df.
LateMark ==
    Plan(<<"source", "zip", "union", "zip">>,
         <<<<>>, <<1, 1>>, <<2, 2>>, <<2, 3>>>>, <<2, 0, 0, 0>>)

MCPlans == {Scanned, Columns, LateMark} \cup Broadcast \cup Concat
               \cup EmptyFrame
=============================================================================
