--------------------------- MODULE MCFastSlowProxy ---------------------------
EXTENDS FastSlowProxy

\* Every object has an id() of its own.
NoneReused == [o \in {} |-> 0]

\* The fifth object gets the id() of the first one.
FifthAsFirst == [o \in {5} |-> 1]
=============================================================================
