-------------------------- MODULE MCDefaultEngine --------------------------
(***************************************************************************)
(* Instances of DefaultEngine for TLC.                                     *)
(***************************************************************************)
EXTENDS DefaultEngine, TLC

CONSTANTS t1, t2, t3, w1, w2, w3

TwoThreads == {t1, t2}
ThreeThreads == {t1, t2, t3}
ThreeWorkers == {w1, w2, w3}
=============================================================================
