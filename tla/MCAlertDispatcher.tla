-------------------------- MODULE MCAlertDispatcher --------------------------
(* Instances of AlertDispatcher for TLC.  A tick is 30 s: the Lambda timeout *)
(* is one tick and the confirmation window (90 s) three, as deployed; the    *)
(* cooldown (10 to 30 ticks) is scaled down to the smallest value the        *)
(* assumption allows to matter.                                              *)
EXTENDS AlertDispatcher, TLC

CONSTANTS f1, f2, w1, w2

Symmetry == Permutations(Workers)

\* Snapshots in consecutive ticks.
DenseStamps == {1, 2, 3}
=============================================================================
