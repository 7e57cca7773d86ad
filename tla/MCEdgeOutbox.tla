---------------------------- MODULE MCEdgeOutbox ----------------------------
(* Instances of EdgeOutbox for TLC. *)
EXTENDS EdgeOutbox

CONSTANT i1

\* Images taken in the same second share the name of their metadata file.
SameSecond == [i \in Images |-> 1]
=============================================================================
