--------------------------- MODULE MCDataProcessor ---------------------------
(* Instances of DataProcessor for TLC.  The thresholds (60 s and 120 s) are *)
(* one and two ticks.                                                       *)
EXTENDS DataProcessor, TLC

CONSTANTS w1, w2

Symmetry == Permutations(Workers)

Factory(i, t) == [id |-> i, kind |-> "factory_state", ts |-> t]
Infra(i, t) == [id |-> i, kind |-> "infra_state", ts |-> t]
Image(i, t) == [id |-> i, kind |-> "image_snapshot", ts |-> t]

\* Two infra states that may overtake each other, and an image.
TwoInfra == {Infra(1, 1), Infra(2, 2), Image(3, 2)}

\* The two states that LATEST must keep coherent, one in each tick.
OneEach == {Infra(1, 1), Factory(2, 2)}
=============================================================================
