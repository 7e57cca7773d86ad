---------------------------- MODULE MCGraphCharts ----------------------------
(* Buckets of three ticks for TLC, and a few messages that may come in each *)
(* tick: states on time and late, dips of the risk, refreshes and an image. *)
EXTENDS GraphCharts

Factory(t, late, value, score) ==
  [at |-> t, kind |-> "factory_state", source |-> t - late, value |-> value, score |-> score]
Infra(t, late, value, score) ==
  [at |-> t, kind |-> "infra_state", source |-> t - late, value |-> value, score |-> score]
Refresh(t, score) ==
  [at |-> t, kind |-> "refresh", source |-> t, value |-> 0, score |-> score]
Image(t) == [at |-> t, kind |-> "image_snapshot", source |-> t, value |-> 0, score |-> 0]

SomeMessages ==
  {Factory(1, 0, 2, 9), Infra(2, 0, 5, 7), Factory(4, 2, 6, 5), Image(5), Infra(7, 0, 7, 8)}

=============================================================================
