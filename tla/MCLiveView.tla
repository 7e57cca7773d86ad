------------------------------ MODULE MCLiveView ------------------------------
(* Two factories for TLC. *)
EXTENDS LiveView

CONSTANTS a, b

TwoFactories == {a, b}
=============================================================================
