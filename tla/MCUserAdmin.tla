----------------------------- MODULE MCUserAdmin -----------------------------
(* Two requests at a time, for TLC. *)
EXTENDS UserAdmin

CONSTANTS r1, r2, a, b

TwoRequests == {r1, r2}
TwoFactories == {a, b}
=============================================================================
