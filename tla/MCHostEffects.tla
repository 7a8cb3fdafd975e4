--------------------------- MODULE MCHostEffects ---------------------------
(* HostEffects with a deadline two ticks away, time running past it, a     *)
(* server clock on both sides of the Lua limit, and two rotations at most. *)
EXTENDS HostEffects
=============================================================================
