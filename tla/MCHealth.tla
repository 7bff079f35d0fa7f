------------------------------- MODULE MCHealth -------------------------------
(***************************************************************************)
(* A small instance of Health for TLC: one worker and two requests are     *)
(* enough callers for a probe, a call that was admitted before it, and one *)
(* that is refused, and for two checks that overlap.                       *)
(***************************************************************************)
EXTENDS Health

CONSTANTS w1, h1, h2

=============================================================================
