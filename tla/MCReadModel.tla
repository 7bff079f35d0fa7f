------------------------------ MODULE MCReadModel ------------------------------
(***************************************************************************)
(* A small instance of ReadModel for TLC: a payment and a credit whose     *)
(* deliveries share a shard, failed writes and one restart.                *)
(***************************************************************************)
EXTENDS ReadModelInvariant

CONSTANTS p1, c1, u, s1

OneUser == [c \in Credits |-> u]

OneShard == [k \in Payments \union Users |-> s1]

AllAggregates == Payments \union Users

=============================================================================
