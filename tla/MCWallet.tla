------------------------------- MODULE MCWallet -------------------------------
(***************************************************************************)
(* A small instance of Wallet for TLC: a balance that one request spends,  *)
(* and a MaxInt that two increases pass.                                   *)
(***************************************************************************)
EXTENDS Wallet, TLC

CONSTANTS u1, u2, c1, c2

\* One user starts with money, one without a row in the table.
SomeMoney == [u \in Users |-> IF u = u1 THEN 2 ELSE 0]

\* Goroutines are interchangeable.
ClientSymmetry == Permutations(Clients)

=============================================================================
