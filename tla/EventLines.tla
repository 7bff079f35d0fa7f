------------------------------ MODULE EventLines ------------------------------
(***************************************************************************)
(* What the bus promises for the deliveries of each shard, without saying  *)
(* where they wait: they stand in a line, and only the first is tried.  It *)
(* leaves when its handler succeeds, or fails for the last time it may;    *)
(* until the bus is closed there is no other way out of the line.          *)
(*                                                                         *)
(* This is the bus as PaymentWorkflow has it, without a limit on tries.    *)
(***************************************************************************)
EXTENDS Naturals, Sequences

CONSTANTS
  Lines,     \* one for each shard
  Members,   \* what may stand in a line
  LineOf,    \* the only line in which it does
  MaxTries   \* how often the first of a line is tried; 0 for ever

VARIABLES
  line,
  tries,     \* failed tries of the first of each line
  served,    \* how many have left each line, but for those that were abandoned
  failed,    \* failed tries of all
  closed

linesVars == <<line, tries, served, failed, closed>>

LinesInit ==
  /\ line = [n \in Lines |-> <<>>]
  /\ tries = [n \in Lines |-> 0]
  /\ served = [n \in Lines |-> 0]
  /\ failed = 0
  /\ closed = FALSE

Join(m) ==
  /\ line' = [line EXCEPT ![LineOf[m]] = Append(@, m)]
  /\ UNCHANGED <<tries, served, failed, closed>>

\* The first of line n leaves, for the next to be tried.
Leave(n) ==
  /\ line[n] # <<>>
  /\ line' = [line EXCEPT ![n] = Tail(@)]
  /\ tries' = [tries EXCEPT ![n] = 0]
  /\ UNCHANGED closed

Succeed(n) ==
  /\ Leave(n)
  /\ served' = [served EXCEPT ![n] = @ + 1]
  /\ UNCHANGED failed

LastTry(n) == MaxTries > 0 /\ tries[n] + 1 = MaxTries

FailAgain(n) ==
  /\ line[n] # <<>>
  /\ ~LastTry(n)
  /\ tries' = [tries EXCEPT ![n] = @ + 1]
  /\ failed' = failed + 1
  /\ UNCHANGED <<line, served, closed>>

GiveUp(n) ==
  /\ LastTry(n)
  /\ Leave(n)
  /\ served' = [served EXCEPT ![n] = @ + 1]
  /\ failed' = failed + 1

\* Closed, the bus abandons a delivery that waits to be tried again.
Abandon(n) ==
  /\ closed
  /\ tries[n] > 0
  /\ Leave(n)
  /\ UNCHANGED <<served, failed>>

CloseLines ==
  /\ closed' = TRUE
  /\ UNCHANGED <<line, tries, served, failed>>

LinesNext ==
  \/ \E m \in Members : Join(m)
  \/ \E n \in Lines : Succeed(n) \/ FailAgain(n) \/ GiveUp(n) \/ Abandon(n)
  \/ CloseLines

LinesSpec == LinesInit /\ [][LinesNext]_linesVars

=============================================================================
