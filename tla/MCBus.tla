-------------------------------- MODULE MCBus --------------------------------
(***************************************************************************)
(* Small instances of Bus for TLC: two events of one name, a and b, whose  *)
(* first handler publishes a follow-up and whose second one only looks on, *)
(* as the handlers of payment.initialized do, and an event c with a key of *)
(* its own.                                                                *)
(***************************************************************************)
EXTENDS Bus

CONSTANTS s1, s2, p1, p2, a, b, c, afterA, afterB

\* The follow-ups have the key of the event they follow.
OneKey == [e \in Events |-> IF e = c THEN s2 ELSE s1]

\* handlers of a name, and what each publishes
FollowUps ==
  [e \in Events |->
     CASE e = a -> << <<afterA>>, <<>> >>
       [] e = b -> << <<afterB>>, <<>> >>
       [] OTHER -> << <<>> >>]

\* a and b published at the same time, c after b.
TwoAtOnce == [p \in Publishers |-> IF p = p1 THEN <<a>> ELSE <<b, c>>]

=============================================================================
