-------------------------- MODULE MCStatusDelivery --------------------------
(* StatusDelivery on instances small enough for TLC.                       *)
EXTENDS StatusDelivery, TLC

CONSTANTS e1, s1, q1, q2

OneEvent == [t \in Ticket |-> e1]
==============================================================================
