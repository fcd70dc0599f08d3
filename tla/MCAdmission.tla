----------------------------- MODULE MCAdmission -----------------------------
(* Admission on instances small enough for TLC.                            *)
EXTENDS Admission, TLC

CONSTANTS e1, s1, s2

\* Everybody queues for one event.
OneEvent == [t \in Ticket |-> e1]

SchedulerSymmetry == Permutations({s1, s2})
==============================================================================
