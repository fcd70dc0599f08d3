------------------------------- MODULE MCVisit -------------------------------
(* Visit on instances small enough for TLC.                                *)
EXTENDS Visit

CONSTANTS e1, e2, b1, b2, d1, d2, d3

\* Four tickets for e1, the others for e2: Join never runs out of them.
Lines == [t \in Ticket |-> IF t <= 4 THEN e1 ELSE e2]

\* d1 and d2 are tabs of one browser, d3 is the only tab of another one.
Browsers == [d \in Tab |-> IF d = d3 THEN b2 ELSE b1]

\* One browser visits two events and an address without an event, the other e1.
Addresses == [d \in Tab |-> CASE d = d1 -> {e2, NoEvent}
                              [] OTHER -> {e1}]

\* An address is opened again in d3.
TabOpens == [d \in Tab |-> IF d = d3 THEN 2 ELSE 1]
==============================================================================
