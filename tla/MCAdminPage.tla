----------------------------- MODULE MCAdminPage -----------------------------
(* AdminPage on instances small enough for TLC.                            *)
EXTENDS AdminPage

CONSTANTS e1, e2

\* No event or two; which of the two SCAN finds first makes no difference.
Listings == {<<>>, <<e1, e2>>}

\* Two updates whose order shows: the first one leaves the capacity alone.
Updates == {[rate |-> 2, capacity |-> 0], [rate |-> 3, capacity |-> 4]}
==============================================================================
