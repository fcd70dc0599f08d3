---------------------------- MODULE MCRedemption ----------------------------
(* Redemption on instances small enough for TLC.                           *)
EXTENDS Redemption

CONSTANTS j1, b1, b2, r1, r2, r3

OneToken == [r \in Request |-> j1]

\* r1 and r2 are tabs of one browser, r3 is another browser.
Browsers == [r \in Request |-> IF r = r3 THEN b2 ELSE b1]
==============================================================================
