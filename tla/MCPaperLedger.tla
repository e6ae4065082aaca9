--------------------------- MODULE MCPaperLedger ---------------------------
(* Two leaders hold one token; one of them buys twice and sells.            *)
EXTENDS PaperLedger, TLC

CONSTANTS k1, k2, b1, b2, b3, s1, ann, bob, tok

TwoKeys == {k1, k2}
OneToken == [k \in TwoKeys |-> tok]
Leaders == [k \in TwoKeys |-> IF k = k1 THEN ann ELSE bob]
FourOrders == {b1, b2, b3, s1}
OrderKeys == [o \in FourOrders |-> IF o = b3 THEN k2 ELSE k1]
Kinds == [o \in FourOrders |-> IF o = s1 THEN "sell" ELSE "buy"]
\* b2 is the last trade of the first day.
Times == [o \in FourOrders |-> CASE o = b1 -> 0 [] o = b2 -> 4 [] o = b3 -> 2 [] o = s1 -> 2]
\* Two swaps of one block.
SameTimes == [o \in FourOrders |-> CASE o = b1 -> 0 [] o = b2 -> 0 [] o = b3 -> 2 [] o = s1 -> 2]

Quarter == [enabled |-> TRUE, stop |-> 25, multiple |-> 2, trail |-> 25, hold |-> 6]
Off == [Quarter EXCEPT !.enabled = FALSE]
TwoPolicies == {Quarter, Off}
Halves == {2, 4}
=============================================================================
