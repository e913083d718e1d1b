--------------------------- MODULE MCPriceTracker ---------------------------
(* Values of the constants of PriceTracker for TLC. *)
EXTENDS PriceTracker

CONSTANTS milk, eggs

OneProduct == <<milk>>
TwoProducts == <<milk, eggs>>

TwoPrices == {0, 2}
ThreePrices == {0, 1, 3}

FourRows == [id \in {milk} |-> 4]
ThreeAndOne == [id \in {milk, eggs} |-> IF id = milk THEN 3 ELSE 1]
=============================================================================
