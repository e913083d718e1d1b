--------------------------- MODULE NutritionScore ---------------------------
(***************************************************************************)
(* score_product of the LSTM meal planners (src/lstm/lstm995.py; the same  *)
(* text in lstm8, lstm9, lstm99, lstm9951, lstm995155 and nut.facts.ml):   *)
(* a weighted mean of one logistic value per nutrient.  A product is known *)
(* by those values, each a number of steps of 1/Scale between 0 and 1, for *)
(* the nutrients it names; weights are in tenths.                          *)
(***************************************************************************)
EXTENDS Integers

CONSTANT Scale
ASSUME ScaleAssumption == Scale \in Nat \ {0}

Weight == [fiber |-> 10, carbohydrates |-> -10, sugars |-> -12, proteins |-> 10,
           fat |-> -5, saturated_fat |-> -10]
Nutrient == DOMAIN Weight

\* What a product may name of its nutrients.
Nutriments == UNION {[named -> 0 .. Scale] : named \in SUBSET Nutrient}

Part(nutri, n) == IF n \in DOMAIN nutri THEN Weight[n] * nutri[n] ELSE 0

Sum(f) == f["fiber"] + f["carbohydrates"] + f["sugars"] + f["proteins"] + f["fat"] + f["saturated_fat"]

\* In steps of 1/Scale of a tenth, before and after the division.
Score(nutri) == Sum([n \in Nutrient |-> Part(nutri, n)])

\* Mutant of Whole: the mean is taken over the wanted nutrients alone.
WholeOfWanted == 20

Whole == Sum([n \in Nutrient |-> IF Weight[n] < 0 THEN -Weight[n] ELSE Weight[n]])

\* grade >= 0.6
Passes(nutri) == 10 * Score(nutri) >= 6 * (Whole * Scale)
=============================================================================
