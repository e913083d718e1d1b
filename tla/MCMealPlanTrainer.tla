-------------------------- MODULE MCMealPlanTrainer --------------------------
(* Values of the constants of MealPlanTrainer for TLC: the ideal product,    *)
(* a middling one, and a line that names none.                               *)
EXTENDS MealPlanTrainer

Ideal == [n \in {"fiber", "proteins"} |-> Scale]
Middling == [n \in Nutrient |-> 1]
ThreeLines == <<Ideal, Blank, Middling>>
AnyFind == SUBSET {Ideal, Middling}
=============================================================================
