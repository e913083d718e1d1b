----------------------------- MODULE PriceLedger -----------------------------
(***************************************************************************)
(* What the price tracker of src/app.py promises about its database:       *)
(* for every watched product a log of the quotes that were recorded, and   *)
(* the quote of the log with the lowest promotional price.  Recording a    *)
(* quote does both at once.                                                *)
(***************************************************************************)
EXTENDS Naturals, Sequences

CONSTANTS
  Id,       \* identifiers of the watched products
  Price,    \* prices
  Absent    \* marks a product that has no row

VARIABLES
  best,     \* best[id]: the row of table products, or Absent
  log       \* log[id]: the rows of table price_history, oldest first

vars == <<best, log>>

Row == [regular : Price, promo : Price]

Init ==
  /\ best = [id \in Id |-> Absent]
  /\ log = [id \in Id |-> <<>>]

Record(id, row) ==
  /\ log' = [log EXCEPT ![id] = Append(@, row)]
  /\ best' = IF best[id] = Absent \/ row.promo < best[id].promo
               THEN [best EXCEPT ![id] = row]
               ELSE best

Next == \E id \in Id, row \in Row : Record(id, row)

Spec == Init /\ [][Next]_vars

-----------------------------------------------------------------------------
(* What is left of the promise when several processes record quotes and    *)
(* each decides on a row that it read earlier.                             *)

Logged(id) == {log[id][i] : i \in 1..Len(log[id])}

(* The quotes whose price the kept row can have had: not above the first. *)
Candidates(id) == {row \in Logged(id) : row.promo <= log[id][1].promo}

Insert(id, row) ==
  /\ best[id] = Absent
  /\ best' = [best EXCEPT ![id] = row]

Keep(id, row) ==
  /\ \E seen \in Candidates(id) : seen.promo <= row.promo
  /\ UNCHANGED best

(* Cheaper than a row that was kept once; the column regular may stay.     *)
Lower(id, row) ==
  /\ \E seen \in Candidates(id) : row.promo < seen.promo
  /\ \E regular \in {row.regular, best[id].regular} :
       best' = [best EXCEPT ![id] = [regular |-> regular, promo |-> row.promo]]

SharedRecord(id, row) ==
  /\ Insert(id, row) \/ (best[id] # Absent /\ (Keep(id, row) \/ Lower(id, row)))
  /\ log' = [log EXCEPT ![id] = Append(@, row)]

SharedNext == \E id \in Id, row \in Row : SharedRecord(id, row)

SharedSpec == Init /\ [][SharedNext]_vars
=============================================================================
