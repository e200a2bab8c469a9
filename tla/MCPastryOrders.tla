--------------------------- MODULE MCPastryOrders ---------------------------
(***************************************************************************)
(* Small instances of PastryOrders.  A cart line costs 4 units; the first  *)
(* code takes half off for anyone, any other takes 10 units off for one    *)
(* user only.                                                              *)
(***************************************************************************)
EXTENDS PastryOrders, FiniteSets

MCSubtotal == [s \in SUBSET Items |-> 4 * Cardinality(s)]

HalfOff == CHOOSE c \in Codes : TRUE

MCTerms == [c \in Codes |->
  [kind |-> IF c = HalfOff THEN "percent" ELSE "amount",
   off |-> IF c = HalfOff THEN 50 ELSE 10,
   minSpend |-> 1, maxRedemptions |-> 1,
   owner |-> IF c = HalfOff THEN None ELSE CHOOSE u \in Users : TRUE]]

\* The first code may be used twice.
MCTwoUses == [MCTerms EXCEPT ![HalfOff].maxRedemptions = 2]

OneMove == {4}
Overdraft == -4
OneMoveEach == {4, -4}
=============================================================================
