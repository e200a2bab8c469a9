------------------------------- MODULE Nulls -------------------------------
(***************************************************************************)
(* What the modules beside the orders share: the value of a column or a    *)
(* field that has none.                                                    *)
(***************************************************************************)
CONSTANT None  \* null
=============================================================================
