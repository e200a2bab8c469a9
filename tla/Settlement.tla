----------------------------- MODULE Settlement -----------------------------
(***************************************************************************)
(* What a checkout promises, whatever happens in between: an order is      *)
(* placed once and may claim one unclaimed promo code for ever; it settles *)
(* at most once, and in that same step, and in no other, exactly the       *)
(* credit promised when it was placed is debited.                          *)
(***************************************************************************)
EXTENDS Naturals

CONSTANTS Orders, Codes, None

VARIABLES
  placed,    \* orders that exist
  settled,   \* orders that were paid for
  claim,     \* the order each promo code was spent on
  promised,  \* credit each order was quoted
  debited    \* credit taken from the ledger for each order

pvars == <<placed, settled, claim, promised, debited>>

Init ==
  /\ placed = {} /\ settled = {}
  /\ claim = [c \in Codes |-> None]
  /\ promised = [o \in Orders |-> 0]
  /\ debited = [o \in Orders |-> 0]

Claim(o, c) ==
  /\ c # None => claim[c] = None
  /\ claim' = IF c = None THEN claim ELSE [claim EXCEPT ![c] = o]

Promise(o) ==
  /\ promised'[o] \in Nat
  /\ promised' = [promised EXCEPT ![o] = promised'[o]]

Place(o, c) ==
  /\ o \notin placed
  /\ placed' = placed \cup {o}
  /\ Claim(o, c)
  /\ Promise(o)
  /\ UNCHANGED <<settled, debited>>

Settle(o) ==
  /\ o \in placed \ settled
  /\ settled' = settled \cup {o}
  /\ debited' = [debited EXCEPT ![o] = promised[o]]
  /\ UNCHANGED <<placed, claim, promised>>

\* An order that costs nothing after discount and credit.
PlaceSettled(o, c) ==
  /\ o \notin placed
  /\ placed' = placed \cup {o}
  /\ settled' = settled \cup {o}
  /\ Claim(o, c)
  /\ Promise(o)
  /\ debited' = [debited EXCEPT ![o] = promised'[o]]

Next == \E o \in Orders :
          \/ Settle(o)
          \/ \E c \in Codes \cup {None} : Place(o, c) \/ PlaceSettled(o, c)

Spec == Init /\ [][Next]_pvars
=============================================================================
