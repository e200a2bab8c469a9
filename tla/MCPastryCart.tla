---------------------------- MODULE MCPastryCart ----------------------------
(***************************************************************************)
(* Small instances of PastryCart: a kitchen that makes two units a day of  *)
(* each item, one of which is sold in pairs.  A scene is what a behaviour  *)
(* is about: requests of every kind of one customer, for the pairs, that   *)
(* overlap; checkouts of two customers that race for the last units of the *)
(* other item, with completions that come late; or anything.               *)
(***************************************************************************)
EXTENDS PastryCart, TLC

CONSTANT Scenes

VARIABLE scene

Pairs == CHOOSE i \in Items : \E j \in Items : i # j
MCLimit == [i \in Capped |-> 2]
MCOne == [i \in Items |-> 1]
MCPairs == [i \in Items |-> IF i = Pairs THEN 2 ELSE 1]

-----------------------------------------------------------------------------
\* Nobody asks for item i.
Quiet(i) ==
  /\ available'[i]
  /\ \A u \in Users : qty'[u][i] = 0
  /\ \A c \in Calls : call'[c].lines[i] = 0

Customers ==
  {u \in Users : qty[u] # NoLines \/ u \in {call[c].user : c \in Calls}
                                  \/ u \in {order[o].user : o \in Orders}}

Idle == \A c \in Calls : call[c] = NoCall
NoneYet == \A o \in Orders : order[o].state = "none"

\* Once there is an order, a request that changes the cart overlaps checkouts
\* only; items are hidden, and shown again, between requests.
RacesScene ==
  /\ \A i \in Items \ {Pairs} : Quiet(i)
  /\ \A c \in Calls : call'[c].n <= 1
  /\ Cardinality(Customers') <= 1
  /\ NoneYet \/ Cardinality({c \in Calls : call'[c].kind \in {"add", "update", "bulk"}}) <= 1
  /\ available' # available => Idle
  /\ \A o \in Orders : order[o].state = "freed" => order'[o].state = "freed"

\* Bound on the units that are taken while a checkout is in progress: an order
\* can be delivered and paid again any number of times.
MaxMissed == 2

\* Carts are filled before the first order and emptied by payments; between
\* them checkouts race.
LastUnitScene ==
  /\ Quiet(Pairs)
  /\ \A u \in Users, i \in Items : qty'[u][i] <= 2
  /\ \A c \in Calls : call'[c].kind \in {"none", "add", "checkout"}
  /\ (\E c \in Calls : call'[c].kind = "add" /\ call[c] = NoCall) => Idle /\ NoneYet
  /\ (\E c \in Calls : call[c].kind = "add") => \E c \in Calls : call'[c] # call[c]
  /\ \A c \in Calls, i \in Items : since'[c][i] <= MaxMissed
  /\ qty' # qty => order' # order \/ \E u \in Users : qty[u] = NoLines /\ qty'[u] # NoLines
  /\ available' # available => Idle /\ \A u \in Users : qty[u] = NoLines

MCInit == Init /\ scene \in Scenes

MCNext ==
  /\ UNCHANGED scene
  /\ \/ scene = "any" /\ Next
     \/ scene = "races" /\ Next /\ RacesScene
     \/ scene = "last unit" /\ Next /\ LastUnitScene

MCSpec == MCInit /\ [][MCNext]_<<vars, scene>>

Alike == Permutations(Users) \cup Permutations(Orders) \cup Permutations(Calls)
=============================================================================
