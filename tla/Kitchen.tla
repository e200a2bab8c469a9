------------------------------ MODULE Kitchen -------------------------------
(***************************************************************************)
(* What the batch limit is meant to be: a customer looks at what is left   *)
(* of the day and books the units of an order, which must fit beside what  *)
(* all other customers hold when the order is booked; only units that were *)
(* taken since the look may be missing in the comparison.  Units are given *)
(* back at any time and taken again only by a payment that comes late.     *)
(***************************************************************************)
EXTENDS Integers, FiniteSetsExt

CONSTANTS Users, Items, Orders, Calls, None, Capped, Limit,
          Late  \* units that were given back can be taken again

VARIABLES
  held,   \* orders that hold units of the day
  owner,  \* the customer of each order, None before it is booked
  lines,  \* what each order asks for
  since   \* what was taken since each look

kvars == <<held, owner, lines, since>>

Nothing == [i \in Items |-> 0]

Init ==
  /\ held = {}
  /\ owner = [o \in Orders |-> None]
  /\ lines = [o \in Orders |-> Nothing]
  /\ since = [c \in Calls |-> Nothing]

HeldByOthers(u, i) ==
  MapThenSumSet(LAMBDA o : lines[o][i], {o \in held : owner[o] # u})

Fits(c, u, wanted) ==
  \A i \in Capped : wanted[i] > 0 =>
    HeldByOthers(u, i) + wanted[i] <= Limit[i] + since[c][i]

\* Looks that are not over miss at most what is taken now.
Take(units, looks) ==
  \A c \in looks : \/ since'[c] = since[c]
                   \/ since'[c] = [i \in Items |-> since[c][i] + units[i]]

\* A new look, or the end of one.
Look ==
  /\ \A c \in Calls : since'[c] \in {since[c], Nothing}
  /\ UNCHANGED <<held, owner, lines>>

\* One order of each booking; the look ends with it.
Book(c, o, u) ==
  /\ owner[o] = None
  /\ owner' = [owner EXCEPT ![o] = u]
  /\ lines' = [lines EXCEPT ![o] = lines'[o]]
  /\ lines'[o] \in [Items -> Nat]
  /\ Fits(c, u, lines'[o])
  /\ held' = held \cup {o}
  /\ since'[c] = Nothing
  /\ Take(lines'[o], Calls \ {c})

\* Delivered, cancelled, refunded, or of yesterday.
GiveBack ==
  /\ held' \in SUBSET held
  /\ \A c \in Calls : since'[c] \in {since[c], Nothing}
  /\ UNCHANGED <<owner, lines>>

TakeAgain(o) ==
  /\ Late
  /\ owner[o] # None
  /\ held' = held \cup {o}
  /\ Take(lines[o], Calls)
  /\ UNCHANGED <<owner, lines>>

Next ==
  \/ \E c \in Calls, o \in Orders, u \in Users : Book(c, o, u)
  \/ Look
  \/ GiveBack
  \/ \E o \in Orders : TakeAgain(o)

Spec == Init /\ [][Next]_kvars
=============================================================================
