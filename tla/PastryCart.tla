----------------------------- MODULE PastryCart -----------------------------
(***************************************************************************)
(* The cart and the kitchen's daily batch limit.  Every path that grows a  *)
(* cart line or turns a cart into an order compares the units booked today *)
(* with the limit of the item: three reads (the cart, the bookings of all, *)
(* the bookings of this customer) and then a write, each a statement of    *)
(* its own between which other calls run.                                  *)
(*                                                                         *)
(* What an order costs and how it is paid is the business of PastryOrders; *)
(* here an order only takes units of the day, gives them back, and clears  *)
(* the cart when it is paid.                                               *)
(***************************************************************************)
EXTENDS Integers, FiniteSets, FiniteSetsExt

CONSTANTS
  Users, Items, Orders, None,
  Calls,           \* requests that can be in progress at one time
  Capped,          \* items with a batchLimit
  Limit,           \* the batchLimit of each of them
  MinQuantity,     \* minQuantity of each item
  Quantities,      \* quantities a request may ask for
  MaxQuantity,     \* bound on a cart line
  LateCompletions  \* a completion may follow a cancellation or a delivery

ASSUME CartAssumption ==
  /\ IsFiniteSet(Orders)
  /\ None \notin Users \cup Items
  /\ Capped \subseteq Items
  /\ Limit \in [Capped -> Nat]
  /\ MinQuantity \in [Items -> Nat \ {0}]
  /\ Quantities \subseteq Nat \ {0}
  /\ MaxQuantity \in Nat
  /\ LateCompletions \in BOOLEAN

VARIABLES
  qty,        \* PastryCartItem rows: quantity of each line, 0 when absent
  order,      \* PastryOrder rows with their items
  available,  \* PastryItem.available
  call,       \* what each request has read so far
  since,      \* ghost: units taken since each checkout summed all bookings
  unseen      \* ghost: units taken unseen by the checkout of each order

vars == <<qty, order, available, call, since, unseen>>

-----------------------------------------------------------------------------
Lines == [Items -> Nat]
NoLines == [i \in Items |-> 0]
OneLine(i, n) == [NoLines EXCEPT ![i] = n]

\* open is PENDING_PAYMENT, paid is PAID to SHIPPED, freed is every other.
OrderRow == [state: {"none", "open", "paid", "freed"}, user: Users \cup {None},
             lines: Lines, today: BOOLEAN, session: BOOLEAN]

NoOrder == [state |-> "none", user |-> None, lines |-> NoLines,
            today |-> FALSE, session |-> FALSE]

Call == [kind: {"none", "add", "update", "bulk", "checkout"},
         step: {"total", "own", "write"}, user: Users \cup {None},
         lines: Lines, n: Nat, total: Lines, own: Lines]

NoCall == [kind |-> "none", step |-> "write", user |-> None, lines |-> NoLines,
           n |-> 0, total |-> NoLines, own |-> NoLines]

TypeOK ==
  /\ qty \in [Users -> Lines]
  /\ order \in [Orders -> OrderRow]
  /\ available \in [Items -> BOOLEAN]
  /\ call \in [Calls -> Call]
  /\ since \in [Calls -> Lines] /\ unseen \in [Orders -> Lines]

Init ==
  /\ qty = [u \in Users |-> NoLines]
  /\ order = [o \in Orders |-> NoOrder]
  /\ available = [i \in Items |-> TRUE]
  /\ call = [c \in Calls |-> NoCall]
  /\ since = [c \in Calls |-> NoLines] /\ unseen = [o \in Orders |-> NoLines]

-----------------------------------------------------------------------------
(* Units of the day *)

\* Mutant: an order counts only once it is paid.
OccupiesWhenPaid(o) == order[o].state = "paid" /\ order[o].today

\* BATCH_OCCUPYING_STATUSES, of orders created today.
Occupies(o) == order[o].state \in {"open", "paid"} /\ order[o].today

Occupying == {o \in Orders : Occupies(o)}

Booked(i) == MapThenSumSet(LAMBDA o : order[o].lines[i], Occupying)

BookedBy(u, i) ==
  MapThenSumSet(LAMBDA o : order[o].lines[i],
                {o \in Occupying : order[o].user = u})

Greater(a, b) == IF a > b THEN a ELSE b
Lesser(a, b) == IF a < b THEN a ELSE b

\* Mutant: the difference of the two sums is not clamped at zero.
BookedForOthersUnclamped(c, i) == call[c].total[i] - call[c].own[i]

\* A request computes it from two sums it read one after the other.
BookedForOthers(c, i) == Greater(0, call[c].total[i] - call[c].own[i])

Remaining(c, i) == Limit[i] - BookedForOthers(c, i)

\* Mutant: nobody else's bookings count.
WithinBatchAlone(c) == \A i \in Capped : call[c].lines[i] <= Limit[i]

\* Only the lines of the request count.
WithinBatch(c) ==
  \A i \in Capped : call[c].lines[i] > 0 =>
    BookedForOthers(c, i) + call[c].lines[i] <= Limit[i]

-----------------------------------------------------------------------------
(* Requests read first and write last *)

Begin(c, kind, step, u, lines, n) ==
  /\ call[c] = NoCall
  /\ call' = [call EXCEPT ![c] = [NoCall EXCEPT !.kind = kind, !.step = step,
                                    !.user = u, !.lines = lines, !.n = n]]
  /\ UNCHANGED <<qty, order, available, since, unseen>>

ReadTotal(c) ==
  /\ call[c].step = "total"
  /\ call' = [call EXCEPT ![c].step = "own",
                          ![c].total = [i \in Items |-> Booked(i)]]
  /\ UNCHANGED <<qty, order, available, since, unseen>>

ReadOwn(c) ==
  /\ call[c].step = "own"
  /\ call' = [call EXCEPT ![c].step = "write",
                ![c].own = [i \in Items |-> BookedBy(call[c].user, i)]]
  /\ UNCHANGED <<qty, order, available, since, unseen>>

Writes(c, kind) ==
  /\ call[c].kind = kind /\ call[c].step = "write"
  /\ call' = [call EXCEPT ![c] = NoCall]

\* A guard refuses, or the process dies: nothing was written.
CallEnds(c) ==
  /\ call[c] # NoCall
  /\ call' = [call EXCEPT ![c] = NoCall]
  /\ since' = [since EXCEPT ![c] = NoLines]
  /\ UNCHANGED <<qty, order, available, unseen>>

\* The limit is checked for the line as it was read, and the quantity is
\* added to the line as it is.
AddItem(c, u, i, n) ==
  /\ available[i]
  /\ Begin(c, "add", "total", u, OneLine(i, qty[u][i] + n), n)

FinishAdd(c) ==
  /\ Writes(c, "add")
  /\ WithinBatch(c)
  /\ \E i \in Items :
       /\ call[c].lines[i] > 0
       /\ qty[call[c].user][i] + call[c].n <= MaxQuantity
       /\ qty' = [qty EXCEPT ![call[c].user][i] = @ + call[c].n]
  /\ UNCHANGED <<order, available, since, unseen>>

\* Only an increase is compared with the limit.
UpdateItem(c, u, i, n) ==
  /\ qty[u][i] > 0
  /\ Begin(c, "update", IF n > qty[u][i] THEN "total" ELSE "write", u,
           OneLine(i, n), IF n > qty[u][i] THEN 1 ELSE 0)

\* A line removed and put back in between has another id, and the update
\* fails; here it may also succeed.
FinishUpdate(c) ==
  /\ Writes(c, "update")
  /\ call[c].n = 1 => WithinBatch(c)
  /\ \E i \in Items :
       /\ call[c].lines[i] > 0 /\ qty[call[c].user][i] > 0
       /\ qty' = [qty EXCEPT ![call[c].user][i] = call[c].lines[i]]
  /\ UNCHANGED <<order, available, since, unseen>>

\* One line of the guest cart: raised to the minimum, then cut down to what
\* remains, and dropped when that is less than the minimum.
BulkAdd(c, u, i, n) ==
  /\ available[i]
  /\ Begin(c, "bulk", "total", u, OneLine(i, Greater(n, MinQuantity[i])), n)

\* Mutant: a line is added whatever remains.
FinishBulkUnchecked(c) ==
  /\ Writes(c, "bulk")
  /\ \E i \in Items :
       /\ call[c].lines[i] > 0
       /\ qty' = [qty EXCEPT ![call[c].user][i] =
                    @ + IF i \in Capped THEN Lesser(call[c].lines[i], Remaining(c, i))
                        ELSE call[c].lines[i]]
  /\ UNCHANGED <<order, available, since, unseen>>

FinishBulk(c) ==
  /\ Writes(c, "bulk")
  /\ \E i \in Items :
       LET wanted == call[c].lines[i]
           final == IF i \in Capped THEN Lesser(wanted, Remaining(c, i)) ELSE wanted
       IN  /\ wanted > 0
           /\ final >= MinQuantity[i]
           /\ qty[call[c].user][i] + final <= MaxQuantity
           /\ qty' = [qty EXCEPT ![call[c].user][i] = @ + final]
  /\ UNCHANGED <<order, available, since, unseen>>

RemoveItem(u, i) ==
  /\ qty[u][i] > 0
  /\ qty' = [qty EXCEPT ![u][i] = 0]
  /\ UNCHANGED <<order, available, call, since, unseen>>

Clear(u) ==
  /\ qty[u] # NoLines
  /\ qty' = [qty EXCEPT ![u] = NoLines]
  /\ UNCHANGED <<order, available, call, since, unseen>>

-----------------------------------------------------------------------------
(* Orders *)

\* Units customer u takes now are missing in what checkout c has read.
Misses(c, u) ==
  /\ call[c].kind = "checkout"
  /\ call[c].step = "own" \/ (call[c].step = "write" /\ call[c].user # u)

Missed(u, lines) ==
  [c \in Calls |-> IF Misses(c, u) THEN [i \in Items |-> since[c][i] + lines[i]]
                   ELSE since[c]]

\* startCheckout: the lines with their prices and availability are read
\* first, then the bookings.
Checkout(c, u) ==
  /\ qty[u] # NoLines
  /\ \A i \in Items : qty[u][i] > 0 => available[i] /\ qty[u][i] >= MinQuantity[i]
  /\ Begin(c, "checkout", "total", u, qty[u], 0)

\* The order is created PENDING_PAYMENT, or PAID with the cart cleared when
\* nothing is left to charge.
CreateOrder(c, o, free) ==
  LET u == call[c].user
  IN  /\ Writes(c, "checkout")
      /\ WithinBatch(c)
      /\ order[o] = NoOrder
      /\ order' = [order EXCEPT ![o] =
           [state |-> IF free THEN "paid" ELSE "open", user |-> u,
            lines |-> call[c].lines, today |-> TRUE, session |-> ~free]]
      /\ qty' = IF free THEN [qty EXCEPT ![u] = NoLines] ELSE qty
      /\ since' = [Missed(u, call[c].lines) EXCEPT ![c] = NoLines]
      /\ unseen' = [unseen EXCEPT ![o] = since[c]]
      /\ UNCHANGED available

\* onCheckoutCompleted, which clears the cart.  An order that had given its
\* units up takes them again and compares them with nothing.
OrderPaid(o) ==
  /\ order[o].session
  /\ \/ order[o].state = "open"
     \/ order[o].state = "freed" /\ LateCompletions
  /\ order' = [order EXCEPT ![o].state = "paid"]
  /\ qty' = [qty EXCEPT ![order[o].user] = NoLines]
  /\ IF order[o].state = "freed" /\ order[o].today
     THEN /\ since' = Missed(order[o].user, order[o].lines)
          /\ unseen' = [unseen EXCEPT ![o] = order[o].lines]
     ELSE UNCHANGED <<since, unseen>>
  /\ UNCHANGED <<available, call>>

\* Cancelled, refunded or delivered.
OrderFreed(o) ==
  /\ order[o].state \in {"open", "paid"}
  /\ order' = [order EXCEPT ![o].state = "freed"]
  /\ UNCHANGED <<qty, available, call, since, unseen>>

\* Midnight in London.
NewDay ==
  /\ \E o \in Orders : order[o].today
  /\ order' = [o \in Orders |-> [order[o] EXCEPT !.today = FALSE]]
  /\ since' = [c \in Calls |-> NoLines] /\ unseen' = [o \in Orders |-> NoLines]
  /\ UNCHANGED <<qty, available, call>>

ToggleAvailable(i) ==
  /\ available' = [available EXCEPT ![i] = ~@]
  /\ UNCHANGED <<qty, order, call, since, unseen>>

-----------------------------------------------------------------------------
Request(c) ==
  \/ \E u \in Users, i \in Items, n \in Quantities :
       AddItem(c, u, i, n) \/ UpdateItem(c, u, i, n) \/ BulkAdd(c, u, i, n)
  \/ \E u \in Users : Checkout(c, u)
  \/ ReadTotal(c) \/ ReadOwn(c)
  \/ FinishAdd(c) \/ FinishUpdate(c) \/ FinishBulk(c)
  \/ \E o \in Orders, free \in BOOLEAN : CreateOrder(c, o, free)
  \/ CallEnds(c)

Next ==
  \/ \E c \in Calls : Request(c)
  \/ \E u \in Users : Clear(u) \/ \E i \in Items : RemoveItem(u, i)
  \/ \E o \in Orders : OrderPaid(o) \/ OrderFreed(o)
  \/ \E i \in Items : ToggleAvailable(i)
  \/ NewDay

Spec == Init /\ [][Next]_vars

-----------------------------------------------------------------------------
(* Properties *)

(***************************************************************************)
(* No order asks for more than the kitchen can make of an item in a day,   *)
(* although the two sums a checkout subtracts are read at different times  *)
(* and their difference can be negative.                                   *)
(***************************************************************************)
OrderFitsKitchen ==
  \A o \in Orders, i \in Capped : order[o].lines[i] <= Limit[i]

\* Units whose orders took them beside bookings they did not see.
Unseen(i) == MapThenSumSet(LAMBDA o : unseen[o][i], Occupying)

TwoOfOneCustomer(i) ==
  \E o1, o2 \in Occupying :
    /\ o1 # o2 /\ order[o1].user = order[o2].user
    /\ order[o1].lines[i] > 0 /\ order[o2].lines[i] > 0

(***************************************************************************)
(* Unless a customer has several orders of an item, it is booked beyond    *)
(* its limit by no more units than were taken between the first read of a  *)
(* checkout and its order, and by completions that come late               *)
(* (BATCH_OCCUPYING_STATUSES): whatever was booked before a checkout read, *)
(* in whatever order, paid or not, it counts.                              *)
(***************************************************************************)
OnlyOwnOrdersOverbook ==
  \A i \in Capped : Booked(i) <= Limit[i] + Unseen(i) \/ TwoOfOneCustomer(i)

(***************************************************************************)
(* A checkout keeps the promise of Kitchen: with payments, cancellations,  *)
(* midnights and other checkouts between its three reads and its write,    *)
(* startCheckout books against all that other customers hold at the write, *)
(* but for what was taken since its first read.                            *)
(***************************************************************************)
Day == INSTANCE Kitchen WITH
  held <- Occupying,
  owner <- [o \in Orders |-> order[o].user],
  lines <- [o \in Orders |-> order[o].lines],
  Late <- LateCompletions

BookedAgainstOthers == Day!Spec

-----------------------------------------------------------------------------
(* What the code's comments promise and its steps do not keep *)

(***************************************************************************)
(* Customers never overbook an item against each other (PENDING_PAYMENT    *)
(* "prevents two customers from both successfully checking out for the     *)
(* same last unit", BATCH_OCCUPYING_STATUSES).                             *)
(***************************************************************************)
CustomersNeverOverbook ==
  \A i \in Capped : Booked(i) > Limit[i] => TwoOfOneCustomer(i)

(***************************************************************************)
(* The units booked of an item in a day never exceed its batchLimit        *)
(* (PastryItem.batchLimit: "reject if the total exceeds this cap").        *)
(***************************************************************************)
WithinBatchLimit == \A i \in Capped : Booked(i) <= Limit[i]
=============================================================================
