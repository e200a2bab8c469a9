-------------------------- MODULE PastryCart_proofs --------------------------
(***************************************************************************)
(* Theorems about the cart and the batch limit, for any customers, items,  *)
(* orders and requests: their types, that no order asks for more than the  *)
(* kitchen makes in a day, and that customers overbook an item against     *)
(* each other by no more than what their checkouts could not see.          *)
(***************************************************************************)
EXTENDS PastryCart, SumTheorems

-----------------------------------------------------------------------------
(* Sums over the orders *)

\* Units of item i in the orders T, when the rows are r.
Units(r, i) == [o \in Orders |-> r[o].lines[i]]
Taken(r, T, i) == Total(Units(r, i), T)

\* The sum the module folds.
FoldOf(r, T, i) ==
  (CHOOSE h : h = [s \in SUBSET T |-> IF s = {} THEN 0
                                      ELSE r[Pick(s)].lines[i] + h[s \ {Pick(s)}]])[T]

OrdersBy(u) == {o \in Occupying : order[o].user = u}
OrdersOfOthers(u) == {o \in Occupying : order[o].user # u}

\* It is the sum the laws are about.
LEMMA FoldIsSum ==
  ASSUME CartAssumption, NEW r, NEW T \in SUBSET Orders, NEW i
  PROVE  FoldOf(r, T, i) = Taken(r, T, i)
<1> DEFINE Folds(h) == h = [s \in SUBSET T |-> IF s = {} THEN 0
                                      ELSE r[Pick(s)].lines[i] + h[s \ {Pick(s)}]]
           h == CHOOSE h : Folds(h)
<1>1. \A s \in SUBSET T : s # {} => Units(r, i)[Pick(s)] = r[Pick(s)].lines[i]
  BY DEF Units, Pick
<1>2. \A g : AddsUp(g, Units(r, i), T) <=> Folds(g)
  BY <1>1 DEF AddsUp
<1>3. IsFiniteSet(T)
  BY FS_Subset DEF CartAssumption
<1>4. PICK g : AddsUp(g, Units(r, i), T) /\ Taken(r, T, i) = g[T]
  BY <1>3, TotalAddsUp DEF Taken
<1>5. Folds(h)
  BY <1>2, <1>4
<1>6. h[T] = g[T]
  <2> HIDE DEF h, Folds
  <2>1. AddsUp(h, Units(r, i), T)
    BY <1>2, <1>5
  <2> QED  BY <2>1, <1>3, <1>4, SumsAgree
<1> QED  BY <1>4, <1>6 DEF FoldOf

\* The same of lines that are not of a row.
FoldOfLines(L, T, i) ==
  (CHOOSE h : h = [s \in SUBSET T |-> IF s = {} THEN 0
                                      ELSE L[Pick(s)][i] + h[s \ {Pick(s)}]])[T]

LEMMA LinesFold ==
  ASSUME CartAssumption, NEW L, NEW T \in SUBSET Orders, NEW i, NEW f, \A o \in T : f[o] = L[o][i]
  PROVE  FoldOfLines(L, T, i) = Total(f, T)
<1> DEFINE Folds(h) == h = [s \in SUBSET T |-> IF s = {} THEN 0
                                      ELSE L[Pick(s)][i] + h[s \ {Pick(s)}]]
           h == CHOOSE h : Folds(h)
<1>1. \A s \in SUBSET T : s # {} => f[Pick(s)] = L[Pick(s)][i]
  BY DEF Pick
<1>2. \A g : AddsUp(g, f, T) <=> Folds(g)
  BY <1>1 DEF AddsUp
<1>3. IsFiniteSet(T)
  BY FS_Subset DEF CartAssumption
<1>4. PICK g : AddsUp(g, f, T) /\ Total(f, T) = g[T]
  BY <1>3, TotalAddsUp
<1>5. Folds(h)
  BY <1>2, <1>4
<1>6. h[T] = g[T]
  <2> HIDE DEF h, Folds
  <2>1. AddsUp(h, f, T)
    BY <1>2, <1>5
  <2> QED  BY <1>3, <1>4, <2>1, SumsAgree
<1> QED  BY <1>4, <1>6 DEF FoldOfLines

\* What the module sums, now and in the next state.
LEMMA SumsOfOrders ==
  ASSUME CartAssumption, NEW i
  PROVE  /\ Booked(i) = Taken(order, Occupying, i)
         /\ Booked(i)' = Taken(order', Occupying', i)
         /\ \A u : BookedBy(u, i) = Taken(order, OrdersBy(u), i)
<1>1. /\ Booked(i) = FoldOf(order, Occupying, i)
      /\ Booked(i)' = FoldOf(order', Occupying', i)
  BY DEF Booked, FoldOf, MapThenSumSet, MapThenFoldSet, Pick
<1>2. \A u : BookedBy(u, i) = FoldOf(order, OrdersBy(u), i)
  BY DEF BookedBy, OrdersBy, FoldOf, MapThenSumSet, MapThenFoldSet, Pick
<1>3. Occupying \in SUBSET Orders /\ Occupying' \in SUBSET Orders /\ \A u : OrdersBy(u) \in SUBSET Orders
  BY DEF Occupying, OrdersBy
<1> QED  BY <1>1, <1>2, <1>3, FoldIsSum

\* Orders take a number of units of an item.
LEMMA TakenIsNat ==
  ASSUME CartAssumption, NEW r \in [Orders -> OrderRow], NEW T \in SUBSET Orders, NEW i \in Items
  PROVE  Taken(r, T, i) \in Nat
<1>1. IsFiniteSet(T)
  BY FS_Subset DEF CartAssumption
<1>2. \A o \in T : Units(r, i)[o] \in Nat
  BY DEF Units, OrderRow, Lines
<1> QED  BY <1>1, <1>2, TotalNat DEF Taken

\* What a set of orders takes is what its two parts take.
LEMMA TakenSplits ==
  ASSUME CartAssumption, NEW r \in [Orders -> OrderRow], NEW S \in SUBSET Orders,
         NEW T \in SUBSET S, NEW Z, Z = S \ T, NEW i \in Items
  PROVE  Taken(r, S, i) = Taken(r, T, i) + Taken(r, Z, i)
<1> DEFINE f == Units(r, i)
<1>1. IsFiniteSet(S)
  BY FS_Subset DEF CartAssumption
<1>2. \A o \in S : f[o] \in Nat /\ f[o] \in Int
  BY DEF Units, OrderRow, Lines
<1> HIDE DEF f
<1>3. Total(f, S) = Total(f, T) + Total(f, S \ T)
  BY <1>1, <1>2, TotalSplit
<1> QED  BY <1>3 DEF Taken, f

\* Fewer orders take no more.
LEMMA TakenOfPart ==
  ASSUME CartAssumption, NEW r \in [Orders -> OrderRow], NEW S \in SUBSET Orders,
         NEW T \in SUBSET S, NEW i \in Items
  PROVE  Taken(r, T, i) <= Taken(r, S, i)
<1> DEFINE f == Units(r, i)
<1>1. IsFiniteSet(S)
  BY FS_Subset DEF CartAssumption
<1>2. \A o \in S : f[o] \in Nat
  BY DEF Units, OrderRow, Lines
<1> HIDE DEF f
<1> QED  BY <1>1, <1>2, TotalOfPart DEF Taken, f

\* Another order adds its units.
LEMMA TakenWith ==
  ASSUME CartAssumption, NEW r \in [Orders -> OrderRow], NEW S \in SUBSET Orders,
         NEW o \in Orders, o \notin S, NEW i \in Items
  PROVE  Taken(r, S \cup {o}, i) = r[o].lines[i] + Taken(r, S, i)
<1> DEFINE f == Units(r, i)
           T == S \cup {o}
<1>1. IsFiniteSet(T)
  BY FS_Subset DEF CartAssumption
<1>2. \A p \in T : f[p] \in Int
  BY DEF Units, OrderRow, Lines
<1>3. f[o] = r[o].lines[i] /\ o \in T /\ T \ {o} = S
  BY DEF Units
<1> HIDE DEF f, T
<1>4. Total(f, T) = f[o] + Total(f, S)
  BY <1>1, <1>2, <1>3, TotalRemove
<1> QED  BY <1>3, <1>4 DEF Taken, f, T

\* Only the lines of orders count, not their statuses.
LEMMA TakenSame ==
  ASSUME CartAssumption, NEW r \in [Orders -> OrderRow], NEW q, NEW S \in SUBSET Orders,
         \A o \in S : r[o].lines = q[o].lines, NEW i \in Items
  PROVE  Taken(r, S, i) = Taken(q, S, i)
<1> DEFINE f == Units(r, i)
           h == Units(q, i)
<1>1. IsFiniteSet(S)
  BY FS_Subset DEF CartAssumption
<1>2. \A o \in S : f[o] \in Int /\ f[o] = h[o]
  BY DEF Units, OrderRow, Lines
<1> HIDE DEF f, h
<1>3. Total(f, S) = Total(h, S)
  BY <1>1, <1>2, TotalSame
<1> QED  BY <1>3 DEF Taken, f, h

-----------------------------------------------------------------------------
(* Types *)

\* The empty cart and a cart of one line are carts.
LEMMA LinesTypes ==
  /\ NoLines \in Lines
  /\ \A i \in Items, n \in Nat : OneLine(i, n) \in Lines
  /\ \A i \in Items, n \in Nat : OneLine(i, n)[i] = n
BY DEF NoLines, OneLine, Lines

\* A call that has ended holds nothing and is no checkout.
LEMMA NoCallTypes == NoCall \in Call /\ NoCall.kind # "checkout"
BY LinesTypes DEF NoCall, Call

\* Types, for the read a request begins with.
LEMMA BeginTypes ==
  ASSUME TypeOK, NEW c \in Calls, NEW kind \in {"add", "update", "bulk", "checkout"},
         NEW step \in {"total", "own", "write"}, NEW u \in Users, NEW lines \in Lines,
         NEW n \in Nat, Begin(c, kind, step, u, lines, n)
  PROVE  TypeOK'
<1> DEFINE v == [NoCall EXCEPT !.kind = kind, !.step = step, !.user = u, !.lines = lines, !.n = n]
<1>1. v \in Call
  BY NoCallTypes DEF Call
<1>2. call' = [call EXCEPT ![c] = v] /\ UNCHANGED <<qty, order, available, since, unseen>>
  BY DEF Begin
<1> HIDE DEF v
<1> QED  BY <1>1, <1>2 DEF TypeOK

\* Types of what is missed.
LEMMA MissedTypes ==
  ASSUME TypeOK, NEW u, NEW lines \in Lines
  PROVE  Missed(u, lines) \in [Calls -> Lines]
BY DEF TypeOK, Missed, Lines

\* Types, for every statement of a request.
LEMMA RequestTypes ==
  ASSUME CartAssumption, TypeOK, NEW c \in Calls, Request(c)
  PROVE  TypeOK'
<1>0. /\ qty \in [Users -> Lines] /\ order \in [Orders -> OrderRow]
      /\ available \in [Items -> BOOLEAN] /\ call \in [Calls -> Call]
      /\ call[c] \in Call
  BY DEF TypeOK
<1>1. ASSUME NEW u \in Users, NEW i \in Items, NEW n \in Quantities,
             AddItem(c, u, i, n) \/ UpdateItem(c, u, i, n) \/ BulkAdd(c, u, i, n)
      PROVE  TypeOK'
  <2>1. n \in Nat /\ qty[u][i] + n \in Nat /\ Greater(n, MinQuantity[i]) \in Nat
    BY <1>0 DEF CartAssumption, Lines, Greater
  <2>2. CASE AddItem(c, u, i, n)
    BY <2>1, <2>2, LinesTypes, BeginTypes DEF AddItem
  <2>3. CASE UpdateItem(c, u, i, n)
    <3> DEFINE step == IF n > qty[u][i] THEN "total" ELSE "write"
               m == IF n > qty[u][i] THEN 1 ELSE 0
    <3>1. Begin(c, "update", step, u, OneLine(i, n), m) /\ step \in {"total", "write"} /\ m \in Nat
      BY <2>3 DEF UpdateItem
    <3> HIDE DEF step, m
    <3> QED  BY <2>1, <3>1, LinesTypes, BeginTypes
  <2>4. CASE BulkAdd(c, u, i, n)
    BY <2>1, <2>4, LinesTypes, BeginTypes DEF BulkAdd
  <2> QED  BY <1>1, <2>2, <2>3, <2>4
<1>2. ASSUME NEW u \in Users, Checkout(c, u)
      PROVE  TypeOK'
  BY <1>0, <1>2, BeginTypes DEF Checkout
<1>3. CASE ReadTotal(c)
  <2> DEFINE total == [i \in Items |-> Booked(i)]
  <2>1. total \in Lines
    <3>1. Occupying \in SUBSET Orders
      BY DEF Occupying
    <3>2. \A i \in Items : Booked(i) \in Nat
      BY <1>0, <3>1, SumsOfOrders, TakenIsNat
    <3> QED  BY <3>2 DEF Lines
  <2>2. /\ call' = [call EXCEPT ![c].step = "own", ![c].total = total]
        /\ UNCHANGED <<qty, order, available, since, unseen>>
    BY <1>3 DEF ReadTotal
  <2> HIDE DEF total
  <2>3. call' \in [Calls -> Call]
    BY <1>0, <2>1, <2>2 DEF Call
  <2> QED  BY <2>2, <2>3 DEF TypeOK
<1>4. CASE ReadOwn(c)
  <2> DEFINE own == [i \in Items |-> BookedBy(call[c].user, i)]
  <2>1. own \in Lines
    <3>1. ASSUME NEW u, NEW i \in Items
          PROVE  BookedBy(u, i) \in Nat
      <4>1. OrdersBy(u) \in SUBSET Orders
        BY DEF OrdersBy, Occupying
      <4>2. Taken(order, OrdersBy(u), i) \in Nat
        BY <1>0, <4>1, TakenIsNat
      <4> QED  BY <4>2, SumsOfOrders
    <3> QED  BY <3>1 DEF Lines
  <2>2. /\ call' = [call EXCEPT ![c].step = "write", ![c].own = own]
        /\ UNCHANGED <<qty, order, available, since, unseen>>
    BY <1>4 DEF ReadOwn
  <2> HIDE DEF own
  <2>3. call' \in [Calls -> Call]
    BY <1>0, <2>1, <2>2 DEF Call
  <2> QED  BY <2>2, <2>3 DEF TypeOK
<1>5. ASSUME NEW kind, Writes(c, kind)
      PROVE  call' \in [Calls -> Call]
  BY <1>0, <1>5, NoCallTypes DEF Writes
<1>6. ASSUME NEW u, NEW i \in Items, NEW m, qty' = [qty EXCEPT ![u][i] = m], u \in Users => m \in Nat
      PROVE  qty' \in [Users -> Lines]
  BY <1>0, <1>6 DEF Lines
<1>7. CASE FinishAdd(c)
  <2>1. PICK i \in Items : qty' = [qty EXCEPT ![call[c].user][i] = qty[call[c].user][i] + call[c].n]
    BY <1>7 DEF FinishAdd
  <2>2. call[c].user \in Users => qty[call[c].user][i] + call[c].n \in Nat
    BY <1>0 DEF Lines, Call
  <2>3. qty' \in [Users -> Lines]
    BY <1>6, <2>1, <2>2
  <2> QED  BY <1>5, <1>7, <2>3 DEF FinishAdd, TypeOK
<1>8. CASE FinishUpdate(c)
  <2>1. PICK i \in Items : qty' = [qty EXCEPT ![call[c].user][i] = call[c].lines[i]]
    BY <1>8 DEF FinishUpdate
  <2>2. qty' \in [Users -> Lines]
    BY <1>0, <1>6, <2>1 DEF Lines, Call
  <2> QED  BY <1>5, <1>8, <2>2 DEF FinishUpdate, TypeOK
<1>9. CASE FinishBulk(c)
  <2> DEFINE final(i) == IF i \in Capped THEN Lesser(call[c].lines[i], Remaining(c, i))
                         ELSE call[c].lines[i]
  <2>1. PICK i \in Items :
          /\ final(i) >= MinQuantity[i]
          /\ qty' = [qty EXCEPT ![call[c].user][i] = qty[call[c].user][i] + final(i)]
    BY <1>9 DEF FinishBulk
  <2>2. final(i) \in Nat
    <3>1. /\ call[c].lines[i] \in Nat /\ call[c].total[i] \in Nat /\ call[c].own[i] \in Nat
          /\ MinQuantity[i] \in Nat /\ i \in Capped => Limit[i] \in Nat
      BY <1>0 DEF Call, Lines, CartAssumption
    <3> QED  BY <2>1, <3>1 DEF Remaining, BookedForOthers, Greater, Lesser
  <2> HIDE DEF final
  <2>3. call[c].user \in Users => qty[call[c].user][i] + final(i) \in Nat
    BY <1>0, <2>2 DEF Lines
  <2>4. qty' \in [Users -> Lines]
    BY <1>6, <2>1, <2>3
  <2> QED  BY <1>5, <1>9, <2>4 DEF FinishBulk, TypeOK
<1>10. ASSUME NEW o \in Orders, NEW free \in BOOLEAN, CreateOrder(c, o, free)
       PROVE  TypeOK'
  <2> DEFINE row == [state |-> IF free THEN "paid" ELSE "open", user |-> call[c].user,
                     lines |-> call[c].lines, today |-> TRUE, session |-> ~free]
  <2>1. row \in OrderRow
    BY <1>0 DEF Call, OrderRow
  <2>2. order' = [order EXCEPT ![o] = row]
    BY <1>10 DEF CreateOrder
  <2> HIDE DEF row
  <2>3. order' \in [Orders -> OrderRow]
    BY <1>0, <2>1, <2>2
  <2>4. qty' \in [Users -> Lines]
    BY <1>0, <1>10, LinesTypes DEF CreateOrder
  <2>5. since' \in [Calls -> Lines] /\ unseen' \in [Orders -> Lines]
    <3>1. call[c].lines \in Lines
      BY <1>0 DEF Call
    <3>2. Missed(call[c].user, call[c].lines) \in [Calls -> Lines]
      BY <3>1, MissedTypes
    <3>3. /\ since' = [Missed(call[c].user, call[c].lines) EXCEPT ![c] = NoLines]
          /\ unseen' = [unseen EXCEPT ![o] = since[c]]
      BY <1>10 DEF CreateOrder
    <3> QED  BY <3>2, <3>3, LinesTypes DEF TypeOK
  <2> QED  BY <1>5, <1>10, <2>3, <2>4, <2>5 DEF CreateOrder, TypeOK
<1>11. CASE CallEnds(c)
  BY <1>0, <1>11, NoCallTypes, LinesTypes DEF CallEnds, TypeOK
<1> QED  BY <1>1, <1>2, <1>3, <1>4, <1>7, <1>8, <1>9, <1>10, <1>11 DEF Request

\* Every step keeps the types.
LEMMA TypeStep == CartAssumption /\ TypeOK /\ [Next]_vars => TypeOK'
<1> SUFFICES ASSUME CartAssumption, TypeOK, [Next]_vars
             PROVE  TypeOK'
  OBVIOUS
<1>0. /\ qty \in [Users -> Lines] /\ order \in [Orders -> OrderRow]
      /\ available \in [Items -> BOOLEAN] /\ call \in [Calls -> Call]
  BY DEF TypeOK
<1>1. ASSUME NEW u \in Users, Clear(u) \/ \E i \in Items : RemoveItem(u, i)
      PROVE  TypeOK'
  <2>1. CASE Clear(u)
    BY <1>0, <2>1, LinesTypes DEF Clear, TypeOK
  <2>2. ASSUME NEW i \in Items, RemoveItem(u, i)
        PROVE  TypeOK'
    <3>1. qty' \in [Users -> Lines]
      BY <1>0, <2>2 DEF RemoveItem, Lines
    <3> QED  BY <2>2, <3>1 DEF RemoveItem, TypeOK
  <2> QED  BY <1>1, <2>1, <2>2
<1>2. ASSUME NEW o \in Orders, OrderPaid(o) \/ OrderFreed(o)
      PROVE  TypeOK'
  <2>1. order' \in [Orders -> OrderRow]
    BY <1>0, <1>2 DEF OrderPaid, OrderFreed, OrderRow
  <2>2. qty' \in [Users -> Lines]
    BY <1>0, <1>2, LinesTypes DEF OrderPaid, OrderFreed
  <2>3. since' \in [Calls -> Lines] /\ unseen' \in [Orders -> Lines]
    <3>1. order[o].lines \in Lines
      BY <1>0 DEF OrderRow
    <3>2. Missed(order[o].user, order[o].lines) \in [Calls -> Lines]
      BY <3>1, MissedTypes
    <3> QED  BY <1>2, <3>1, <3>2 DEF OrderPaid, OrderFreed, TypeOK
  <2> QED  BY <1>2, <2>1, <2>2, <2>3 DEF OrderPaid, OrderFreed, TypeOK
<1>3. ASSUME NEW i \in Items, ToggleAvailable(i)
      PROVE  TypeOK'
  BY <1>3 DEF ToggleAvailable, TypeOK
<1>4. CASE NewDay
  <2>1. ASSUME NEW r \in OrderRow
        PROVE  [r EXCEPT !.today = FALSE] \in OrderRow
    BY DEF OrderRow
  <2>2. order' \in [Orders -> OrderRow]
    BY <1>0, <1>4, <2>1 DEF NewDay
  <2> QED  BY <1>4, <2>2, LinesTypes DEF NewDay, TypeOK
<1>5. CASE UNCHANGED vars
  BY <1>5 DEF vars, TypeOK
<1> QED  BY <1>1, <1>2, <1>3, <1>4, <1>5, RequestTypes DEF Next

LEMMA InitTypes == Init => TypeOK
BY LinesTypes, NoCallTypes DEF Init, TypeOK, NoOrder, OrderRow

(***************************************************************************)
(* Carts, orders and what requests have read are of their types (TypeOK):  *)
(* no line is negative, also not one that a guest cart brings and that is  *)
(* cut down to what remains of the day.                                    *)
(***************************************************************************)
THEOREM CartIsTyped == Spec => []TypeOK
BY CartAssumption, InitTypes, TypeStep, PTL DEF Spec

-----------------------------------------------------------------------------
(* What fits the kitchen *)

\* Only CreateOrder writes lines, and cuts or refuses what exceeds the day.
LEMMA OrdersFitStep ==
  ASSUME CartAssumption, TypeOK, OrderFitsKitchen, [Next]_vars
  PROVE  OrderFitsKitchen'
<1>0. order \in [Orders -> OrderRow] /\ call \in [Calls -> Call]
  BY DEF TypeOK
<1>1. ASSUME NEW c \in Calls, NEW o \in Orders, NEW free \in BOOLEAN, CreateOrder(c, o, free)
      PROVE  OrderFitsKitchen'
  <2>1. ASSUME NEW i \in Capped
        PROVE  call[c].lines[i] <= Limit[i]
    <3>1. /\ call[c].lines[i] \in Nat /\ call[c].total[i] \in Nat /\ call[c].own[i] \in Nat
          /\ Limit[i] \in Nat
      BY <1>0 DEF Call, Lines, CartAssumption
    <3>2. BookedForOthers(c, i) \in Nat
      BY <3>1 DEF BookedForOthers, Greater
    <3>3. CASE call[c].lines[i] > 0
      <4>1. BookedForOthers(c, i) + call[c].lines[i] <= Limit[i]
        BY <1>1, <3>3 DEF CreateOrder, WithinBatch
      <4> QED  BY <3>1, <3>2, <4>1
    <3>4. CASE ~(call[c].lines[i] > 0)
      BY <3>1, <3>4
    <3> QED  BY <3>3, <3>4
  <2>2. \A p \in Orders : order'[p].lines = IF p = o THEN call[c].lines ELSE order[p].lines
    BY <1>0, <1>1 DEF CreateOrder
  <2> QED  BY <2>1, <2>2 DEF OrderFitsKitchen
<1>2. CASE \A o \in Orders : order'[o].lines = order[o].lines
  BY <1>2 DEF OrderFitsKitchen
<1>3. CASE order' = order
  BY <1>2, <1>3
<1>4. ASSUME NEW o \in Orders, OrderPaid(o) \/ OrderFreed(o)
      PROVE  OrderFitsKitchen'
  BY <1>0, <1>2, <1>4 DEF OrderPaid, OrderFreed, OrderRow
<1>5. CASE NewDay
  BY <1>0, <1>2, <1>5 DEF NewDay, OrderRow
<1>6. ASSUME NEW c \in Calls, Request(c)
      PROVE  OrderFitsKitchen'
  BY <1>1, <1>3, <1>6 DEF Request, AddItem, UpdateItem, BulkAdd, Checkout, Begin, ReadTotal,
     ReadOwn, FinishAdd, FinishUpdate, FinishBulk, CallEnds
<1> QED  BY <1>3, <1>4, <1>5, <1>6 DEF Next, Clear, RemoveItem, ToggleAvailable, vars

(***************************************************************************)
(* No order asks for more of an item than its batchLimit                   *)
(* (OrderFitsKitchen), whatever requests overlap and whatever the two sums *)
(* of the checkout were: their difference counts as zero when negative.    *)
(***************************************************************************)
THEOREM OrdersFitKitchen == Spec => []OrderFitsKitchen
<1>1. Init => OrderFitsKitchen
  BY CartAssumption DEF Init, OrderFitsKitchen, NoOrder, NoLines, CartAssumption
<1>2. TypeOK /\ OrderFitsKitchen /\ [Next]_vars => OrderFitsKitchen'
  BY CartAssumption, OrdersFitStep
<1> QED  BY <1>1, <1>2, CartIsTyped, PTL DEF Spec

-----------------------------------------------------------------------------
(* Who overbooks an item *)

\* At most one order of each customer.
OneEach(T) == \A o, p \in T : order[o].user = order[p].user => o = p

\* What orders took unseen, as rows.
UnseenRows == [o \in Orders |-> [NoOrder EXCEPT !.lines = unseen[o]]]

\* Orders of different customers fit the kitchen together, but for what they
\* took unseen.
Shared ==
  \A T \in SUBSET Occupying : OneEach(T) =>
    \A i \in Capped : Taken(order, T, i) <= Limit[i] + Taken(UnseenRows, T, i)

\* What a checkout has read and what it missed since cover what the others
\* have booked.
ReadsCover(c) ==
  call[c].kind = "checkout" =>
    \A i \in Capped :
      /\ call[c].step = "own" => Booked(i) <= call[c].total[i] + since[c][i]
      /\ call[c].step = "write" =>
           Taken(order, OrdersOfOthers(call[c].user), i) <= BookedForOthers(c, i) + since[c][i]

ShareInv == Shared /\ \A c \in Calls : ReadsCover(c)

LEMMA UnseenTypes ==
  ASSUME TypeOK
  PROVE  /\ UnseenRows \in [Orders -> OrderRow]
         /\ \A o \in Orders : UnseenRows[o].lines = unseen[o]
<1>1. NoOrder \in OrderRow
  BY LinesTypes DEF NoOrder, OrderRow
<1>2. \A o \in Orders : unseen[o] \in Lines
  BY DEF TypeOK
<1> QED  BY <1>1, <1>2 DEF UnseenRows, OrderRow

LEMMA UnseenIsSum ==
  ASSUME CartAssumption, TypeOK, NEW i
  PROVE  Unseen(i) = Taken(UnseenRows, Occupying, i)
<1> DEFINE f == Units(UnseenRows, i)
<1>1. Occupying \in SUBSET Orders
  BY DEF Occupying
<1>2. \A o \in Occupying : f[o] = unseen[o][i]
  BY <1>1, UnseenTypes DEF Units
<1>3. Unseen(i) = FoldOfLines(unseen, Occupying, i)
  BY DEF Unseen, FoldOfLines, MapThenSumSet, MapThenFoldSet, Pick
<1> HIDE DEF f
<1>4. Unseen(i) = Total(f, Occupying)
  BY <1>1, <1>2, <1>3, LinesFold
<1> QED  BY <1>4 DEF Taken, f

\* What a checkout computes from its reads is no debt.
LEMMA ComparedIsNat ==
  ASSUME TypeOK, NEW c \in Calls, NEW i \in Items
  PROVE  /\ call[c].total[i] \in Nat /\ call[c].own[i] \in Nat /\ since[c][i] \in Nat
         /\ call[c].lines[i] \in Nat /\ BookedForOthers(c, i) \in Nat
         /\ call[c].total[i] - call[c].own[i] <= BookedForOthers(c, i)
<1>1. /\ call[c].total[i] \in Nat /\ call[c].own[i] \in Nat /\ since[c][i] \in Nat
      /\ call[c].lines[i] \in Nat
  BY DEF TypeOK, Call, Lines
<1> QED  BY <1>1 DEF BookedForOthers, Greater

\* Orders leave the day and their rows keep customer, lines and what they
\* took unseen.
OrdersLeave ==
  /\ Occupying' \subseteq Occupying
  /\ unseen' = unseen
  /\ \A o \in Occupying' : order'[o].user = order[o].user /\ order'[o].lines = order[o].lines

\* Orders that are paid or freed take no unit of anyone.
LEMMA FewerTaken ==
  ASSUME CartAssumption, TypeOK, TypeOK', OrdersLeave, NEW i \in Items
  PROVE  /\ \A T \in SUBSET Occupying' : Taken(order', T, i) = Taken(order, T, i)
         /\ Booked(i)' <= Booked(i)
         /\ \A u : Taken(order', OrdersOfOthers(u)', i) <= Taken(order, OrdersOfOthers(u), i)
<1>0. order \in [Orders -> OrderRow] /\ order' \in [Orders -> OrderRow]
  BY DEF TypeOK
<1>1. Occupying \in SUBSET Orders /\ Occupying' \in SUBSET Occupying
  BY DEF Occupying, OrdersLeave
<1>2. ASSUME NEW T \in SUBSET Occupying'
      PROVE  Taken(order', T, i) = Taken(order, T, i)
  <2>1. T \in SUBSET Orders /\ \A o \in T : order'[o].lines = order[o].lines
    BY <1>1 DEF OrdersLeave
  <2> QED  BY <1>0, <2>1, TakenSame
<1>3. Booked(i)' <= Booked(i)
  <2>1. Taken(order, Occupying', i) <= Taken(order, Occupying, i)
    BY <1>0, <1>1, TakenOfPart
  <2>2. Taken(order', Occupying', i) = Taken(order, Occupying', i)
    BY <1>2
  <2> QED  BY <2>1, <2>2, SumsOfOrders
<1>4. ASSUME NEW u
      PROVE  Taken(order', OrdersOfOthers(u)', i) <= Taken(order, OrdersOfOthers(u), i)
  <2>1. /\ OrdersOfOthers(u)' \in SUBSET Occupying'
        /\ OrdersOfOthers(u)' \in SUBSET OrdersOfOthers(u)
        /\ OrdersOfOthers(u) \in SUBSET Orders
    BY <1>1 DEF OrdersOfOthers, OrdersLeave
  <2>2. Taken(order, OrdersOfOthers(u)', i) <= Taken(order, OrdersOfOthers(u), i)
    BY <1>0, <2>1, TakenOfPart
  <2>3. Taken(order', OrdersOfOthers(u)', i) = Taken(order, OrdersOfOthers(u)', i)
    BY <1>2, <2>1
  <2> QED  BY <2>2, <2>3
<1> QED  BY <1>2, <1>3, <1>4

\* A step in which nobody takes units.
LEMMA OrdersLeaveShare ==
  ASSUME CartAssumption, TypeOK, TypeOK', ShareInv, OrdersLeave,
         \A c \in Calls : (call'[c] = call[c] /\ since'[c] = since[c]) \/ ReadsCover(c)'
  PROVE  ShareInv'
<1>0. Capped \subseteq Items /\ \A i \in Capped : Limit[i] \in Nat
  BY DEF CartAssumption
<1>1. Shared'
  <2>0. UnseenRows' = UnseenRows
    BY DEF OrdersLeave, UnseenRows
  <2> SUFFICES ASSUME NEW T \in SUBSET Occupying', OneEach(T)', NEW i \in Capped
               PROVE  Taken(order', T, i) <= Limit[i] + Taken(UnseenRows, T, i)
    BY <2>0 DEF Shared
  <2>1. T \in SUBSET Occupying /\ OneEach(T)
    BY DEF OrdersLeave, OneEach
  <2>2. Taken(order, T, i) <= Limit[i] + Taken(UnseenRows, T, i)
    BY <2>1 DEF ShareInv, Shared
  <2>3. Taken(order', T, i) = Taken(order, T, i)
    BY <1>0, FewerTaken
  <2> QED  BY <2>2, <2>3
<1>2. ASSUME NEW c \in Calls
      PROVE  ReadsCover(c)'
  <2> SUFFICES ASSUME call'[c] = call[c], since'[c] = since[c], call[c].kind = "checkout",
                      NEW i \in Capped
               PROVE  /\ call[c].step = "own" => Booked(i)' <= call[c].total[i] + since[c][i]
                      /\ call[c].step = "write" =>
                           Taken(order', OrdersOfOthers(call[c].user)', i)
                             <= BookedForOthers(c, i) + since[c][i]
    BY DEF ReadsCover, BookedForOthers
  <2> DEFINE u == call[c].user
             mine == BookedForOthers(c, i)
  <2>1. /\ call[c].step = "own" => Booked(i) <= call[c].total[i] + since[c][i]
        /\ call[c].step = "write" =>
             Taken(order, OrdersOfOthers(u), i) <= mine + since[c][i]
    BY DEF ShareInv, ReadsCover
  <2>2. OrdersOfOthers(call[c].user)' = {o \in Occupying' : order'[o].user # u}
    BY DEF OrdersOfOthers
  <2> HIDE DEF u
  <2>3. OrdersOfOthers(u) \in SUBSET Orders /\ Occupying \in SUBSET Orders
    BY DEF OrdersOfOthers, Occupying
  <2>4. ASSUME NEW v
        PROVE  Taken(order', {o \in Occupying' : order'[o].user # v}, i)
                 <= Taken(order, OrdersOfOthers(v), i)
    BY <1>0, FewerTaken DEF OrdersOfOthers
  <2>5. /\ Booked(i)' <= Booked(i) /\ Booked(i) \in Int /\ Booked(i)' \in Int
        /\ Taken(order, OrdersOfOthers(u), i) \in Int
        /\ Taken(order', {o \in Occupying' : order'[o].user # u}, i) \in Int
    <3>1. /\ Occupying' \in SUBSET Orders
          /\ {o \in Occupying' : order'[o].user # u} \in SUBSET Orders
      BY DEF Occupying
    <3> QED  BY <1>0, <2>3, <3>1, FewerTaken, SumsOfOrders, TakenIsNat DEF TypeOK
  <2>6. call[c].total[i] \in Int /\ mine \in Int /\ since[c][i] \in Int
    BY <1>0, ComparedIsNat
  <2> HIDE DEF mine
  <2>7. call[c].step = "own" => Booked(i)' <= call[c].total[i] + since[c][i]
    BY <2>1, <2>5, <2>6
  <2>8. call[c].step = "write" =>
          Taken(order', OrdersOfOthers(call[c].user)', i) <= mine + since[c][i]
    BY <2>1, <2>2, <2>4, <2>5, <2>6
  <2> QED  BY <2>7, <2>8 DEF mine
<1> QED  BY <1>1, <1>2 DEF ShareInv

\* The rows as they are.
LEMMA OrdersStayShare ==
  ASSUME CartAssumption, TypeOK, TypeOK', ShareInv, order' = order, unseen' = unseen,
         \A c \in Calls : (call'[c] = call[c] /\ since'[c] = since[c]) \/ ReadsCover(c)'
  PROVE  ShareInv'
<1>1. OrdersLeave
  BY DEF OrdersLeave, Occupying, Occupies
<1> QED  BY <1>1, OrdersLeaveShare

\* Nobody holds a unit of a day that has just begun.
LEMMA NewDayShare ==
  ASSUME CartAssumption, TypeOK, TypeOK', NewDay
  PROVE  ShareInv'
<1>1. Occupying' = {}
  BY DEF TypeOK, NewDay, OrderRow, Occupying, Occupies
<1>2. \A r, i : Taken(r, {}, i) = 0
  BY TotalEmpty DEF Taken
<1>3. Shared'
  BY <1>1, <1>2 DEF Shared, CartAssumption
<1>4. ASSUME NEW c \in Calls, NEW i \in Items
      PROVE  /\ Booked(i)' <= call'[c].total[i] + since'[c][i]
             /\ Taken(order', OrdersOfOthers(call[c].user)', i) <= BookedForOthers(c, i)' + since'[c][i]
  <2>1. Booked(i)' = 0
    BY <1>1, <1>2, SumsOfOrders
  <2>2. OrdersOfOthers(call[c].user)' = {}
    BY <1>1 DEF OrdersOfOthers
  <2>3. call'[c].total[i] \in Nat /\ since'[c][i] \in Nat /\ BookedForOthers(c, i)' \in Nat
    <3>1. call'[c].total[i] \in Nat /\ call'[c].own[i] \in Nat /\ since'[c][i] \in Nat
      BY DEF TypeOK, Call, Lines
    <3> QED  BY <3>1 DEF BookedForOthers, Greater
  <2> QED  BY <1>2, <2>1, <2>2, <2>3
<1> QED  BY <1>3, <1>4 DEF ShareInv, ReadsCover, CartAssumption

\* What a checkout reads of all orders covers them.
LEMMA ReadTotalShare ==
  ASSUME CartAssumption, TypeOK, TypeOK', ShareInv, NEW c \in Calls, ReadTotal(c)
  PROVE  ShareInv'
<1>1. /\ order' = order /\ since' = since /\ unseen' = unseen
      /\ \A d \in Calls : d # c => call'[d] = call[d]
      /\ call'[c].step = "own" /\ call'[c].total = [i \in Items |-> Booked(i)]
  BY DEF ReadTotal, TypeOK, Call
<1>2. ASSUME NEW i \in Items
      PROVE  Booked(i)' <= call'[c].total[i] + since'[c][i]
  <2>1. Booked(i)' = Booked(i)
    <3>1. Occupying' = Occupying
      BY <1>1 DEF Occupying, Occupies
    <3> QED  BY <1>1, <3>1, SumsOfOrders
  <2>2. Booked(i) \in Int /\ since'[c][i] \in Nat
    <3>1. Occupying \in SUBSET Orders /\ order \in [Orders -> OrderRow]
      BY DEF Occupying, TypeOK
    <3>2. Taken(order, Occupying, i) \in Nat
      BY <3>1, TakenIsNat
    <3>3. since'[c][i] \in Nat
      BY DEF TypeOK, Lines
    <3> QED  BY <3>2, <3>3, SumsOfOrders
  <2> QED  BY <1>1, <2>1, <2>2
<1>3. ReadsCover(c)'
  BY <1>1, <1>2 DEF ReadsCover, CartAssumption
<1> QED  BY <1>1, <1>3, OrdersStayShare

\* Taking off the orders of the customer leaves those of the others covered.
LEMMA ReadOwnShare ==
  ASSUME CartAssumption, TypeOK, TypeOK', ShareInv, NEW c \in Calls, ReadOwn(c)
  PROVE  ShareInv'
<1> DEFINE u == call[c].user
<1>1. /\ order' = order /\ since' = since /\ unseen' = unseen
      /\ \A d \in Calls : d # c => call'[d] = call[d]
      /\ call[c].step = "own" /\ call'[c].step = "write" /\ call'[c].user = u
      /\ call'[c].kind = call[c].kind
      /\ call'[c].total = call[c].total /\ call'[c].own = [i \in Items |-> BookedBy(u, i)]
  BY DEF ReadOwn, TypeOK, Call
<1>2. OrdersOfOthers(call[c].user)' = OrdersOfOthers(u)
  <2>1. Occupying' = Occupying
    BY <1>1 DEF Occupying, Occupies
  <2> HIDE DEF u
  <2>2. OrdersOfOthers(call[c].user)' = {o \in Occupying' : order'[o].user # call'[c].user}
    BY DEF OrdersOfOthers
  <2> QED  BY <1>1, <2>1, <2>2 DEF OrdersOfOthers
<1> HIDE DEF u
<1>3. ASSUME NEW i \in Items, Booked(i) <= call[c].total[i] + since[c][i]
      PROVE  Taken(order, OrdersOfOthers(u), i) <= BookedForOthers(c, i)' + since[c][i]
  <2>1. /\ Occupying \in SUBSET Orders /\ OrdersBy(u) \in SUBSET Occupying
        /\ OrdersOfOthers(u) = Occupying \ OrdersBy(u) /\ OrdersBy(u) \in SUBSET Orders
        /\ OrdersOfOthers(u) \in SUBSET Orders
    BY DEF Occupying, OrdersBy, OrdersOfOthers
  <2>2. order \in [Orders -> OrderRow] /\ call[c].total[i] \in Nat /\ since[c][i] \in Nat
    BY DEF TypeOK, Call, Lines
  <2>3. /\ Taken(order, Occupying, i) = Taken(order, OrdersBy(u), i) + Taken(order, OrdersOfOthers(u), i)
        /\ Taken(order, OrdersBy(u), i) \in Nat /\ Taken(order, OrdersOfOthers(u), i) \in Nat
    BY <2>1, <2>2, TakenSplits, TakenIsNat
  <2>4. Booked(i) = Taken(order, Occupying, i) /\ BookedBy(u, i) = Taken(order, OrdersBy(u), i)
    BY SumsOfOrders
  <2>5. BookedForOthers(c, i)' = Greater(0, call[c].total[i] - BookedBy(u, i))
    BY <1>1 DEF BookedForOthers
  <2>6. call[c].total[i] - BookedBy(u, i) <= BookedForOthers(c, i)' /\ BookedForOthers(c, i)' \in Int
    BY <2>2, <2>3, <2>4, <2>5 DEF Greater
  <2> QED  BY <1>3, <2>2, <2>3, <2>4, <2>6
<1>4. ReadsCover(c)'
  <2> SUFFICES ASSUME call[c].kind = "checkout", NEW i \in Capped
               PROVE  Taken(order, OrdersOfOthers(u), i) <= BookedForOthers(c, i)' + since[c][i]
    <3>1. Capped \subseteq Items
      BY DEF CartAssumption
    <3>2. order' = order /\ OrdersOfOthers(call[c].user)' = OrdersOfOthers(u)
      BY <1>1, <1>2
    <3> QED  BY <1>1, <3>1, <3>2 DEF ReadsCover
  <2>1. i \in Items /\ Booked(i) <= call[c].total[i] + since[c][i]
    BY <1>1 DEF ReadsCover, ShareInv, CartAssumption
  <2> QED  BY <1>3, <2>1
<1> QED  BY <1>1, <1>4, OrdersStayShare

-----------------------------------------------------------------------------
(* Units that are taken *)

\* Order o takes units beside the orders of the day: they fit beside what the
\* others hold but for m, or all of them are taken unseen.
Takes(o, m) ==
  /\ o \notin Occupying /\ Occupying' = Occupying \cup {o}
  /\ \A p \in Orders : p # o => order'[p] = order[p]
  /\ unseen' = [unseen EXCEPT ![o] = m]
  /\ m \in Lines
  /\ \A i \in Capped : order'[o].lines[i] > 0 =>
       \/ order'[o].lines[i] <= m[i]
       \/ Taken(order, OrdersOfOthers(order'[o].user), i) + order'[o].lines[i] <= Limit[i] + m[i]

\* They fit beside one order of each other customer.
LEMMA TakesShared ==
  ASSUME CartAssumption, TypeOK, TypeOK', Shared, NEW o \in Orders, NEW m, Takes(o, m)
  PROVE  Shared'
<1> DEFINE u == order'[o].user
           lines == order'[o].lines
           W == UnseenRows
           X == UnseenRows'
<1>0. /\ order \in [Orders -> OrderRow] /\ order' \in [Orders -> OrderRow]
      /\ W \in [Orders -> OrderRow] /\ X \in [Orders -> OrderRow]
      /\ Capped \subseteq Items /\ Occupying \in SUBSET Orders
  <2>1. X \in [Orders -> OrderRow]
    <3>1. NoOrder \in OrderRow /\ unseen' \in [Orders -> Lines]
      BY LinesTypes DEF NoOrder, OrderRow, TypeOK
    <3> QED  BY <3>1 DEF UnseenRows, OrderRow
  <2> QED  BY <2>1, UnseenTypes DEF TypeOK, CartAssumption, Occupying
<1>1. X[o].lines = m /\ \A p \in Orders : p # o => X[p].lines = W[p].lines
  <2>1. unseen' = [unseen EXCEPT ![o] = m] /\ unseen \in [Orders -> Lines]
    BY DEF Takes, TypeOK
  <2> QED  BY <2>1 DEF UnseenRows, NoOrder
<1> HIDE DEF W, X
<1>4. ASSUME NEW T \in SUBSET Occupying', OneEach(T)', NEW i \in Capped
      PROVE  Taken(order', T, i) <= Limit[i] + Taken(X, T, i)
  <2> DEFINE R == T \ {o}
  <2>1. R \in SUBSET Occupying /\ R \in SUBSET Orders /\ T \in SUBSET Orders
    BY <1>0 DEF Takes
  <2>2. \A p \in R : order'[p] = order[p] /\ X[p].lines = W[p].lines
    BY <1>1, <2>1 DEF Takes
  <2>3. OneEach(R)
    BY <1>4, <2>2 DEF OneEach
  <2>4. o \in T => R \in SUBSET OrdersOfOthers(u)
    BY <1>4, <2>1, <2>2 DEF OneEach, OrdersOfOthers
  <2>5. lines[i] \in Nat /\ m[i] \in Nat /\ Limit[i] \in Nat /\ i \in Items
    BY <1>0 DEF Takes, OrderRow, Lines, CartAssumption
  <2>6. (o \notin T => R = T) /\ (o \in T => T = R \cup {o} /\ o \notin R)
    OBVIOUS
  <2> HIDE DEF R
  <2>7. /\ Taken(order, R, i) \in Nat /\ Taken(W, R, i) \in Nat
        /\ Taken(order, R, i) <= Limit[i] + Taken(W, R, i)
    <3>1. Taken(order, R, i) <= Limit[i] + Taken(UnseenRows, R, i)
      BY <2>1, <2>3 DEF Shared
    <3> QED  BY <1>0, <2>1, <2>5, <3>1, TakenIsNat DEF W
  <2>8. Taken(order', R, i) = Taken(order, R, i) /\ Taken(X, R, i) = Taken(W, R, i)
    BY <1>0, <2>1, <2>2, <2>5, TakenSame
  <2>9. CASE o \notin T
    BY <2>6, <2>7, <2>8, <2>9
  <2>10. CASE o \in T
    <3>1. /\ Taken(order', T, i) = lines[i] + Taken(order, R, i)
          /\ Taken(X, T, i) = m[i] + Taken(W, R, i)
      <4> HIDE DEF lines
      <4>0. o \notin R /\ T = R \cup {o} /\ i \in Items
        BY <2>5, <2>6, <2>10
      <4>1. Taken(order', R \cup {o}, i) = order'[o].lines[i] + Taken(order', R, i)
        BY <1>0, <2>1, <4>0, TakenWith
      <4>2. Taken(X, R \cup {o}, i) = X[o].lines[i] + Taken(X, R, i)
        BY <1>0, <2>1, <4>0, TakenWith
      <4> QED  BY <1>1, <2>6, <2>8, <2>10, <4>1, <4>2 DEF lines
    <3>2. CASE lines[i] > 0 /\ ~(lines[i] <= m[i])
      <4>1. Taken(order, OrdersOfOthers(u), i) + lines[i] <= Limit[i] + m[i]
        BY <3>2 DEF Takes
      <4>2. OrdersOfOthers(u) \in SUBSET Orders
        BY DEF OrdersOfOthers, Occupying
      <4> HIDE DEF u, lines
      <4>3. /\ Taken(order, R, i) <= Taken(order, OrdersOfOthers(u), i)
            /\ Taken(order, OrdersOfOthers(u), i) \in Nat
        BY <1>0, <2>4, <2>5, <2>10, <4>2, TakenOfPart, TakenIsNat
      <4> QED  BY <2>5, <2>7, <3>1, <4>1, <4>3
    <3>3. CASE ~(lines[i] > 0) \/ lines[i] <= m[i]
      <4> HIDE DEF u, lines
      <4> QED  BY <2>5, <2>7, <3>1, <3>3
    <3> QED  BY <3>2, <3>3
  <2> QED  BY <2>9, <2>10
<1> QED  BY <1>4 DEF Shared, X

\* Checkouts in progress miss them, and count them as missed.
LEMMA TakesCovered ==
  ASSUME CartAssumption, TypeOK, TypeOK', NEW o \in Orders, NEW m, Takes(o, m),
         NEW c \in Calls, ReadsCover(c), call'[c] = call[c],
         since'[c] = Missed(order'[o].user, order'[o].lines)[c]
  PROVE  ReadsCover(c)'
<1> SUFFICES ASSUME call[c].kind = "checkout", NEW i \in Capped
             PROVE  /\ call[c].step = "own" => Booked(i)' <= call[c].total[i] + since'[c][i]
                    /\ call[c].step = "write" =>
                         Taken(order', OrdersOfOthers(call[c].user)', i)
                           <= BookedForOthers(c, i) + since'[c][i]
  BY DEF ReadsCover, BookedForOthers
<1> DEFINE v == order'[o].user
           lines == order'[o].lines
           u == call[c].user
<1>0. /\ order \in [Orders -> OrderRow] /\ order' \in [Orders -> OrderRow] /\ i \in Items
      /\ Occupying \in SUBSET Orders /\ lines[i] \in Nat
      /\ OrdersOfOthers(u) \in SUBSET Orders
  BY DEF TypeOK, CartAssumption, Occupying, OrderRow, Lines, OrdersOfOthers
<1>1. /\ call[c].total[i] \in Nat /\ since[c][i] \in Nat /\ BookedForOthers(c, i) \in Nat
  BY <1>0, ComparedIsNat
<1>2. since'[c][i] = IF call[c].step = "own" \/ (call[c].step = "write" /\ u # v)
                     THEN since[c][i] + lines[i] ELSE since[c][i]
  BY <1>0 DEF Missed, Misses
<1>3. ASSUME NEW S \in SUBSET Occupying
      PROVE  /\ Taken(order', S, i) = Taken(order, S, i)
             /\ Taken(order', S \cup {o}, i) = lines[i] + Taken(order, S, i)
             /\ Taken(order, S, i) \in Nat
  <2>1. S \in SUBSET Orders /\ o \notin S /\ \A p \in S : order'[p].lines = order[p].lines
    BY <1>0 DEF Takes
  <2> HIDE DEF lines
  <2>2. Taken(order', S, i) = Taken(order, S, i)
    BY <1>0, <2>1, TakenSame
  <2>3. Taken(order', S \cup {o}, i) = order'[o].lines[i] + Taken(order', S, i)
    BY <1>0, <2>1, TakenWith
  <2> QED  BY <1>0, <2>1, <2>2, <2>3, TakenIsNat DEF lines
<1>4. CASE call[c].step = "own"
  <2>1. Booked(i) <= call[c].total[i] + since[c][i]
    BY <1>4 DEF ReadsCover
  <2>2. Booked(i)' = lines[i] + Booked(i) /\ Booked(i) \in Nat
    BY <1>3, SumsOfOrders DEF Takes
  <2> HIDE DEF lines, u, v
  <2> QED  BY <1>0, <1>1, <1>2, <1>4, <2>1, <2>2
<1>5. CASE call[c].step = "write"
  <2>1. Taken(order, OrdersOfOthers(u), i) <= BookedForOthers(c, i) + since[c][i]
    BY <1>5 DEF ReadsCover
  <2>2. OrdersOfOthers(call[c].user)' =
          IF u # v THEN OrdersOfOthers(u) \cup {o} ELSE OrdersOfOthers(u)
    <3>1. OrdersOfOthers(call[c].user)' = {p \in Occupying' : order'[p].user # u}
      BY DEF OrdersOfOthers
    <3> QED  BY <1>0, <3>1 DEF OrdersOfOthers, Takes
  <2>3. OrdersOfOthers(u) \in SUBSET Occupying
    BY DEF OrdersOfOthers
  <2> HIDE DEF u, v, lines
  <2>4. /\ Taken(order', OrdersOfOthers(u), i) = Taken(order, OrdersOfOthers(u), i)
        /\ Taken(order', OrdersOfOthers(u) \cup {o}, i) = lines[i] + Taken(order, OrdersOfOthers(u), i)
        /\ Taken(order, OrdersOfOthers(u), i) \in Nat
    BY <1>3, <2>3
  <2>5. CASE u = v
    BY <1>1, <1>2, <1>5, <2>1, <2>2, <2>4, <2>5
  <2>6. CASE u # v
    BY <1>0, <1>1, <1>2, <1>5, <2>1, <2>2, <2>4, <2>6
  <2> QED  BY <1>5, <2>5, <2>6
<1> QED  BY <1>4, <1>5

\* The order of a checkout fits beside the others but for what it missed.
LEMMA CreateOrderTakes ==
  ASSUME CartAssumption, TypeOK, TypeOK', NEW c \in Calls, ReadsCover(c),
         NEW o \in Orders, NEW free \in BOOLEAN, CreateOrder(c, o, free)
  PROVE  /\ Takes(o, since[c])
         /\ order[o] = NoOrder /\ order'[o].user = call[c].user /\ order'[o].lines = call[c].lines
         /\ \A i \in Capped : call[c].lines[i] > 0 =>
              Taken(order, OrdersOfOthers(call[c].user), i) + call[c].lines[i]
                <= Limit[i] + since[c][i]
<1> DEFINE u == call[c].user
           lines == call[c].lines
<1>0. /\ order \in [Orders -> OrderRow] /\ Capped \subseteq Items
      /\ since[c] \in Lines /\ unseen' = [unseen EXCEPT ![o] = since[c]]
  BY DEF TypeOK, CartAssumption, CreateOrder
<1>1. /\ order[o] = NoOrder /\ order'[o].user = u /\ order'[o].lines = lines
      /\ order'[o].today /\ order'[o].state \in {"open", "paid"}
      /\ \A p \in Orders : p # o => order'[p] = order[p]
  BY <1>0 DEF CreateOrder
<1>2. o \notin Occupying /\ Occupying' = Occupying \cup {o}
  BY <1>1 DEF Occupying, Occupies, NoOrder
<1>3. ASSUME NEW i \in Capped, lines[i] > 0
      PROVE  Taken(order, OrdersOfOthers(u), i) + lines[i] <= Limit[i] + since[c][i]
  <2>1. BookedForOthers(c, i) + lines[i] <= Limit[i]
    BY <1>3 DEF CreateOrder, WithinBatch
  <2>2. Taken(order, OrdersOfOthers(u), i) <= BookedForOthers(c, i) + since[c][i]
    BY DEF ReadsCover, CreateOrder, Writes
  <2>3. lines[i] \in Nat /\ BookedForOthers(c, i) \in Nat /\ since[c][i] \in Nat /\ Limit[i] \in Nat
    BY <1>0, ComparedIsNat DEF CartAssumption
  <2>4. OrdersOfOthers(u) \in SUBSET Orders /\ i \in Items
    BY <1>0 DEF OrdersOfOthers, Occupying
  <2> HIDE DEF u, lines
  <2>5. Taken(order, OrdersOfOthers(u), i) \in Nat
    BY <1>0, <2>4, TakenIsNat
  <2> QED  BY <2>1, <2>2, <2>3, <2>5
<1> HIDE DEF u, lines
<1>4. Takes(o, since[c])
  BY <1>0, <1>1, <1>2, <1>3 DEF Takes
<1> QED  BY <1>1, <1>3, <1>4 DEF u, lines

LEMMA CreateOrderShare ==
  ASSUME CartAssumption, TypeOK, TypeOK', ShareInv, NEW c \in Calls,
         NEW o \in Orders, NEW free \in BOOLEAN, CreateOrder(c, o, free)
  PROVE  ShareInv'
<1>1. /\ Takes(o, since[c])
      /\ order'[o].user = call[c].user /\ order'[o].lines = call[c].lines
  BY CreateOrderTakes DEF ShareInv
<1>2. Shared'
  BY <1>1, TakesShared DEF ShareInv, TypeOK
<1>3. ReadsCover(c)'
  BY NoCallTypes DEF CreateOrder, Writes, TypeOK, ReadsCover
<1>4. ASSUME NEW d \in Calls, d # c
      PROVE  ReadsCover(d)'
  <2>1. /\ call'[d] = call[d]
        /\ since'[d] = Missed(order'[o].user, order'[o].lines)[d]
    BY <1>1, <1>4 DEF CreateOrder, Writes, TypeOK, Missed
  <2> QED  BY <1>1, <2>1, TakesCovered DEF ShareInv
<1> QED  BY <1>2, <1>3, <1>4 DEF ShareInv

\* An order that was delivered or cancelled takes its units again.
TakenAgain(o) ==
  /\ OrderPaid(o) /\ order[o].state = "freed" /\ order[o].today

LEMMA TakenAgainTakes ==
  ASSUME CartAssumption, TypeOK, TypeOK', NEW o \in Orders, TakenAgain(o)
  PROVE  /\ Takes(o, order[o].lines)
         /\ order'[o].user = order[o].user /\ order'[o].lines = order[o].lines
         /\ call' = call /\ since' = Missed(order[o].user, order[o].lines)
<1>1. /\ order'[o].user = order[o].user /\ order'[o].lines = order[o].lines
      /\ order'[o].today /\ order'[o].state = "paid"
      /\ \A p \in Orders : p # o => order'[p] = order[p]
      /\ order[o].lines \in Lines
  BY DEF TakenAgain, OrderPaid, TypeOK, OrderRow
<1>2. o \notin Occupying /\ Occupying' = Occupying \cup {o}
  BY <1>1 DEF TakenAgain, Occupying, Occupies
<1>3. \A i \in Capped : order'[o].lines[i] > 0 => order'[o].lines[i] <= order[o].lines[i]
  BY <1>1 DEF Lines, CartAssumption
<1> QED  BY <1>1, <1>2, <1>3 DEF Takes, TakenAgain, OrderPaid

LEMMA TakenAgainShare ==
  ASSUME CartAssumption, TypeOK, TypeOK', ShareInv, NEW o \in Orders, TakenAgain(o)
  PROVE  ShareInv'
<1>1. /\ Takes(o, order[o].lines) /\ call' = call
      /\ since' = Missed(order'[o].user, order'[o].lines)
  BY TakenAgainTakes
<1>2. Shared'
  BY <1>1, TakesShared DEF ShareInv
<1>3. \A c \in Calls : ReadsCover(c)'
  BY <1>1, TakesCovered DEF ShareInv
<1> QED  BY <1>2, <1>3 DEF ShareInv

\* An order that is paid in time, or of another day, or freed.
LEMMA OrderLeaves ==
  ASSUME TypeOK, NEW o \in Orders, OrderPaid(o) \/ OrderFreed(o), ~TakenAgain(o)
  PROVE  /\ OrdersLeave /\ call' = call /\ since' = since
         /\ \A p \in Orders : order'[p].user = order[p].user /\ order'[p].lines = order[p].lines
<1>1. /\ call' = call /\ \A p \in Orders : p # o => order'[p] = order[p]
      /\ order'[o].user = order[o].user /\ order'[o].lines = order[o].lines
      /\ order'[o].today = order[o].today
      /\ order'[o].state = "freed" \/ order'[o].state = "paid"
  BY DEF OrderPaid, OrderFreed, TypeOK, OrderRow
<1>2. since' = since /\ unseen' = unseen
  BY DEF OrderPaid, OrderFreed, TakenAgain
<1>3. order'[o].state = "paid" => order[o].state = "open" \/ ~order[o].today
  BY DEF OrderPaid, OrderFreed, TakenAgain, TypeOK, OrderRow
<1>4. Occupying' \subseteq Occupying
  BY <1>1, <1>3 DEF Occupying, Occupies
<1> QED  BY <1>1, <1>2, <1>4 DEF OrdersLeave, Occupying

\* Every step keeps the invariant of shares.
LEMMA ShareStep ==
  ASSUME CartAssumption, TypeOK, TypeOK', ShareInv, [Next]_vars
  PROVE  ShareInv'
<1>0. order \in [Orders -> OrderRow] /\ call \in [Calls -> Call] /\ since \in [Calls -> Lines]
  BY DEF TypeOK
<1>1. ASSUME NEW c \in Calls, Request(c)
      PROVE  ShareInv'
  <2>1. CASE /\ order' = order /\ unseen' = unseen
             /\ \A d \in Calls : \/ call'[d] = call[d] /\ since'[d] = since[d]
                                 \/ call'[d].kind # "checkout"
                                 \/ call'[d].step = "total"
    BY <2>1, OrdersStayShare DEF ReadsCover
  <2>2. ASSUME NEW kind, NEW step, NEW u, NEW lines, NEW n, Begin(c, kind, step, u, lines, n),
               kind # "checkout" \/ step = "total"
        PROVE  ShareInv'
    <3> DEFINE v == [NoCall EXCEPT !.kind = kind, !.step = step, !.user = u, !.lines = lines, !.n = n]
    <3>1. v.kind = kind /\ v.step = step
      BY DEF NoCall
    <3>2. /\ order' = order /\ unseen' = unseen /\ since' = since
          /\ call' = [call EXCEPT ![c] = v]
      BY <2>2 DEF Begin
    <3> HIDE DEF v
    <3> QED  BY <1>0, <2>1, <2>2, <3>1, <3>2
  <2>3. ASSUME NEW u \in Users, NEW i \in Items, NEW n \in Quantities,
               AddItem(c, u, i, n) \/ UpdateItem(c, u, i, n) \/ BulkAdd(c, u, i, n)
        PROVE  ShareInv'
    BY <2>2, <2>3 DEF AddItem, UpdateItem, BulkAdd
  <2>4. ASSUME NEW u \in Users, Checkout(c, u)
        PROVE  ShareInv'
    BY <2>2, <2>4 DEF Checkout
  <2>5. CASE FinishAdd(c) \/ FinishUpdate(c) \/ FinishBulk(c) \/ CallEnds(c)
    <3>1. /\ order' = order /\ unseen' = unseen /\ call' = [call EXCEPT ![c] = NoCall]
          /\ since' = since \/ since' = [since EXCEPT ![c] = NoLines]
      BY <2>5 DEF FinishAdd, FinishUpdate, FinishBulk, CallEnds, Writes
    <3> QED  BY <1>0, <2>1, <3>1, NoCallTypes
  <2> QED  BY <1>1, <2>3, <2>4, <2>5, ReadTotalShare, ReadOwnShare, CreateOrderShare DEF Request
<1>2. CASE UNCHANGED <<order, call, since, unseen>>
  BY <1>2, OrdersStayShare
<1>3. ASSUME NEW o \in Orders, OrderPaid(o) \/ OrderFreed(o)
      PROVE  ShareInv'
  <2>1. CASE TakenAgain(o)
    BY <2>1, TakenAgainShare
  <2>2. CASE ~TakenAgain(o)
    BY <1>3, <2>2, OrderLeaves, OrdersLeaveShare
  <2> QED  BY <2>1, <2>2
<1>4. CASE NewDay
  BY <1>4, NewDayShare
<1> QED  BY <1>1, <1>2, <1>3, <1>4 DEF Next, Clear, RemoveItem, ToggleAvailable, vars

LEMMA InitShare ==
  ASSUME CartAssumption, Init
  PROVE  ShareInv
<1>1. Occupying = {}
  BY DEF Init, Occupying, Occupies, NoOrder
<1>2. \A r, i : Taken(r, {}, i) = 0
  BY TotalEmpty DEF Taken
<1>3. Shared
  BY <1>1, <1>2 DEF Shared, CartAssumption
<1>4. \A c \in Calls : ReadsCover(c)
  BY NoCallTypes DEF Init, ReadsCover
<1> QED  BY <1>3, <1>4 DEF ShareInv

\* Without two orders of one customer the orders are one of each, and fit but
\* for what they took unseen.
LEMMA SharedMeans ==
  ASSUME CartAssumption, TypeOK, Shared
  PROVE  OnlyOwnOrdersOverbook
<1> SUFFICES ASSUME NEW i \in Capped, ~TwoOfOneCustomer(i)
             PROVE  Booked(i) <= Limit[i] + Unseen(i)
  BY DEF OnlyOwnOrdersOverbook
<1> DEFINE T == {o \in Occupying : order[o].lines[i] > 0}
           Z == Occupying \ T
           f == Units(order, i)
           W == UnseenRows
<1>1. /\ order \in [Orders -> OrderRow] /\ i \in Items /\ Limit[i] \in Nat
      /\ Occupying \in SUBSET Orders /\ T \in SUBSET Occupying /\ T \in SUBSET Orders
      /\ Z \in SUBSET Orders /\ W \in [Orders -> OrderRow]
  BY UnseenTypes DEF TypeOK, CartAssumption, Occupying
<1>2. OneEach(T)
  BY DEF OneEach, TwoOfOneCustomer
<1>3. Taken(order, T, i) <= Limit[i] + Taken(W, T, i)
  BY <1>1, <1>2 DEF Shared
<1>4. \A o \in Z : f[o] = 0
  BY <1>1 DEF Units, OrderRow, Lines
<1> HIDE DEF T, f, W
<1>5. Total(f, Z) = 0
  <2>1. IsFiniteSet(Z)
    BY <1>1, FS_Subset DEF CartAssumption
  <2> HIDE DEF Z
  <2> QED  BY <1>4, <2>1, TotalOfZeros
<1>6. Booked(i) = Taken(order, T, i) + Taken(order, Z, i)
  <2>1. Z = Occupying \ T
    OBVIOUS
  <2> HIDE DEF Z
  <2>2. Taken(order, Occupying, i) = Taken(order, T, i) + Taken(order, Z, i)
    BY <1>1, <2>1, TakenSplits
  <2> QED  BY <2>2, SumsOfOrders
<1>7. Taken(order, T, i) \in Nat
  BY <1>1, TakenIsNat
<1>8. /\ Taken(W, T, i) <= Unseen(i) /\ Taken(W, T, i) \in Nat /\ Unseen(i) \in Nat
  <2>1. Unseen(i) = Taken(W, Occupying, i)
    BY UnseenIsSum DEF W
  <2> QED  BY <1>1, <2>1, TakenOfPart, TakenIsNat
<1> QED  BY <1>1, <1>3, <1>5, <1>6, <1>7, <1>8 DEF Taken, f

(***************************************************************************)
(* Unless a customer has several orders of an item, it is overbooked by no *)
(* more units than were taken unseen (OnlyOwnOrdersOverbook), whatever     *)
(* requests and checkouts overlap and however orders are paid, freed, paid *)
(* late and forgotten at midnight between their reads.                     *)
(***************************************************************************)
THEOREM OthersNeverOverbook == Spec => []OnlyOwnOrdersOverbook
<1>1. Init => TypeOK /\ ShareInv
  BY CartAssumption, InitTypes, InitShare
<1>2. TypeOK /\ ShareInv /\ [Next]_vars => TypeOK' /\ ShareInv'
  BY CartAssumption, TypeStep, ShareStep
<1>3. TypeOK /\ ShareInv => OnlyOwnOrdersOverbook
  BY CartAssumption, SharedMeans DEF ShareInv
<1> QED  BY <1>1, <1>2, <1>3, PTL DEF Spec

-----------------------------------------------------------------------------
(* The checkout books against the others *)

\* A request that has begun, and every order, knows its customer.
CallerIsKnown == \A c \in Calls : call[c].kind # "none" => call[c].user \in Users
OwnerIsKnown == \A o \in Orders : order[o].state # "none" => order[o].user \in Users

LEMMA CallerStep ==
  ASSUME TypeOK, CallerIsKnown, [Next]_vars
  PROVE  CallerIsKnown'
<1>0. call \in [Calls -> Call]
  BY DEF TypeOK
<1>1. ASSUME NEW c \in Calls, NEW v, call' = [call EXCEPT ![c] = v],
             v.kind # "none" => v.user \in Users
      PROVE  CallerIsKnown'
  BY <1>0, <1>1 DEF CallerIsKnown
<1>2. ASSUME NEW c \in Calls, NEW kind, NEW step, NEW u \in Users, NEW lines, NEW n,
             Begin(c, kind, step, u, lines, n)
      PROVE  CallerIsKnown'
  <2> DEFINE v == [NoCall EXCEPT !.kind = kind, !.step = step, !.user = u, !.lines = lines, !.n = n]
  <2>1. v.user = u
    BY DEF NoCall
  <2>2. call' = [call EXCEPT ![c] = v]
    BY <1>2 DEF Begin
  <2> HIDE DEF v
  <2> QED  BY <1>1, <2>1, <2>2
<1>3. ASSUME NEW c \in Calls, call' = [call EXCEPT ![c] = NoCall]
      PROVE  CallerIsKnown'
  BY <1>1, <1>3 DEF NoCall
<1>4. ASSUME NEW c \in Calls, ReadTotal(c) \/ ReadOwn(c)
      PROVE  CallerIsKnown'
  <2>1. /\ \A d \in Calls : d # c => call'[d] = call[d]
        /\ call'[c].kind = call[c].kind /\ call'[c].user = call[c].user
    BY <1>0, <1>4 DEF ReadTotal, ReadOwn, Call
  <2> QED  BY <2>1 DEF CallerIsKnown
<1>5. ASSUME NEW c \in Calls, Request(c)
      PROVE  CallerIsKnown'
  <2>1. ASSUME NEW u \in Users, NEW i \in Items, NEW n \in Quantities,
               AddItem(c, u, i, n) \/ UpdateItem(c, u, i, n) \/ BulkAdd(c, u, i, n)
        PROVE  CallerIsKnown'
    BY <1>2, <2>1 DEF AddItem, UpdateItem, BulkAdd
  <2>2. ASSUME NEW u \in Users, Checkout(c, u)
        PROVE  CallerIsKnown'
    BY <1>2, <2>2 DEF Checkout
  <2>3. ASSUME \/ FinishAdd(c) \/ FinishUpdate(c) \/ FinishBulk(c) \/ CallEnds(c)
               \/ \E o \in Orders, free \in BOOLEAN : CreateOrder(c, o, free)
        PROVE  CallerIsKnown'
    BY <1>3, <2>3 DEF FinishAdd, FinishUpdate, FinishBulk, CallEnds, CreateOrder, Writes
  <2> QED  BY <1>4, <1>5, <2>1, <2>2, <2>3 DEF Request
<1>6. CASE call' = call
  BY <1>6 DEF CallerIsKnown
<1> QED  BY <1>5, <1>6 DEF Next, Clear, RemoveItem, OrderPaid, OrderFreed, ToggleAvailable,
   NewDay, vars

LEMMA OwnerStep ==
  ASSUME TypeOK, CallerIsKnown, OwnerIsKnown, [Next]_vars
  PROVE  OwnerIsKnown'
<1>0. order \in [Orders -> OrderRow]
  BY DEF TypeOK
<1>1. ASSUME NEW c \in Calls, NEW o \in Orders, NEW free \in BOOLEAN, CreateOrder(c, o, free)
      PROVE  OwnerIsKnown'
  <2>1. order'[o].user = call[c].user /\ \A p \in Orders : p # o => order'[p] = order[p]
    BY <1>0, <1>1 DEF CreateOrder
  <2>2. call[c].user \in Users
    BY <1>1 DEF CreateOrder, Writes, CallerIsKnown
  <2> QED  BY <2>1, <2>2 DEF OwnerIsKnown
<1>2. ASSUME NEW o \in Orders, OrderPaid(o) \/ OrderFreed(o)
      PROVE  OwnerIsKnown'
  <2>1. /\ order'[o].user = order[o].user /\ order[o].state # "none"
        /\ \A p \in Orders : p # o => order'[p] = order[p]
    BY <1>0, <1>2 DEF OrderPaid, OrderFreed, OrderRow
  <2> QED  BY <2>1 DEF OwnerIsKnown
<1>3. CASE NewDay
  BY <1>0, <1>3 DEF NewDay, OwnerIsKnown, OrderRow
<1>4. CASE order' = order
  BY <1>4 DEF OwnerIsKnown
<1>5. ASSUME NEW c \in Calls, Request(c)
      PROVE  OwnerIsKnown'
  BY <1>1, <1>4, <1>5 DEF Request, AddItem, UpdateItem, BulkAdd, Checkout, Begin, ReadTotal,
     ReadOwn, FinishAdd, FinishUpdate, FinishBulk, CallEnds
<1> QED  BY <1>2, <1>3, <1>4, <1>5 DEF Next, Clear, RemoveItem, ToggleAvailable, vars

\* What the abstract kitchen adds up is what the other customers' orders take.
LEMMA OthersHold ==
  ASSUME CartAssumption, NEW u, NEW i
  PROVE  Day!HeldByOthers(u, i) = Taken(order, OrdersOfOthers(u), i)
<1> DEFINE T == OrdersOfOthers(u)
           L == [o \in Orders |-> order[o].lines]
           f == Units(order, i)
<1>1. T \in SUBSET Orders
  BY DEF OrdersOfOthers, Occupying
<1>2. {o \in Occupying : [p \in Orders |-> order[p].user][o] # u} = T
  BY DEF OrdersOfOthers, Occupying
<1>3. \A o \in T : f[o] = L[o][i]
  BY <1>1 DEF Units
<1>4. Day!HeldByOthers(u, i) = FoldOfLines(L, T, i)
  BY <1>2 DEF Day!HeldByOthers, Day!MapThenSumSet, Day!MapThenFoldSet, FoldOfLines, Pick
<1> HIDE DEF f, L, T
<1>5. Day!HeldByOthers(u, i) = Total(f, T)
  BY <1>1, <1>3, <1>4, LinesFold
<1> QED  BY <1>5 DEF Taken, f, T

\* The order is created against what the others hold now, but for what was
\* taken since the reads.
LEMMA CreateOrderBooks ==
  ASSUME CartAssumption, TypeOK, TypeOK', ShareInv, NEW c \in Calls,
         NEW o \in Orders, NEW free \in BOOLEAN, CreateOrder(c, o, free),
         NEW u \in Users, u = call[c].user
  PROVE  Day!Book(c, o, u)
<1> DEFINE lines == call[c].lines
<1>0. order \in [Orders -> OrderRow] /\ order' \in [Orders -> OrderRow]
  BY DEF TypeOK
<1>1. /\ Takes(o, since[c]) /\ order[o] = NoOrder
      /\ order'[o].user = u /\ order'[o].lines = lines
      /\ \A i \in Capped : lines[i] > 0 =>
           Taken(order, OrdersOfOthers(u), i) + lines[i] <= Limit[i] + since[c][i]
  BY CreateOrderTakes DEF ShareInv
<1>2. /\ Occupying' = Occupying \cup {o} /\ \A p \in Orders : p # o => order'[p] = order[p]
      /\ order[o].user = None
  BY <1>1 DEF Takes, NoOrder
<1>3. lines \in [Items -> Nat]
  BY DEF TypeOK, Call, Lines
<1>4. /\ [p \in Orders |-> order[p].user]' = [[p \in Orders |-> order[p].user] EXCEPT ![o] = u]
      /\ [p \in Orders |-> order[p].lines]' = [[p \in Orders |-> order[p].lines] EXCEPT ![o] = lines]
      /\ [p \in Orders |-> order[p].lines]'[o] = lines
  BY <1>1, <1>2
<1>5. Day!Fits(c, u, lines)
  <2> HIDE DEF lines
  <2> QED  BY <1>1, OthersHold DEF Day!Fits
<1>6. since'[c] = Day!Nothing /\ Day!Take(lines, Calls \ {c})
  <2>1. since' = [Missed(u, lines) EXCEPT ![c] = NoLines] /\ since \in [Calls -> Lines]
    BY DEF CreateOrder, TypeOK
  <2> HIDE DEF lines
  <2>2. \A d \in Calls : Missed(u, lines)[d] \in {since[d], [i \in Items |-> since[d][i] + lines[i]]}
    BY DEF Missed
  <2>3. DOMAIN Missed(u, lines) = Calls
    BY DEF Missed
  <2>4. since'[c] = NoLines /\ \A d \in Calls \ {c} : since'[d] = Missed(u, lines)[d]
    <3>1. Missed(u, lines) = [d \in Calls |-> Missed(u, lines)[d]]
      BY DEF Missed
    <3> QED  BY <2>1, <2>3, <3>1
  <2> QED  BY <2>2, <2>4 DEF Day!Take, Day!Nothing, NoLines
<1> HIDE DEF lines
<1> QED  BY <1>1, <1>2, <1>3, <1>4, <1>5, <1>6 DEF Day!Book

\* An order that is paid late takes its units again.
LEMMA TakenAgainBooks ==
  ASSUME CartAssumption, TypeOK, TypeOK', OwnerIsKnown, NEW o \in Orders, TakenAgain(o)
  PROVE  Day!TakeAgain(o)
<1>1. /\ Takes(o, order[o].lines) /\ since' = Missed(order[o].user, order[o].lines)
      /\ order'[o].user = order[o].user /\ order'[o].lines = order[o].lines
  BY TakenAgainTakes
<1>2. LateCompletions /\ order[o].user \in Users /\ None \notin Users
  BY DEF TakenAgain, OrderPaid, OwnerIsKnown, CartAssumption
<1>3. Occupying' = Occupying \cup {o}
  BY <1>1 DEF Takes
<1>4. \A p \in Orders : order'[p].user = order[p].user /\ order'[p].lines = order[p].lines
  BY <1>1 DEF Takes
<1>5. Day!Take(order[o].lines, Calls)
  BY <1>1 DEF Day!Take, Missed
<1>6. Day!Take([p \in Orders |-> order[p].lines][o], Calls)
  BY <1>5
<1> QED  BY <1>2, <1>3, <1>4, <1>6 DEF Day!TakeAgain

\* Orders that are paid, freed or forgotten give units back at most.
LEMMA OrdersLeaveBook ==
  ASSUME Occupying' \subseteq Occupying,
         \A c \in Calls : since'[c] = since[c] \/ since'[c] = NoLines,
         \A o \in Orders : order'[o].user = order[o].user /\ order'[o].lines = order[o].lines
  PROVE  Day!GiveBack
BY DEF Day!GiveBack, Day!Nothing, NoLines

\* Every step of the cart is one of the kitchen, or none.
LEMMA KitchenStep ==
  ASSUME CartAssumption, TypeOK, TypeOK', ShareInv, CallerIsKnown, OwnerIsKnown, [Next]_vars
  PROVE  [Day!Next]_(Day!kvars)
<1>0. order \in [Orders -> OrderRow] /\ order' \in [Orders -> OrderRow] /\ since \in [Calls -> Lines]
  BY DEF TypeOK
<1>1. CASE order' = order /\ since' = since
  BY <1>1 DEF Day!kvars, Occupying, Occupies
<1>2. ASSUME NEW c \in Calls, NEW o \in Orders, NEW free \in BOOLEAN, CreateOrder(c, o, free)
      PROVE  Day!Next
  <2>1. PICK u \in Users : u = call[c].user
    BY <1>2 DEF CallerIsKnown, CreateOrder, Writes
  <2>2. Day!Book(c, o, u)
    BY <1>2, <2>1, CreateOrderBooks
  <2> QED  BY <2>1, <2>2 DEF Day!Next
<1>3. ASSUME NEW c \in Calls, CallEnds(c)
      PROVE  Day!Next
  <2>1. order' = order /\ Occupying' = Occupying
    BY <1>3 DEF CallEnds, Occupying, Occupies
  <2>2. \A d \in Calls : since'[d] = since[d] \/ since'[d] = NoLines
    BY <1>0, <1>3 DEF CallEnds
  <2> QED  BY <2>1, <2>2 DEF Day!Next, Day!Look, Day!Nothing, NoLines
<1>4. ASSUME NEW c \in Calls, Request(c)
      PROVE  [Day!Next]_(Day!kvars)
  BY <1>1, <1>2, <1>3, <1>4 DEF Request, AddItem, UpdateItem, BulkAdd, Checkout, Begin, ReadTotal,
     ReadOwn, FinishAdd, FinishUpdate, FinishBulk
<1>5. ASSUME NEW o \in Orders, OrderPaid(o) \/ OrderFreed(o)
      PROVE  Day!Next
  <2>1. CASE TakenAgain(o)
    BY <2>1, TakenAgainBooks DEF Day!Next
  <2>2. CASE ~TakenAgain(o)
    <3>1. /\ Occupying' \subseteq Occupying /\ since' = since
          /\ \A p \in Orders : order'[p].user = order[p].user /\ order'[p].lines = order[p].lines
      BY <1>5, <2>2, OrderLeaves DEF OrdersLeave
    <3> QED  BY <3>1, OrdersLeaveBook DEF Day!Next
  <2> QED  BY <2>1, <2>2
<1>6. CASE NewDay
  <2>1. \A o \in Orders : /\ order'[o].today = FALSE /\ order'[o].user = order[o].user
                          /\ order'[o].lines = order[o].lines
    BY <1>0, <1>6 DEF NewDay, OrderRow
  <2>2. Occupying' \subseteq Occupying
    BY <2>1 DEF Occupying, Occupies
  <2>3. \A c \in Calls : since'[c] = NoLines
    BY <1>6 DEF NewDay
  <2> QED  BY <2>1, <2>2, <2>3, OrdersLeaveBook DEF Day!Next
<1> QED  BY <1>1, <1>4, <1>5, <1>6 DEF Next, Clear, RemoveItem, ToggleAvailable, vars

LEMMA InitKitchen == Init => Day!Init /\ CallerIsKnown /\ OwnerIsKnown
<1> SUFFICES ASSUME Init PROVE Day!Init /\ CallerIsKnown /\ OwnerIsKnown
  OBVIOUS
<1>1. Occupying = {}
  BY DEF Init, Occupying, Occupies, NoOrder
<1>2. \A o \in Orders : order[o].user = None /\ order[o].lines = [i \in Items |-> 0]
  BY DEF Init, NoOrder, NoLines
<1>3. CallerIsKnown /\ OwnerIsKnown
  BY DEF Init, CallerIsKnown, OwnerIsKnown, NoCall, NoOrder
<1>4. since = [c \in Calls |-> [i \in Items |-> 0]]
  BY DEF Init, NoLines
<1> QED  BY <1>1, <1>2, <1>3, <1>4 DEF Day!Init, Day!Nothing

(***************************************************************************)
(* A checkout books its units against all that other customers hold when   *)
(* its order is created (BookedAgainstOthers), although it reads the two   *)
(* sums and writes the order at three moments, but for the units that were *)
(* taken between them; checkouts that overlap and completions that come    *)
(* late included.                                                          *)
(***************************************************************************)
THEOREM CheckoutsKeepKitchen == Spec => BookedAgainstOthers
<1>1. Init => TypeOK /\ ShareInv /\ CallerIsKnown /\ OwnerIsKnown /\ Day!Init
  BY CartAssumption, InitTypes, InitShare, InitKitchen
<1>2. TypeOK /\ ShareInv /\ CallerIsKnown /\ OwnerIsKnown /\ [Next]_vars
        => TypeOK' /\ ShareInv' /\ CallerIsKnown' /\ OwnerIsKnown'
  BY CartAssumption, TypeStep, ShareStep, CallerStep, OwnerStep
<1>3. TypeOK /\ TypeOK' /\ ShareInv /\ CallerIsKnown /\ OwnerIsKnown /\ [Next]_vars
        => [Day!Next]_(Day!kvars)
  BY CartAssumption, KitchenStep
<1> QED  BY <1>1, <1>2, <1>3, PTL DEF Spec, BookedAgainstOthers, Day!Spec
=============================================================================
