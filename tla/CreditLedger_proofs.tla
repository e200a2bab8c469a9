------------------------- MODULE CreditLedger_proofs -------------------------
(***************************************************************************)
(* Theorems about the ledger, for any number of invoices, orders,          *)
(* adjustments, calls of applyTransaction and sweeps: its types, that the  *)
(* books of an invoice balance, that no credit expires twice, and that an  *)
(* accrual stays under the cap while calls do not overlap.  The first part *)
(* ties the sums of the module to the laws of SumTheorems: a row that is   *)
(* added changes each of them by its amount or not at all.                 *)
(***************************************************************************)
EXTENDS CreditLedger, SumTheorems

-----------------------------------------------------------------------------
(* Sums over the rows *)

\* The sums of the module over the rows l.
Amounts(l) == [s \in Sources |-> l[s].amount]
SumOf(l, S) == Total(Amounts(l), S)
RowsOf(l, t) == {s \in Sources : l[s].type = t}
TypeSum(l, t) == SumOf(l, RowsOf(l, t))
Fallen(l, n) == {s \in RowsOf(l, "ACCRUAL") : l[s].expires < n}

\* The sum the module folds.
FoldOf(l, S) ==
  (CHOOSE h : h = [s \in SUBSET S |-> IF s = {} THEN 0
                                      ELSE l[Pick(s)].amount + h[s \ {Pick(s)}]])[S]

\* The keys are finitely many.
LEMMA DaysFinite == LedgerAssumption => Days \subseteq Nat /\ IsFiniteSet(Days)
<1> SUFFICES ASSUME LedgerAssumption
             PROVE  Days \subseteq Nat /\ IsFiniteSet(Days)
  OBVIOUS
<1>1. Horizon \div TicksPerDay \in Int
  BY DEF LedgerAssumption
<1> QED  BY <1>1, FS_Interval DEF Days

\* The keys of the ledger are finitely many.
LEMMA SourcesFinite == LedgerAssumption => IsFiniteSet(Sources)
<1> SUFFICES ASSUME LedgerAssumption
             PROVE  IsFiniteSet(Sources)
  OBVIOUS
<1>0. IsFiniteSet(Invoices) /\ IsFiniteSet(Orders) /\ IsFiniteSet(Adjustments) /\ IsFiniteSet(Days)
  BY DaysFinite DEF LedgerAssumption
<1> DEFINE I == {Invoice(i) : i \in Invoices}
           F == {Forfeit(i) : i \in Invoices}
           R == {Refund(i) : i \in Invoices}
           P == {PastryOrder(o) : o \in Orders}
           A == {Admin(a) : a \in Adjustments}
           E == {Expiry(d) : d \in Days}
<1>1. IsFiniteSet(I) /\ IsFiniteSet(F) /\ IsFiniteSet(R)
  <2> DEFINE f == [i \in Invoices |-> Invoice(i)]
             g == [i \in Invoices |-> Forfeit(i)]
             h == [i \in Invoices |-> Refund(i)]
  <2>1. I = {f[i] : i \in Invoices} /\ F = {g[i] : i \in Invoices} /\ R = {h[i] : i \in Invoices}
    OBVIOUS
  <2> HIDE DEF f, g, h, I, F, R
  <2> QED
    BY <1>0, <2>1, ImageFinite
<1>2. IsFiniteSet(P) /\ IsFiniteSet(A) /\ IsFiniteSet(E)
  <2> DEFINE f == [o \in Orders |-> PastryOrder(o)]
             g == [a \in Adjustments |-> Admin(a)]
             h == [d \in Days |-> Expiry(d)]
  <2>1. P = {f[o] : o \in Orders} /\ A = {g[a] : a \in Adjustments} /\ E = {h[d] : d \in Days}
    OBVIOUS
  <2> HIDE DEF f, g, h, P, A, E
  <2> QED
    BY <1>0, <2>1, ImageFinite
<1>3. Sources = I \cup F \cup R \cup P \cup A \cup E
  <2> DEFINE K == UNION {{Invoice(i), Forfeit(i), Refund(i)} : i \in Invoices}
  <2>1. K = I \cup F \cup R
    OBVIOUS
  <2>2. Sources = K \cup P \cup A \cup E
    BY DEF Sources
  <2> HIDE DEF K, I, F, R, P, A, E
  <2> QED
    BY <2>1, <2>2
<1> HIDE DEF I, F, R, P, A, E
<1> QED
  BY <1>1, <1>2, <1>3, UnionFinite

\* It is the sum the laws are about.
LEMMA FoldIsSum ==
  ASSUME LedgerAssumption, NEW l, NEW S \in SUBSET Sources
  PROVE  FoldOf(l, S) = SumOf(l, S)
<1> DEFINE Folds(h) == h = [s \in SUBSET S |-> IF s = {} THEN 0
                                      ELSE l[Pick(s)].amount + h[s \ {Pick(s)}]]
           h == CHOOSE h : Folds(h)
<1>1. \A s \in SUBSET S : s # {} => Amounts(l)[Pick(s)] = l[Pick(s)].amount
  BY DEF Amounts, Pick
<1>2. \A g : AddsUp(g, Amounts(l), S) <=> Folds(g)
  BY <1>1 DEF AddsUp
<1>3. IsFiniteSet(S)
  BY SourcesFinite, FS_Subset
<1>4. PICK g : AddsUp(g, Amounts(l), S) /\ SumOf(l, S) = g[S]
  BY <1>3, TotalAddsUp DEF SumOf
<1>5. Folds(h)
  BY <1>2, <1>4
<1>6. h[S] = g[S]
  <2> HIDE DEF h, Folds
  <2>1. AddsUp(h, Amounts(l), S)
    BY <1>2, <1>5
  <2> QED  BY <2>1, <1>3, <1>4, SumsAgree
<1> QED  BY <1>4, <1>6 DEF FoldOf


\* What the module sums, now and in the next state.
LEMMA SumsOfRows ==
  ASSUME LedgerAssumption
  PROVE  /\ Balance = SumOf(ledger, Sources) /\ Balance' = SumOf(ledger', Sources)
         /\ Redeemed = -TypeSum(ledger, "REDEMPTION")
         /\ Redeemed' = -TypeSum(ledger', "REDEMPTION")
         /\ Expired = -TypeSum(ledger, "EXPIRY") /\ Expired' = -TypeSum(ledger', "EXPIRY")
         /\ Aged = SumOf(ledger, Fallen(ledger, now)) /\ Aged' = SumOf(ledger', Fallen(ledger', now'))
<1>1. Balance = FoldOf(ledger, Sources) /\ Balance' = FoldOf(ledger', Sources)
  BY DEF Balance, Sum, FoldOf, MapThenSumSet, MapThenFoldSet, Pick
<1>2. /\ Redeemed = -FoldOf(ledger, RowsOf(ledger, "REDEMPTION"))
      /\ Redeemed' = -FoldOf(ledger', RowsOf(ledger', "REDEMPTION"))
      /\ Expired = -FoldOf(ledger, RowsOf(ledger, "EXPIRY"))
      /\ Expired' = -FoldOf(ledger', RowsOf(ledger', "EXPIRY"))
  BY DEF Redeemed, Expired, OfType, Sum, FoldOf, MapThenSumSet, MapThenFoldSet, Pick, RowsOf
<1>3. /\ Aged = FoldOf(ledger, Fallen(ledger, now))
      /\ Aged' = FoldOf(ledger', Fallen(ledger', now'))
  BY DEF Aged, OfType, Sum, FoldOf, MapThenSumSet, MapThenFoldSet, Pick, RowsOf, Fallen
<1> QED  BY <1>1, <1>2, <1>3, FoldIsSum DEF RowsOf, Fallen, TypeSum

\* A sum over any rows is an integer.
LEMMA SumIsInt ==
  ASSUME LedgerAssumption, NEW l \in [Sources -> Rows], NEW S \in SUBSET Sources
  PROVE  SumOf(l, S) \in Int
<1>1. IsFiniteSet(S)
  BY SourcesFinite, FS_Subset
<1>2. \A s \in S : Amounts(l)[s] \in Int
  BY DEF Amounts, Rows
<1> QED  BY <1>1, <1>2, TotalRemove DEF SumOf

\* The rows m are the rows l and one row more.
Adds(l, m, row) ==
  /\ m \in [Sources -> Rows]
  /\ SumOf(m, Sources) = SumOf(l, Sources) + row.amount
  /\ \A t \in Types : TypeSum(m, t) = IF row.type = t THEN TypeSum(l, t) + row.amount
                                      ELSE TypeSum(l, t)
  /\ \A n \in Nat : SumOf(m, Fallen(m, n)) =
       IF row.type = "ACCRUAL" /\ row.expires < n THEN SumOf(l, Fallen(l, n)) + row.amount
       ELSE SumOf(l, Fallen(l, n))

\* A row written under a free key adds its amount to the sums it counts in.
LEMMA RowAdded ==
  ASSUME LedgerAssumption, NEW l \in [Sources -> Rows], NEW k \in Sources, l[k] = NoRow,
         NEW row \in Rows, row.type \in Types, NEW m, m = [l EXCEPT ![k] = row]
  PROVE  Adds(l, m, row)
<1>1. m \in [Sources -> Rows] /\ m[k] = row /\ \A s \in Sources \ {k} : m[s] = l[s]
  OBVIOUS
<1>2. \A s \in Sources : Amounts(l)[s] \in Int /\ Amounts(m)[s] \in Int
  BY <1>1 DEF Amounts, Rows
<1>3. Amounts(m)[k] = row.amount /\ \A s \in Sources \ {k} : Amounts(m)[s] = Amounts(l)[s]
  BY <1>1 DEF Amounts
<1>4. ASSUME NEW S \in SUBSET Sources, k \notin S
      PROVE  /\ SumOf(m, S) = SumOf(l, S)
             /\ SumOf(m, S \cup {k}) = SumOf(l, S) + row.amount
  <2> DEFINE f == Amounts(l)
             h == Amounts(m)
             T == S \cup {k}
  <2>1. /\ IsFiniteSet(S) /\ IsFiniteSet(T) /\ k \in T /\ T \ {k} = S
        /\ \A s \in S : h[s] \in Int /\ h[s] = f[s]
        /\ \A s \in T : h[s] \in Int
    <3>1. T \in SUBSET Sources /\ k \in T /\ T \ {k} = S
      BY <1>4
    <3>2. IsFiniteSet(S) /\ IsFiniteSet(T)
      <4> HIDE DEF T
      <4> QED  BY <3>1, SourcesFinite, FS_Subset
    <3>3. \A s \in S : h[s] \in Int /\ h[s] = f[s]
      BY <1>2, <1>3, <1>4
    <3>4. \A s \in T : h[s] \in Int
      BY <1>2
    <3> QED  BY <3>1, <3>2, <3>3, <3>4
  <2> HIDE DEF f, h, T
  <2>2. Total(h, S) = Total(f, S)
    BY <2>1, TotalSame
  <2>3. Total(h, T) = h[k] + Total(h, S)
    BY <2>1, TotalRemove
  <2>4. Total(f, S) \in Int /\ row.amount \in Int
    BY SumIsInt DEF SumOf, Rows, f
  <2>5. Total(h, T) = Total(f, S) + row.amount
    BY <1>3, <2>2, <2>3, <2>4 DEF h
  <2> QED  BY <2>2, <2>5 DEF SumOf, f, h, T
<1>5. NoRow.type = "none" /\ NoRow.amount = 0 /\ "none" \notin Types
  BY DEF NoRow, Row, Types
<1>6. SumOf(m, Sources) = SumOf(l, Sources) + row.amount
  <2>1. Total(Amounts(m), Sources) = Total(Amounts(l), Sources) + Amounts(m)[k] - Amounts(l)[k]
    <3> DEFINE f == Amounts(l)
               h == Amounts(m)
    <3>1. /\ \A s \in Sources : f[s] \in Int /\ h[s] \in Int
          /\ \A s \in Sources : s # k => f[s] = h[s]
      BY <1>2, <1>3
    <3> HIDE DEF f, h
    <3>2. Total(h, Sources) = Total(f, Sources) + h[k] - f[k]
      BY <3>1, SourcesFinite, TotalUpdate
    <3> QED  BY <3>2 DEF f, h
  <2>2. Amounts(l)[k] = 0
    BY <1>5 DEF Amounts
  <2>3. Total(Amounts(l), Sources) \in Int /\ row.amount \in Int
    BY SumIsInt DEF SumOf, Rows
  <2> QED  BY <1>3, <2>1, <2>2, <2>3 DEF SumOf
<1>7. ASSUME NEW t \in Types
      PROVE  TypeSum(m, t) = IF row.type = t THEN TypeSum(l, t) + row.amount ELSE TypeSum(l, t)
  <2>1. k \notin RowsOf(l, t) /\ RowsOf(l, t) \in SUBSET Sources
    BY <1>5 DEF RowsOf
  <2>2. RowsOf(m, t) = IF row.type = t THEN RowsOf(l, t) \cup {k} ELSE RowsOf(l, t)
    BY <1>1, <1>5 DEF RowsOf
  <2> QED  BY <1>4, <2>1, <2>2 DEF TypeSum
<1>8. ASSUME NEW n \in Nat
      PROVE  SumOf(m, Fallen(m, n)) =
               IF row.type = "ACCRUAL" /\ row.expires < n THEN SumOf(l, Fallen(l, n)) + row.amount
               ELSE SumOf(l, Fallen(l, n))
  <2>1. k \notin Fallen(l, n) /\ Fallen(l, n) \in SUBSET Sources
    BY <1>5 DEF Fallen, RowsOf, Types
  <2>2. Fallen(m, n) = IF row.type = "ACCRUAL" /\ row.expires < n THEN Fallen(l, n) \cup {k}
                       ELSE Fallen(l, n)
    BY <1>1, <1>5 DEF Fallen, RowsOf, Types
  <2> QED  BY <1>4, <2>1, <2>2
<1> QED  BY <1>1, <1>6, <1>7, <1>8 DEF Adds

\* A day of the clock is one of the days.
LEMMA DaysGoOn ==
  ASSUME LedgerAssumption, NEW n \in 0 .. Horizon
  PROVE  n \div TicksPerDay \in Days
<1>1. \A h, t \in Nat : t > 0 /\ n <= h => n \div t \in 0 .. h \div t
  OBVIOUS
<1> QED  BY <1>1 DEF LedgerAssumption, Days

-----------------------------------------------------------------------------
(* Types *)

Call == [kind: {"none", "accrual", "refund", "adjust"},
         of: Invoices \cup Adjustments \cup {None}, amount: Int, before: Int]

TypeInv == TypeOK /\ call \in [Calls -> Call]

\* What a call holds of the kind it is.
Held(v) ==
  \/ v = NoCall
  \/ /\ v.amount \in Int /\ v.before \in Int
     /\ \/ v.kind = "accrual" /\ v.of \in Invoices
        \/ v.kind = "refund" /\ v.of \in Invoices
        \/ v.kind = "adjust" /\ v.of \in Adjustments

\* The four sums the code computes are integers.
LEMMA SumsAreInts ==
  ASSUME LedgerAssumption, ledger \in [Sources -> Rows]
  PROVE  Balance \in Int /\ Redeemed \in Int /\ Expired \in Int /\ Aged \in Int
<1>1. /\ RowsOf(ledger, "REDEMPTION") \in SUBSET Sources /\ RowsOf(ledger, "EXPIRY") \in SUBSET Sources
      /\ Fallen(ledger, now) \in SUBSET Sources
  BY DEF RowsOf, Fallen
<1>2. /\ SumOf(ledger, Sources) \in Int /\ TypeSum(ledger, "REDEMPTION") \in Int
      /\ TypeSum(ledger, "EXPIRY") \in Int /\ SumOf(ledger, Fallen(ledger, now)) \in Int
  BY <1>1, SumIsInt DEF TypeSum
<1> QED  BY <1>2, SumsOfRows

\* A row is one of Rows, with the fields it was made of.
LEMMA RowTypes ==
  ASSUME LedgerAssumption, NEW type \in Types, NEW amount \in Int,
         NEW expires \in Nat \cup {None}, NEW forfeited \in Nat
  PROVE  /\ Row(type, amount, expires, forfeited) \in Rows
         /\ Row(type, amount, expires, forfeited).type = type
         /\ Row(type, amount, expires, forfeited).amount = amount
         /\ Row(type, amount, expires, forfeited).expires = expires
         /\ Row(type, amount, expires, forfeited) # NoRow
BY DEF Row, Rows, NoRow, Types

LEMMA InitTypes ==
  ASSUME LedgerAssumption, Init
  PROVE  TypeInv
<1>1. NoRow \in Rows
  BY DEF NoRow, Row, Rows
<1>2. NoCall \in Call
  BY DEF NoCall, Call
<1>3. NoSweep \in [step: {"idle", "sum", "write"}, day: Days, aged: Int, unspent: Nat]
  <2>1. 0 \in 0 .. Horizon /\ 0 \div TicksPerDay = 0
    BY DEF LedgerAssumption
  <2>2. 0 \in Days
    BY <2>1, DaysGoOn
  <2> QED  BY <2>2 DEF NoSweep
<1>4. 0 \in 0 .. Horizon
  BY DEF LedgerAssumption
<1> QED  BY <1>1, <1>2, <1>3, <1>4 DEF Init, TypeInv, TypeOK

\* A call begins with what it read.
LEMMA BeginTypes ==
  ASSUME LedgerAssumption, TypeInv, NEW c \in Calls, NEW kind, NEW of, NEW amount \in Int,
         \/ kind \in {"accrual", "refund"} /\ of \in Invoices
         \/ kind = "adjust" /\ of \in Adjustments,
         Begin(c, kind, of, amount)
  PROVE  call' \in [Calls -> Call] /\ \A d \in Calls : Held(call'[d])
<1> DEFINE v == [kind |-> kind, of |-> of, amount |-> amount, before |-> Balance]
<1>1. Balance \in Int
  BY SumsAreInts DEF TypeInv, TypeOK
<1>2. v \in Call /\ Held(v)
  BY <1>1 DEF Call, Held
<1>3. call' = [call EXCEPT ![c] = v]
  BY DEF Begin
<1>4. \A d \in Calls : Held(call[d])
  BY DEF TypeInv, TypeOK, Held
<1> HIDE DEF v
<1> QED  BY <1>2, <1>3, <1>4 DEF TypeInv

LEMMA EndTypes ==
  ASSUME TypeInv, NEW c \in Calls, Ends(c)
  PROVE  call' \in [Calls -> Call] /\ \A d \in Calls : Held(call'[d])
<1>1. NoCall \in Call /\ Held(NoCall)
  BY DEF NoCall, Call, Held
<1>2. \A d \in Calls : Held(call[d])
  BY DEF TypeInv, TypeOK, Held
<1> QED  BY <1>1, <1>2 DEF TypeInv, Ends

\* The parts of a step that no call and no sweep has a hand in.
LEMMA StripeTypes ==
  ASSUME LedgerAssumption, TypeInv, NEW i \in Invoices, Stripe(i)
  PROVE  TypeInv'
<1>1. UNCHANGED <<ledger, quote, call, credited, sweep, now>>
  BY DEF Stripe, Collect, PaidIgnored, RefundCharge, RefundIgnored
<1>2. issued' \subseteq Invoices /\ paidEvent' \subseteq Invoices
  BY DEF Stripe, Collect, PaidIgnored, RefundCharge, RefundIgnored, TypeInv, TypeOK
<1>3. refunded' \in [Invoices -> Nat] /\ refundEvent' \subseteq Invoices \X Nat
  <2>1. refunded \in [Invoices -> Nat] /\ refundEvent \subseteq Invoices \X Nat
    BY DEF TypeInv, TypeOK
  <2>2. ASSUME NEW n \in 1 .. Amount[i], RefundCharge(i, n)
        PROVE  refunded' \in [Invoices -> Nat] /\ refundEvent' \subseteq Invoices \X Nat
    <3>1. n \in Nat /\ <<i, n>> \in Invoices \X Nat
      BY DEF LedgerAssumption
    <3> QED  BY <2>1, <2>2, <3>1 DEF RefundCharge
  <2>3. ASSUME NEW n, RefundIgnored(i, n)
        PROVE  refunded' \in [Invoices -> Nat] /\ refundEvent' \subseteq Invoices \X Nat
    BY <2>1, <2>3 DEF RefundIgnored
  <2> QED  BY <2>1, <2>2, <2>3 DEF Stripe, Collect, PaidIgnored
<1> QED  BY <1>1, <1>2, <1>3 DEF TypeInv, TypeOK, Held

\* A call that begins or ends and writes at most rows.
LEMMA CallKeepsTypes ==
  ASSUME TypeInv, ledger' \in [Sources -> Rows],
         call' \in [Calls -> Call], \A d \in Calls : Held(call'[d]),
         credited' \in [Calls -> Nat],
         paidEvent' \subseteq paidEvent, refundEvent' \subseteq refundEvent,
         UNCHANGED <<issued, refunded, quote, sweep, now>>
  PROVE  TypeInv'
BY DEF TypeInv, TypeOK, Held

\* What a call that ends has credited is counted for the others.
LEMMA CreditsTypes ==
  ASSUME LedgerAssumption, TypeInv, ledger' \in [Sources -> Rows], NEW c \in Calls, Credits(c)
  PROVE  credited' \in [Calls -> Nat]
<1>1. Balance \in Int /\ Balance' \in Int
  BY SumsAreInts, SumIsInt, SumsOfRows DEF TypeInv, TypeOK
<1>2. credited \in [Calls -> Nat]
  BY DEF TypeInv, TypeOK
<1>3. \A n \in Int : Greater(0, n) \in Nat
  BY DEF Greater
<1>4. Balance' - Balance \in Int
  BY <1>1
<1> QED  BY <1>2, <1>3, <1>4 DEF Credits

\* A row is written once.
LEMMA WriteTypes ==
  ASSUME ledger \in [Sources -> Rows], NEW k, NEW row \in Rows,
         ledger' = ledger \/ ledger' = [ledger EXCEPT ![k] = row]
  PROVE  ledger' \in [Sources -> Rows]
OBVIOUS

LEMMA GrantTypes ==
  ASSUME LedgerAssumption, NEW c \in Calls, call[c].amount \in Int, call[c].before \in Int
  PROVE  /\ Granted(c) \in Int /\ Granted(c) <= call[c].amount
         /\ Granted(c) <= Greater(0, Cap - call[c].before)
         /\ Over(c) \in Nat
BY DEF Granted, Over, Lesser, Greater, LedgerAssumption

LEMMA WriteAccrualTypes ==
  ASSUME LedgerAssumption, TypeInv, NEW c \in Calls, WriteAccrual(c)
  PROVE  TypeInv'
<1> DEFINE i == call[c].of
           accrued == IF Granted(c) > 0 THEN Row("ACCRUAL", Granted(c), now + Validity, 0)
                      ELSE ledger[Invoice(i)]
           forfeit == IF Over(c) > 0 THEN Row("CAP_FORFEIT", 0, None, Over(c))
                      ELSE ledger[Forfeit(i)]
<1>1. i \in Invoices /\ call[c].amount \in Int /\ call[c].before \in Int
  BY DEF WriteAccrual, TypeInv, TypeOK, NoCall
<1>2. Invoice(i) \in Sources /\ Forfeit(i) \in Sources
  BY <1>1 DEF Sources
<1>3. accrued \in Rows
  <2>1. now + Validity \in Nat
    BY DEF TypeInv, TypeOK, LedgerAssumption
  <2>2. "ACCRUAL" \in Types
    BY DEF Types
  <2>3. Granted(c) \in Int
    BY <1>1, GrantTypes
  <2>4. Row("ACCRUAL", Granted(c), now + Validity, 0) \in Rows
    BY <2>1, <2>2, <2>3, RowTypes
  <2> QED  BY <1>2, <2>4 DEF TypeInv, TypeOK
<1>4. forfeit \in Rows
  <2>1. Over(c) \in Nat /\ "CAP_FORFEIT" \in Types
    BY <1>1, GrantTypes DEF Types
  <2>2. Row("CAP_FORFEIT", 0, None, Over(c)) \in Rows
    <3> HIDE DEF accrued, i
    <3>1. 0 \in Int /\ None \in Nat \cup {None}
      OBVIOUS
    <3> QED  BY <2>1, <3>1, RowTypes
  <2> QED  BY <1>2, <2>2 DEF TypeInv, TypeOK
<1>5. \/ ledger' = ledger
      \/ ledger' = [ledger EXCEPT ![Invoice(i)] = accrued, ![Forfeit(i)] = forfeit]
  <2>1. Invoice(i) # Forfeit(i)
    BY DEF Invoice, Forfeit
  <2> QED  BY <2>1 DEF WriteAccrual
<1>6. ledger' \in [Sources -> Rows]
  <2> HIDE DEF accrued, forfeit, i
  <2> QED  BY <1>3, <1>4, <1>5 DEF TypeInv, TypeOK
<1>7. /\ call' \in [Calls -> Call] /\ \A d \in Calls : Held(call'[d])
      /\ UNCHANGED <<issued, paidEvent, refunded, refundEvent, quote, sweep, now>>
  BY EndTypes DEF WriteAccrual, Ends
<1>8. credited' \in [Calls -> Nat]
  BY <1>6, CreditsTypes DEF WriteAccrual
<1> QED  BY <1>6, <1>7, <1>8, CallKeepsTypes

LEMMA WriteOtherTypes ==
  ASSUME LedgerAssumption, TypeInv, NEW c \in Calls, WriteOther(c)
  PROVE  TypeInv'
<1> DEFINE s == IF call[c].kind = "refund" THEN Refund(call[c].of) ELSE Admin(call[c].of)
           type == IF call[c].kind = "refund" THEN "REFUND" ELSE "ADJUSTMENT"
<1>1. call[c].amount \in Int /\ type \in Types
  BY DEF WriteOther, TypeInv, TypeOK, NoCall, Types
<1>2. Row(type, call[c].amount, None, 0) \in Rows
  <2> HIDE DEF type
  <2> QED  BY <1>1, RowTypes
<1>3. ledger' = ledger \/ ledger' = [ledger EXCEPT ![s] = Row(type, call[c].amount, None, 0)]
  BY DEF WriteOther
<1>4. ledger' \in [Sources -> Rows]
  <2> HIDE DEF s, type
  <2> QED  BY <1>2, <1>3, WriteTypes DEF TypeInv, TypeOK
<1>5. /\ call' \in [Calls -> Call] /\ \A d \in Calls : Held(call'[d])
      /\ UNCHANGED <<issued, paidEvent, refunded, refundEvent, quote, sweep, now>>
  BY EndTypes DEF WriteOther, Ends
<1>6. credited' \in [Calls -> Nat]
  BY <1>4, CreditsTypes DEF WriteOther
<1> QED  BY <1>4, <1>5, <1>6, CallKeepsTypes

LEMMA ApplyTypes ==
  ASSUME LedgerAssumption, TypeInv, NEW c \in Calls, Apply(c)
  PROVE  TypeInv'
<1>1. ASSUME NEW i \in Invoices, ReceivePaid(c, i)
      PROVE  TypeInv'
  <2>1. Amount[i] \in Int
    BY DEF LedgerAssumption
  <2>2. call' \in [Calls -> Call] /\ \A d \in Calls : Held(call'[d])
    BY <1>1, <2>1, BeginTypes DEF ReceivePaid
  <2> QED  BY <1>1, <2>2, CallKeepsTypes DEF ReceivePaid, Begin, TypeInv, TypeOK
<1>2. ASSUME NEW i \in Invoices, NEW n \in 1 .. Amount[i], ReceiveRefund(c, i, n)
      PROVE  TypeInv'
  <2>1. ledger[Invoice(i)].amount \in Int
    BY DEF TypeInv, TypeOK, Rows, Sources
  <2>2. RefundAmount(i, n) \in Int
    BY <2>1 DEF RefundAmount, Lesser, LedgerAssumption
  <2>3. call' \in [Calls -> Call] /\ \A d \in Calls : Held(call'[d])
    BY <1>2, <2>2, BeginTypes DEF ReceiveRefund
  <2> QED  BY <1>2, <2>3, CallKeepsTypes DEF ReceiveRefund, Begin, TypeInv, TypeOK
<1>3. ASSUME NEW a \in Adjustments, NEW n \in Moves, Adjust(c, a, n)
      PROVE  TypeInv'
  <2>1. n \in Int
    BY DEF LedgerAssumption
  <2>2. call' \in [Calls -> Call] /\ \A d \in Calls : Held(call'[d])
    BY <1>3, <2>1, BeginTypes DEF Adjust
  <2> QED  BY <1>3, <2>2, CallKeepsTypes DEF Adjust, Begin, TypeInv, TypeOK
<1>4. CASE CallFails(c)
  <2>1. ledger' \in [Sources -> Rows]
    BY <1>4 DEF CallFails, TypeInv, TypeOK
  <2>2. credited' \in [Calls -> Nat]
    BY <1>4, <2>1, CreditsTypes DEF CallFails
  <2> QED  BY <1>4, <2>1, <2>2, EndTypes, CallKeepsTypes DEF CallFails, Ends
<1> QED  BY <1>1, <1>2, <1>3, <1>4, WriteAccrualTypes, WriteOtherTypes DEF Apply

LEMMA OrderTypes ==
  ASSUME LedgerAssumption, TypeInv, NEW o \in Orders, Quote(o) \/ Redeem(o)
  PROVE  TypeInv'
<1>1. CASE Quote(o)
  <2>1. Balance \in Int /\ Price[o] \in Nat
    BY SumsAreInts DEF TypeInv, TypeOK, LedgerAssumption
  <2>2. Applied(o) \in Nat
    BY <2>1 DEF Applied, Lesser, Greater
  <2>3. quote' \in [Orders -> Nat \cup {None}]
    BY <1>1, <2>2 DEF Quote, TypeInv, TypeOK
  <2> QED  BY <1>1, <2>3 DEF Quote, TypeInv, TypeOK
<1>2. CASE Redeem(o)
  <2>1. -quote[o] \in Int /\ "REDEMPTION" \in Types
    BY <1>2 DEF Redeem, TypeInv, TypeOK, Types
  <2>2. Row("REDEMPTION", -quote[o], None, 0) \in Rows
    BY <2>1, RowTypes
  <2>3. ledger' \in [Sources -> Rows]
    BY <1>2, <2>2, WriteTypes DEF Redeem, TypeInv, TypeOK
  <2> QED  BY <1>2, <2>3 DEF Redeem, TypeInv, TypeOK
<1> QED  BY <1>1, <1>2

LEMMA SweepTypes ==
  ASSUME LedgerAssumption, TypeInv, NEW s \in Sweeps, Sweep(s)
  PROVE  TypeInv'
<1> DEFINE Kinds == [step: {"idle", "sum", "write"}, day: Days, aged: Int, unspent: Nat]
<1>1. ledger \in [Sources -> Rows] /\ sweep \in [Sweeps -> Kinds] /\ sweep[s] \in Kinds
  BY DEF TypeInv, TypeOK
<1>2. Today \in Days /\ Aged \in Int /\ Redeemed \in Int /\ Expired \in Int
  BY <1>1, SumsAreInts, DaysGoOn DEF TypeInv, TypeOK, Today
<1>3. NoSweep \in Kinds
  <2>1. 0 \in 0 .. Horizon /\ 0 \div TicksPerDay = 0
    BY DEF LedgerAssumption
  <2>2. 0 \in Days
    BY <2>1, DaysGoOn
  <2> QED  BY <2>2 DEF NoSweep
<1>4. CASE SweepStart(s)
  <2> DEFINE v == [step |-> "sum", day |-> Today, aged |-> Aged, unspent |-> 0]
  <2>1. v \in Kinds
    BY <1>2
  <2>2. sweep' = [sweep EXCEPT ![s] = v]
    BY <1>4 DEF SweepStart
  <2>3. sweep' \in [Sweeps -> Kinds]
    <3> HIDE DEF v, Kinds
    <3> QED  BY <1>1, <2>1, <2>2
  <2> QED  BY <1>4, <2>3 DEF SweepStart, TypeInv, TypeOK
<1>5. CASE SweepSum(s)
  <2> DEFINE n == Unspent(sweep[s].aged)
             v == IF n > 0 THEN [sweep[s] EXCEPT !.step = "write", !.unspent = n] ELSE NoSweep
  <2>1. n \in Nat
    BY <1>1, <1>2 DEF Unspent, Greater
  <2>2. v \in Kinds
    <3> HIDE DEF n
    <3> QED  BY <1>1, <1>3, <2>1
  <2>3. sweep' = [sweep EXCEPT ![s] = v]
    BY <1>5 DEF SweepSum
  <2>4. sweep' \in [Sweeps -> Kinds]
    <3> HIDE DEF v, Kinds
    <3> QED  BY <1>1, <2>2, <2>3
  <2> QED  BY <1>5, <2>4 DEF SweepSum, TypeInv, TypeOK
<1>6. CASE SweepWrite(s)
  <2>1. -sweep[s].unspent \in Int /\ "EXPIRY" \in Types
    BY <1>1 DEF Types
  <2>2. Row("EXPIRY", -sweep[s].unspent, None, 0) \in Rows
    BY <2>1, RowTypes
  <2>3. ledger' \in [Sources -> Rows]
    BY <1>1, <1>6, <2>2, WriteTypes DEF SweepWrite
  <2>4. sweep' \in [Sweeps -> Kinds]
    <3> HIDE DEF Kinds
    <3> QED  BY <1>1, <1>3, <1>6 DEF SweepWrite
  <2> QED  BY <1>6, <2>3, <2>4 DEF SweepWrite, TypeInv, TypeOK
<1>7. CASE SweepDies(s)
  <2>1. sweep' \in [Sweeps -> Kinds]
    <3> HIDE DEF Kinds
    <3> QED  BY <1>1, <1>3, <1>7 DEF SweepDies
  <2> QED  BY <1>7, <2>1 DEF SweepDies, TypeInv, TypeOK
<1> QED  BY <1>4, <1>5, <1>6, <1>7 DEF Sweep

LEMMA TypeStep == LedgerAssumption /\ TypeInv /\ [Next]_vars => TypeInv'
<1> SUFFICES ASSUME LedgerAssumption, TypeInv, [Next]_vars
             PROVE  TypeInv'
  OBVIOUS
<1>1. CASE Tick
  <2>1. now' \in 0 .. Horizon
    BY <1>1 DEF Tick, TypeInv, TypeOK, LedgerAssumption
  <2> QED  BY <1>1, <2>1 DEF Tick, TypeInv, TypeOK
<1>2. CASE UNCHANGED vars
  BY <1>2 DEF vars, TypeInv, TypeOK
<1> QED  BY <1>1, <1>2, ApplyTypes, StripeTypes, OrderTypes, SweepTypes DEF Next

(***************************************************************************)
(* The ledger is type correct: every row, every sum a call or a sweep has  *)
(* read, and every quote is a number of its kind (TypeOK).                 *)
(***************************************************************************)
THEOREM TypesHold == Spec => []TypeOK
<1>1. TypeInv => TypeOK
  BY DEF TypeInv
<1>2. Init => TypeInv
  BY LedgerAssumption, InitTypes
<1>3. TypeInv /\ [Next]_vars => TypeInv'
  BY LedgerAssumption, TypeStep
<1> QED  BY <1>1, <1>2, <1>3, PTL DEF Spec

-----------------------------------------------------------------------------
(* The books of an invoice *)

Shapes ==
  /\ ledger = [s \in Sources |-> ledger[s]]
  /\ \A i \in Invoices : ledger[Invoice(i)].amount \in Int /\ ledger[Forfeit(i)].forfeited \in Int
  /\ paidEvent \subseteq issued
  /\ call \in [Calls -> Call]
  /\ \A c \in Calls : call[c].kind \in {"accrual", "refund"} => call[c].of \in Invoices

Accrues(c, i) == call[c].kind = "accrual" /\ call[c].of = i
Refunds(c, i) == call[c].kind = "refund" /\ call[c].of = i

Booked(i) == Written(Invoice(i)) \/ Written(Forfeit(i))

\* An invoice is booked, or being booked by one call, or announced by the
\* one event it has, or not collected.
BookedOnce ==
  \A i \in Invoices :
    /\ Booked(i) => i \in issued \ paidEvent
    /\ \A c \in Calls :
         Accrues(c, i) =>
           /\ i \in issued \ paidEvent /\ ~Booked(i)
           /\ call[c].amount = Amount[i] /\ Amount[i] > 0
           /\ \A d \in Calls : Accrues(d, i) => d = c

Within(i, n) == n \in 1 .. ledger[Invoice(i)].amount

\* Only an accrual has the key of an invoice, and a refund, written or about
\* to be, is within it.
KeysMeanTypes ==
  \A i \in Invoices :
    /\ Written(Invoice(i)) <=> ledger[Invoice(i)].type = "ACCRUAL"
    /\ Written(Invoice(i)) => ledger[Invoice(i)].amount > 0
    /\ ~Written(Invoice(i)) => ledger[Invoice(i)].amount = 0
    /\ ~Written(Forfeit(i)) => ledger[Forfeit(i)].forfeited = 0
    /\ \A c \in Calls : Refunds(c, i) => Within(i, -call[c].amount)

BookInv == Shapes /\ BookedOnce /\ KeysMeanTypes /\ BooksReconcile

-----------------------------------------------------------------------------
\* The keys of an invoice are its own.
LEMMA KeysDiffer ==
  \A i, j \in Invoices :
    /\ Invoice(i) = Invoice(j) <=> i = j
    /\ Forfeit(i) = Forfeit(j) <=> i = j
    /\ Refund(i) = Refund(j) <=> i = j
    /\ Invoice(i) # Forfeit(j) /\ Invoice(i) # Refund(j) /\ Forfeit(i) # Refund(j)
BY DEF Invoice, Forfeit, Refund

\* Orders, adjustments and sweeps write keys of their own.
LEMMA OtherKeysDiffer ==
  \A i \in Invoices :
    /\ \A o : PastryOrder(o) \notin {Invoice(i), Forfeit(i), Refund(i)}
    /\ \A a : Admin(a) \notin {Invoice(i), Forfeit(i), Refund(i)}
    /\ \A d : Expiry(d) \notin {Invoice(i), Forfeit(i), Refund(i)}
BY DEF Invoice, Forfeit, Refund, PastryOrder, Admin, Expiry

\* The three keys of an invoice.
LEMMA KeysAreSources ==
  \A i \in Invoices : Invoice(i) \in Sources /\ Forfeit(i) \in Sources /\ Refund(i) \in Sources
BY DEF Sources

\* What a step that leaves the three keys, the events and the calls of an
\* invoice alone cannot disturb.
LEMMA OtherRowsDoNotMatter ==
  ASSUME BookInv, Shapes',
         paidEvent' = paidEvent, issued' = issued,
         \A i \in Invoices :
           /\ ledger'[Invoice(i)] = ledger[Invoice(i)]
           /\ ledger'[Forfeit(i)] = ledger[Forfeit(i)]
           /\ ledger'[Refund(i)] = ledger[Refund(i)],
         \A c \in Calls : call'[c] = call[c] \/ call'[c].kind \in {"none", "adjust"}
  PROVE  BookInv'
<1>1. BookedOnce'
  BY DEF BookInv, BookedOnce, Booked, Written, Accrues
<1>2. KeysMeanTypes'
  BY DEF BookInv, KeysMeanTypes, Written, Refunds, Within
<1>3. BooksReconcile'
  BY DEF BookInv, BooksReconcile, Written
<1> QED  BY <1>1, <1>2, <1>3 DEF BookInv

LEMMA InitBooks ==
  ASSUME Init
  PROVE  BookInv
<1>1. \A i \in Invoices : ledger[Invoice(i)] = NoRow /\ ledger[Forfeit(i)] = NoRow
                          /\ ledger[Refund(i)] = NoRow
  BY KeysAreSources DEF Init
<1>2. \A c \in Calls : call[c] = NoCall
  BY DEF Init
<1>3. NoRow.type # "ACCRUAL" /\ NoRow.amount = 0 /\ NoRow.forfeited = 0
  BY DEF NoRow, Row
<1>4. NoCall \in Call /\ NoCall.kind = "none"
  BY DEF NoCall, Call
<1>5. Shapes
  BY <1>1, <1>2, <1>3, <1>4 DEF Init, Shapes
<1>6. BookedOnce
  BY <1>1, <1>2, <1>4 DEF BookedOnce, Booked, Written, Accrues
<1>7. KeysMeanTypes
  BY <1>1, <1>2, <1>3, <1>4 DEF KeysMeanTypes, Written, Refunds
<1>8. BooksReconcile
  BY <1>1 DEF BooksReconcile, Written
<1> QED  BY <1>5, <1>6, <1>7, <1>8 DEF BookInv

-----------------------------------------------------------------------------
\* A call begins with what it read.
LEMMA BeginCall ==
  ASSUME Shapes, Balance \in Int, NEW c \in Calls, NEW kind, NEW of, NEW amount,
         kind \in {"accrual", "refund", "adjust"}, of \in Invoices \cup Adjustments,
         amount \in Int, Begin(c, kind, of, amount)
  PROVE  /\ call' \in [Calls -> Call]
         /\ call'[c].kind = kind /\ call'[c].of = of /\ call'[c].amount = amount
         /\ call[c].kind = "none"
         /\ \A d \in Calls \ {c} : call'[d] = call[d]
BY DEF Shapes, Begin, Call, NoCall

\* A call ends.
LEMMA EndCall ==
  ASSUME Shapes, NEW c \in Calls, Ends(c)
  PROVE  /\ call' \in [Calls -> Call]
         /\ call'[c].kind = "none"
         /\ \A d \in Calls \ {c} : call'[d] = call[d]
         /\ issued' = issued /\ paidEvent' = paidEvent
<1>1. NoCall \in Call /\ NoCall.kind = "none"
  BY DEF NoCall, Call
<1> QED  BY <1>1 DEF Shapes, Ends

LEMMA CollectBooks ==
  ASSUME BookInv, ~Redelivered, NEW i \in Invoices, Collect(i)
  PROVE  BookInv'
<1>1. i \notin issued /\ issued' = issued \cup {i} /\ paidEvent' = paidEvent \cup {i}
      /\ ledger' = ledger /\ call' = call
  BY DEF Collect
<1>2. Shapes'
  BY <1>1 DEF BookInv, Shapes
<1>3. BookedOnce'
  BY <1>1 DEF BookInv, BookedOnce, Booked, Written, Accrues
<1>4. KeysMeanTypes' /\ BooksReconcile'
  BY <1>1 DEF BookInv, KeysMeanTypes, BooksReconcile, Written, Refunds, Within
<1> QED  BY <1>2, <1>3, <1>4 DEF BookInv

LEMMA PaidIgnoredBooks ==
  ASSUME BookInv, NEW i \in Invoices, PaidIgnored(i)
  PROVE  BookInv'
<1>1. paidEvent' = paidEvent \ {i} /\ issued' = issued /\ ledger' = ledger /\ call' = call
  BY DEF PaidIgnored
<1>2. Shapes' /\ BookedOnce'
  BY <1>1 DEF BookInv, Shapes, BookedOnce, Booked, Written, Accrues
<1>3. KeysMeanTypes' /\ BooksReconcile'
  BY <1>1 DEF BookInv, KeysMeanTypes, BooksReconcile, Written, Refunds, Within
<1> QED  BY <1>2, <1>3 DEF BookInv

LEMMA ReceivePaidBooks ==
  ASSUME LedgerAssumption, BookInv, Balance \in Int,
         NEW c \in Calls, NEW i \in Invoices, ReceivePaid(c, i)
  PROVE  BookInv'
<1>1. /\ i \in paidEvent /\ paidEvent' = paidEvent \ {i} /\ Amount[i] > 0 /\ Amount[i] \in Int
      /\ ledger' = ledger /\ issued' = issued
  BY DEF ReceivePaid, LedgerAssumption
<1>2. /\ call' \in [Calls -> Call]
      /\ call'[c].kind = "accrual" /\ call'[c].of = i /\ call'[c].amount = Amount[i]
      /\ \A d \in Calls \ {c} : call'[d] = call[d]
  BY <1>1, BeginCall DEF BookInv, ReceivePaid
<1>3. Shapes'
  BY <1>1, <1>2 DEF BookInv, Shapes
<1>4. ~Booked(i) /\ \A d \in Calls : ~Accrues(d, i)
  BY <1>1 DEF BookInv, BookedOnce
<1>5. BookedOnce'
  <2>1. \A j \in Invoices, d \in Calls :
          Accrues(d, j)' => \/ d = c /\ j = i
                            \/ d # c /\ Accrues(d, j) /\ call'[d] = call[d]
    BY <1>2 DEF Accrues
  <2>2. \A j \in Invoices : Booked(j)' <=> Booked(j)
    BY <1>1 DEF Booked, Written
  <2>3. ASSUME NEW j \in Invoices, NEW d \in Calls, Accrues(d, j)'
        PROVE  /\ j \in issued' \ paidEvent' /\ ~Booked(j)'
               /\ call'[d].amount = Amount[j] /\ Amount[j] > 0
               /\ \A e \in Calls : Accrues(e, j)' => e = d
    <3>1. CASE d = c /\ j = i
      BY <1>1, <1>2, <1>4, <2>1, <2>2, <3>1 DEF BookInv, Shapes
    <3>2. CASE d # c /\ Accrues(d, j) /\ call'[d] = call[d]
      <4>1. j # i
        BY <1>4, <3>2
      <4> QED  BY <1>1, <2>1, <2>2, <3>2, <4>1 DEF BookInv, BookedOnce
    <3> QED  BY <2>1, <2>3, <3>1, <3>2
  <2> QED  BY <1>1, <2>2, <2>3 DEF BookInv, BookedOnce
<1>6. KeysMeanTypes' /\ BooksReconcile'
  BY <1>1, <1>2 DEF BookInv, KeysMeanTypes, BooksReconcile, Written, Refunds, Within
<1> QED  BY <1>3, <1>5, <1>6 DEF BookInv

LEMMA ReceiveRefundBooks ==
  ASSUME LedgerAssumption, BookInv, Balance \in Int,
         NEW c \in Calls, NEW i \in Invoices, NEW n \in 1 .. Amount[i], ReceiveRefund(c, i, n)
  PROVE  BookInv'
<1>1. /\ ledger[Invoice(i)].type = "ACCRUAL" /\ ledger[Invoice(i)].amount \in Int
      /\ ledger' = ledger /\ issued' = issued /\ paidEvent' = paidEvent
  BY DEF ReceiveRefund, BookInv, Shapes
<1>2. Written(Invoice(i)) /\ ledger[Invoice(i)].amount > 0
  BY <1>1 DEF BookInv, KeysMeanTypes
<1>3. RefundAmount(i, n) \in Int /\ Within(i, -RefundAmount(i, n))
  BY <1>1, <1>2 DEF RefundAmount, Lesser, Within, LedgerAssumption
<1>4. /\ call' \in [Calls -> Call]
      /\ call'[c].kind = "refund" /\ call'[c].of = i /\ call'[c].amount = RefundAmount(i, n)
      /\ \A d \in Calls \ {c} : call'[d] = call[d]
  BY <1>3, BeginCall DEF BookInv, ReceiveRefund
<1>5. Shapes'
  BY <1>1, <1>4 DEF BookInv, Shapes
<1>6. \A j \in Invoices, d \in Calls : Accrues(d, j)' => Accrues(d, j) /\ call'[d] = call[d]
  BY <1>4 DEF Accrues
<1>7. BookedOnce'
  BY <1>1, <1>6 DEF BookInv, BookedOnce, Booked, Written
<1>8. KeysMeanTypes' /\ BooksReconcile'
  BY <1>1, <1>3, <1>4 DEF BookInv, KeysMeanTypes, BooksReconcile, Written, Refunds, Within
<1> QED  BY <1>5, <1>7, <1>8 DEF BookInv

LEMMA CallFailsBooks ==
  ASSUME BookInv, NEW c \in Calls, CallFails(c)
  PROVE  BookInv'
<1>1. ledger' = ledger /\ Ends(c)
  BY DEF CallFails
<1>2. Shapes'
  BY <1>1, EndCall DEF BookInv, Shapes
<1> QED  BY <1>1, <1>2, EndCall, OtherRowsDoNotMatter DEF BookInv

-----------------------------------------------------------------------------
\* What is granted and what is over make the whole.
LEMMA GrantSplits ==
  ASSUME LedgerAssumption, NEW c \in Calls, call[c].amount \in Int, call[c].before \in Int,
         call[c].amount > 0
  PROVE  /\ Granted(c) \in Nat /\ Over(c) \in Nat
         /\ Granted(c) + Over(c) = call[c].amount
BY DEF Granted, Over, Lesser, Greater, LedgerAssumption

LEMMA WriteAccrualBooks ==
  ASSUME LedgerAssumption, BookInv, NEW c \in Calls, WriteAccrual(c)
  PROVE  BookInv'
<1> DEFINE i == call[c].of
           accrued == IF Granted(c) > 0 THEN Row("ACCRUAL", Granted(c), now + Validity, 0) ELSE NoRow
           forfeit == IF Over(c) > 0 THEN Row("CAP_FORFEIT", 0, None, Over(c)) ELSE NoRow
<1>1. call[c].kind = "accrual" /\ Ends(c) /\ call[c] \in Call
  BY DEF WriteAccrual, BookInv, Shapes
<1>2. /\ i \in Invoices /\ call[c].amount = Amount[i] /\ Amount[i] > 0 /\ Amount[i] \in Int
      /\ i \in issued \ paidEvent /\ ~Booked(i)
      /\ \A d \in Calls : Accrues(d, i) => d = c
  BY <1>1 DEF BookInv, Shapes, BookedOnce, Accrues, LedgerAssumption
<1>3. Granted(c) \in Nat /\ Over(c) \in Nat /\ Granted(c) + Over(c) = Amount[i]
  BY <1>1, <1>2, GrantSplits DEF Call
<1>4. /\ ledger[Invoice(i)] = NoRow /\ ledger[Forfeit(i)] = NoRow
      /\ ledger' = [ledger EXCEPT ![Invoice(i)] = accrued, ![Forfeit(i)] = forfeit]
  BY <1>2 DEF WriteAccrual, Booked, Written
<1>5. /\ ledger' = [s \in Sources |-> ledger'[s]]
      /\ ledger'[Invoice(i)] = accrued /\ ledger'[Forfeit(i)] = forfeit
      /\ ledger'[Refund(i)] = ledger[Refund(i)]
      /\ \A j \in Invoices \ {i} :
           /\ ledger'[Invoice(j)] = ledger[Invoice(j)] /\ ledger'[Forfeit(j)] = ledger[Forfeit(j)]
           /\ ledger'[Refund(j)] = ledger[Refund(j)]
  <2>1. ledger = [s \in Sources |-> ledger[s]]
    BY DEF BookInv, Shapes
  <2> HIDE DEF i, accrued, forfeit
  <2> QED  BY <1>2, <1>4, <2>1, KeysDiffer, KeysAreSources
<1>6. /\ accrued.amount = Granted(c) /\ forfeit.forfeited = Over(c)
      /\ Granted(c) > 0 <=> accrued # NoRow
      /\ Granted(c) > 0 <=> accrued.type = "ACCRUAL"
      /\ Over(c) > 0 <=> forfeit # NoRow
  BY <1>3 DEF Row, NoRow
<1>14. accrued.amount \in {Granted(c), 0} /\ forfeit.forfeited \in {Over(c), 0}
  BY DEF Row, NoRow
<1>7. /\ call' \in [Calls -> Call] /\ call'[c].kind = "none"
      /\ \A d \in Calls \ {c} : call'[d] = call[d]
      /\ issued' = issued /\ paidEvent' = paidEvent
  BY <1>1, EndCall DEF BookInv
<1> HIDE DEF i, accrued, forfeit
<1>8. Shapes'
  <2>1. accrued.amount \in Int /\ forfeit.forfeited \in Int
    BY <1>3, <1>14
  <2>2. \A d \in Calls : call'[d].kind \in {"accrual", "refund"} => call'[d].of \in Invoices
    BY <1>7 DEF BookInv, Shapes
  <2> QED  BY <1>2, <1>5, <1>7, <2>1, <2>2 DEF BookInv, Shapes
<1>9. BookedOnce'
  BY <1>1, <1>2, <1>5, <1>7 DEF BookInv, BookedOnce, Booked, Written, Accrues
<1>10. \A d \in Calls : ~Refunds(d, i)
  BY <1>2, <1>4, <1>6 DEF BookInv, KeysMeanTypes, Within, Booked
<1>11. KeysMeanTypes'
  BY <1>2, <1>3, <1>5, <1>6, <1>7, <1>10 DEF BookInv, KeysMeanTypes, Written, Refunds, Within
<1>12. ~Written(Refund(i))
  BY <1>2, <1>4 DEF BookInv, BooksReconcile, KeysMeanTypes, Booked
<1>13. BooksReconcile'
  BY <1>2, <1>3, <1>5, <1>6, <1>12 DEF BookInv, BooksReconcile, Written
<1> QED  BY <1>8, <1>9, <1>11, <1>13 DEF BookInv

LEMMA WriteOtherBooks ==
  ASSUME LedgerAssumption, BookInv, NEW c \in Calls, WriteOther(c)
  PROVE  BookInv'
<1>1. Ends(c) /\ call[c].kind \in {"refund", "adjust"} /\ call[c] \in Call
  BY DEF WriteOther, BookInv, Shapes
<1>2. /\ call' \in [Calls -> Call] /\ call'[c].kind = "none"
      /\ \A d \in Calls \ {c} : call'[d] = call[d]
      /\ issued' = issued /\ paidEvent' = paidEvent
  BY <1>1, EndCall DEF BookInv
<1>3. CASE call[c].kind = "adjust" \/ ledger' = ledger
  <2>1. ledger' = [s \in Sources |-> ledger'[s]]
    BY DEF WriteOther, BookInv, Shapes
  <2>2. \A i \in Invoices :
          /\ ledger'[Invoice(i)] = ledger[Invoice(i)]
          /\ ledger'[Forfeit(i)] = ledger[Forfeit(i)]
          /\ ledger'[Refund(i)] = ledger[Refund(i)]
    BY <1>3, OtherKeysDiffer DEF WriteOther
  <2>3. Shapes'
    BY <1>2, <2>1, <2>2 DEF BookInv, Shapes
  <2> QED  BY <1>2, <2>2, <2>3, OtherRowsDoNotMatter
<1>4. CASE call[c].kind = "refund" /\ ledger' # ledger
  <2> DEFINE i == call[c].of
             row == Row("REFUND", call[c].amount, None, 0)
  <2>1. i \in Invoices /\ Refunds(c, i) /\ Within(i, -call[c].amount)
    BY <1>4 DEF BookInv, Shapes, KeysMeanTypes, Refunds
  <2>2. ledger' = [ledger EXCEPT ![Refund(i)] = row] /\ row.amount = call[c].amount
    BY <1>4 DEF WriteOther, Row
  <2> HIDE DEF i, row
  <2>3. /\ ledger' = [s \in Sources |-> ledger'[s]]
        /\ ledger'[Refund(i)] = row
        /\ \A j \in Invoices :
             /\ ledger'[Invoice(j)] = ledger[Invoice(j)] /\ ledger'[Forfeit(j)] = ledger[Forfeit(j)]
             /\ j # i => ledger'[Refund(j)] = ledger[Refund(j)]
    <3>1. ledger = [s \in Sources |-> ledger[s]]
      BY DEF BookInv, Shapes
    <3> QED  BY <2>1, <2>2, <3>1, KeysDiffer, KeysAreSources
  <2>4. Shapes'
    BY <1>2, <2>3 DEF BookInv, Shapes
  <2>7. \A j \in Invoices, d \in Calls : Accrues(d, j)' => Accrues(d, j) /\ call'[d] = call[d]
    BY <1>2 DEF Accrues
  <2>8. BookedOnce'
    BY <1>2, <2>3, <2>7 DEF BookInv, BookedOnce, Booked, Written
  <2>5. KeysMeanTypes'
    BY <1>2, <2>3 DEF BookInv, KeysMeanTypes, Written, Refunds, Within
  <2>6. BooksReconcile'
    BY <2>1, <2>2, <2>3 DEF BookInv, BooksReconcile, Written, Within
  <2> QED  BY <2>4, <2>5, <2>6, <2>8 DEF BookInv
<1> QED  BY <1>1, <1>3, <1>4

LEMMA AdjustBooks ==
  ASSUME LedgerAssumption, BookInv, Balance \in Int,
         NEW c \in Calls, NEW a \in Adjustments, NEW n \in Moves, Adjust(c, a, n)
  PROVE  BookInv'
<1>1. ledger' = ledger /\ issued' = issued /\ paidEvent' = paidEvent /\ n \in Int
  BY DEF Adjust, LedgerAssumption
<1>2. /\ call' \in [Calls -> Call] /\ call'[c].kind = "adjust"
      /\ \A d \in Calls \ {c} : call'[d] = call[d]
  BY <1>1, BeginCall DEF BookInv, Adjust
<1>3. Shapes'
  BY <1>1, <1>2 DEF BookInv, Shapes
<1> QED  BY <1>1, <1>2, <1>3, OtherRowsDoNotMatter

-----------------------------------------------------------------------------
\* Orders and sweeps write under keys of their own.
LEMMA OtherWritersBooks ==
  ASSUME BookInv, issued' = issued, paidEvent' = paidEvent, call' = call,
         NEW key, NEW row, ledger' = ledger \/ ledger' = [ledger EXCEPT ![key] = row],
         \A i \in Invoices : key \notin {Invoice(i), Forfeit(i), Refund(i)}
  PROVE  BookInv'
<1>1. ledger' = [s \in Sources |-> ledger'[s]]
  BY DEF BookInv, Shapes
<1>2. \A i \in Invoices :
        /\ ledger'[Invoice(i)] = ledger[Invoice(i)]
        /\ ledger'[Forfeit(i)] = ledger[Forfeit(i)]
        /\ ledger'[Refund(i)] = ledger[Refund(i)]
  BY KeysAreSources DEF BookInv, Shapes
<1>3. Shapes'
  BY <1>1, <1>2 DEF BookInv, Shapes
<1> QED  BY <1>2, <1>3, OtherRowsDoNotMatter

LEMMA RedeemBooks ==
  ASSUME BookInv, NEW o \in Orders, Redeem(o)
  PROVE  BookInv'
<1> DEFINE row == Row("REDEMPTION", -quote[o], None, 0)
<1>1. /\ ledger' = [ledger EXCEPT ![PastryOrder(o)] = row]
      /\ issued' = issued /\ paidEvent' = paidEvent /\ call' = call
  BY DEF Redeem
<1> HIDE DEF row
<1> QED  BY <1>1, OtherKeysDiffer, OtherWritersBooks

LEMMA SweepWriteBooks ==
  ASSUME BookInv, NEW s \in Sweeps, SweepWrite(s)
  PROVE  BookInv'
<1> DEFINE row == Row("EXPIRY", -sweep[s].unspent, None, 0)
           key == Expiry(sweep[s].day)
<1>1. /\ ledger' = ledger \/ ledger' = [ledger EXCEPT ![key] = row]
      /\ issued' = issued /\ paidEvent' = paidEvent /\ call' = call
      /\ \A i \in Invoices : key \notin {Invoice(i), Forfeit(i), Refund(i)}
  BY OtherKeysDiffer DEF SweepWrite
<1> HIDE DEF row, key
<1> QED  BY <1>1, OtherWritersBooks

LEMMA NoRowWritten ==
  ASSUME BookInv, issued' = issued, paidEvent' = paidEvent, call' = call, ledger' = ledger
  PROVE  BookInv'
BY OtherRowsDoNotMatter DEF BookInv, Shapes

LEMMA BookStep ==
  ASSUME LedgerAssumption, ~Redelivered, BookInv, Balance \in Int, [Next]_vars
  PROVE  BookInv'
<1>1. ASSUME NEW c \in Calls, Apply(c)
      PROVE  BookInv'
  BY <1>1, ReceivePaidBooks, ReceiveRefundBooks, AdjustBooks, WriteAccrualBooks, WriteOtherBooks,
     CallFailsBooks DEF Apply
<1>2. ASSUME NEW i \in Invoices, Stripe(i)
      PROVE  BookInv'
  <2>1. CASE Collect(i)
    BY <2>1, CollectBooks
  <2>2. CASE PaidIgnored(i)
    BY <2>2, PaidIgnoredBooks
  <2>3. ASSUME NEW n \in 1 .. Amount[i], RefundCharge(i, n) \/ RefundIgnored(i, n)
        PROVE  BookInv'
    BY <2>3, NoRowWritten DEF RefundCharge, RefundIgnored
  <2> QED  BY <1>2, <2>1, <2>2, <2>3 DEF Stripe
<1>3. ASSUME NEW o \in Orders, Quote(o) \/ Redeem(o)
      PROVE  BookInv'
  BY <1>3, RedeemBooks, NoRowWritten DEF Quote
<1>4. ASSUME NEW s \in Sweeps, Sweep(s)
      PROVE  BookInv'
  <2>1. CASE SweepWrite(s)
    BY <2>1, SweepWriteBooks
  <2>2. CASE SweepStart(s) \/ SweepSum(s) \/ SweepDies(s)
    BY <2>2, NoRowWritten DEF SweepStart, SweepSum, SweepDies
  <2> QED  BY <1>4, <2>1, <2>2 DEF Sweep
<1>5. CASE Tick \/ UNCHANGED vars
  BY <1>5, NoRowWritten DEF Tick, vars
<1> QED  BY <1>1, <1>2, <1>3, <1>4, <1>5 DEF Next

-----------------------------------------------------------------------------
(***************************************************************************)
(* What an invoice accrues and forfeits adds up to what was paid, and a    *)
(* refund stays within what accrued (BooksReconcile), whatever calls of    *)
(* applyTransaction overlap, if an invoice is the subject of one event.    *)
(***************************************************************************)
THEOREM BooksAlwaysReconcile == ~Redelivered => (Spec => []BooksReconcile)
<1>1. Init => TypeInv /\ BookInv
  BY LedgerAssumption, InitTypes, InitBooks
<1>2. TypeInv => Balance \in Int
  BY LedgerAssumption, SumsAreInts DEF TypeInv, TypeOK
<1>3. ~Redelivered /\ TypeInv /\ BookInv /\ [Next]_vars => TypeInv' /\ BookInv'
  BY <1>2, LedgerAssumption, TypeStep, BookStep
<1>4. BookInv => BooksReconcile
  BY DEF BookInv
<1>5. SUFFICES ASSUME ~Redelivered
               PROVE  Spec => []BooksReconcile
  OBVIOUS
<1>6. TypeInv /\ BookInv /\ [Next]_vars => TypeInv' /\ BookInv'
  BY <1>3, <1>5
<1> QED  BY <1>1, <1>4, <1>6, PTL DEF Spec

-----------------------------------------------------------------------------
(* What a step does to the sums *)

\* Sums change only with the rows, what has aged also with the clock.
LEMMA SumsKept ==
  ASSUME LedgerAssumption, ledger' = ledger
  PROVE  /\ Balance' = Balance /\ Redeemed' = Redeemed /\ Expired' = Expired
         /\ now' = now => Aged' = Aged
BY SumsOfRows

\* What a new row adds to each sum, by its type.
LEMMA RowCounts ==
  ASSUME LedgerAssumption, TypeInv, NEW k \in Sources, ~Written(k), NEW row \in Rows,
         row.type \in Types, ledger' = [ledger EXCEPT ![k] = row], now' = now
  PROVE  /\ Balance' = Balance + row.amount
         /\ Redeemed' = IF row.type = "REDEMPTION" THEN Redeemed - row.amount ELSE Redeemed
         /\ Expired' = IF row.type = "EXPIRY" THEN Expired - row.amount ELSE Expired
         /\ row.type # "ACCRUAL" => Aged' = Aged
<1>1. ledger \in [Sources -> Rows] /\ ledger[k] = NoRow /\ now \in Nat /\ row.amount \in Int
  BY DEF TypeInv, TypeOK, Written, Rows
<1>2. "REDEMPTION" \in Types /\ "EXPIRY" \in Types
  BY DEF Types
<1>3. Adds(ledger, ledger', row)
  BY <1>1, RowAdded
<1>4. \A t \in Types : TypeSum(ledger, t) \in Int
  <2>1. \A t : RowsOf(ledger, t) \in SUBSET Sources
    BY DEF RowsOf
  <2> QED  BY <1>1, <2>1, SumIsInt DEF TypeSum
<1>5. /\ SumOf(ledger', Sources) = SumOf(ledger, Sources) + row.amount
      /\ TypeSum(ledger', "REDEMPTION") = IF row.type = "REDEMPTION"
           THEN TypeSum(ledger, "REDEMPTION") + row.amount ELSE TypeSum(ledger, "REDEMPTION")
      /\ TypeSum(ledger', "EXPIRY") = IF row.type = "EXPIRY"
           THEN TypeSum(ledger, "EXPIRY") + row.amount ELSE TypeSum(ledger, "EXPIRY")
      /\ row.type # "ACCRUAL" =>
           SumOf(ledger', Fallen(ledger', now)) = SumOf(ledger, Fallen(ledger, now))
  BY <1>1, <1>2, <1>3 DEF Adds
<1>6. TypeSum(ledger, "REDEMPTION") \in Int /\ TypeSum(ledger, "EXPIRY") \in Int
  BY <1>2, <1>4
<1> QED  BY <1>1, <1>5, <1>6, SumsOfRows

\* An accrual that is written has not aged.
LEMMA AccrualCounts ==
  ASSUME LedgerAssumption, TypeInv, NEW c \in Calls, WriteAccrual(c)
  PROVE  /\ Redeemed' = Redeemed /\ Expired' = Expired /\ Aged' = Aged
         /\ \/ ledger' = ledger
            \/ /\ Balance' = IF Granted(c) > 0 THEN Balance + Granted(c) ELSE Balance
               /\ \A s \in Sources :
                    \/ ledger'[s] = ledger[s]
                    \/ /\ s = Invoice(call[c].of) /\ Granted(c) > 0
                       /\ ledger'[s] = Row("ACCRUAL", Granted(c), now + Validity, 0)
                    \/ /\ s = Forfeit(call[c].of)
                       /\ ledger'[s] = Row("CAP_FORFEIT", 0, None, Over(c))
<1> DEFINE i == call[c].of
           a == Row("ACCRUAL", Granted(c), now + Validity, 0)
           f == Row("CAP_FORFEIT", 0, None, Over(c))
           l == IF Granted(c) > 0 THEN [ledger EXCEPT ![Invoice(i)] = a] ELSE ledger
           m == IF Over(c) > 0 THEN [l EXCEPT ![Forfeit(i)] = f] ELSE l
<1>1. /\ i \in Invoices /\ call[c].amount \in Int /\ call[c].before \in Int
      /\ ledger \in [Sources -> Rows] /\ now \in Nat /\ now + Validity \in Nat /\ now' = now
      /\ ~(now + Validity < now)
  BY DEF WriteAccrual, Ends, TypeInv, TypeOK, NoCall, LedgerAssumption
<1>2. Granted(c) \in Int /\ Over(c) \in Nat
  BY <1>1, GrantTypes
<1>3. /\ a \in Rows /\ a.type = "ACCRUAL" /\ a.amount = Granted(c) /\ a.expires = now + Validity
      /\ f \in Rows /\ f.type = "CAP_FORFEIT" /\ f.amount = 0
      /\ a.type \in Types /\ f.type \in Types
  BY <1>1, <1>2 DEF Row, Rows, Types
<1>4. Invoice(i) \in Sources /\ Forfeit(i) \in Sources /\ Invoice(i) # Forfeit(i)
  BY <1>1, KeysAreSources, KeysDiffer
<1>5. CASE ledger' = ledger
  BY <1>1, <1>5, SumsKept
<1>6. CASE ledger' # ledger
  <2>1. /\ Granted(c) > 0 => ledger[Invoice(i)] = NoRow
        /\ Over(c) > 0 => ledger[Forfeit(i)] = NoRow
    BY <1>6 DEF WriteAccrual, Written
  <2>2. ledger' = m
    BY <1>1, <1>4, <1>6, <2>1 DEF WriteAccrual
  <2>3. /\ l \in [Sources -> Rows]
        /\ l[Forfeit(i)] = ledger[Forfeit(i)]
        /\ SumOf(l, Sources) = IF Granted(c) > 0 THEN SumOf(ledger, Sources) + Granted(c)
                               ELSE SumOf(ledger, Sources)
        /\ \A t \in {"REDEMPTION", "EXPIRY"} : TypeSum(l, t) = TypeSum(ledger, t)
        /\ SumOf(l, Fallen(l, now)) = SumOf(ledger, Fallen(ledger, now))
    <3>1. CASE Granted(c) > 0
      <4> HIDE DEF a, f, m, i
      <4>1. l = [ledger EXCEPT ![Invoice(i)] = a]
        BY <3>1
      <4> HIDE DEF l
      <4>2. Adds(ledger, l, a)
        BY <1>1, <1>3, <1>4, <2>1, <3>1, <4>1, RowAdded
      <4>3. l[Forfeit(i)] = ledger[Forfeit(i)]
        BY <1>1, <1>4, <4>1
      <4> QED  BY <1>1, <1>3, <3>1, <4>2, <4>3 DEF Adds, Types
    <3>2. CASE ~(Granted(c) > 0)
      BY <1>1, <3>2
    <3> QED  BY <3>1, <3>2
  <2>4. /\ SumOf(m, Sources) = SumOf(l, Sources)
        /\ \A t \in {"REDEMPTION", "EXPIRY"} : TypeSum(m, t) = TypeSum(l, t)
        /\ SumOf(m, Fallen(m, now)) = SumOf(l, Fallen(l, now))
    <3>1. CASE Over(c) > 0
      <4> HIDE DEF a, f, l, i
      <4>1. m = [l EXCEPT ![Forfeit(i)] = f]
        BY <3>1
      <4>2. SumOf(l, Sources) \in Int
        BY <2>3, SumIsInt
      <4> HIDE DEF m
      <4>3. Adds(l, m, f)
        BY <1>3, <1>4, <2>1, <2>3, <3>1, <4>1, RowAdded
      <4> QED  BY <1>1, <1>3, <4>2, <4>3 DEF Adds, Types
    <3>2. CASE ~(Over(c) > 0)
      BY <3>2
    <3> QED  BY <3>1, <3>2
  <2>5. \A s \in Sources :
          \/ ledger'[s] = ledger[s]
          \/ s = Invoice(i) /\ Granted(c) > 0 /\ ledger'[s] = a
          \/ s = Forfeit(i) /\ ledger'[s] = f
    <3> HIDE DEF a, f, i
    <3> QED  BY <1>1, <1>4, <2>2
  <2> HIDE DEF l, m
  <2>6. /\ Redeemed' = Redeemed /\ Expired' = Expired /\ Aged' = Aged
        /\ Balance' = IF Granted(c) > 0 THEN Balance + Granted(c) ELSE Balance
    BY <1>1, <2>2, <2>3, <2>4, SumsOfRows
  <2> QED  BY <2>5, <2>6
<1> QED  BY <1>5, <1>6

-----------------------------------------------------------------------------
(* Expiry *)

\* What an accrual is.
RowsMean ==
  \A s \in Sources : ledger[s].type = "ACCRUAL" =>
                       ledger[s].amount \in Nat /\ ledger[s].expires \in Nat

\* A sweep is of today; what it read has aged, and what it is about to take
\* is there, unless another sweep has taken it.
SweepMeans(s) ==
  sweep[s] # NoSweep =>
    /\ sweep[s].day = Today
    /\ sweep[s].step = "sum" => sweep[s].aged <= Aged
    /\ sweep[s].step = "write" /\ ~Written(Expiry(Today)) => sweep[s].unspent + Expired <= Aged

ExpiryInv ==
  /\ RowsMean
  /\ Redeemed \in Nat
  /\ \A s \in Sweeps : SweepMeans(s)
  /\ NothingExpiresTwice

LEMMA InitExpiry ==
  ASSUME LedgerAssumption, Init
  PROVE  ExpiryInv
<1>1. \A s \in Sources : ledger[s] = NoRow
  BY DEF Init
<1>2. RowsMean
  BY <1>1 DEF RowsMean, NoRow, Row
<1>3. /\ RowsOf(ledger, "REDEMPTION") = {} /\ RowsOf(ledger, "EXPIRY") = {}
      /\ Fallen(ledger, now) = {}
  BY <1>1 DEF RowsOf, Fallen, NoRow, Row
<1>4. SumOf(ledger, {}) = 0
  BY TotalEmpty DEF SumOf
<1>5. Redeemed = 0 /\ Expired = 0 /\ Aged = 0
  BY <1>3, <1>4, SumsOfRows DEF TypeSum
<1>6. \A s \in Sweeps : sweep[s] = NoSweep
  BY DEF Init
<1> QED  BY <1>2, <1>5, <1>6 DEF ExpiryInv, NothingExpiresTwice, SweepMeans

\* A step that adds no redemption back, no expiry and nothing aged.
LEMMA ExpiryKept ==
  ASSUME LedgerAssumption, TypeInv, ExpiryInv, RowsMean', Redeemed' \in Nat, Expired' = Expired,
         Aged' = Aged, sweep' = sweep, now' = now,
         \A d \in Days : ledger'[Expiry(d)] = ledger[Expiry(d)]
  PROVE  ExpiryInv'
<1>1. Today' = Today
  BY DEF Today
<1>2. Written(Expiry(Today))' = Written(Expiry(Today))
  <2>1. Today \in Days
    BY DaysGoOn DEF TypeInv, TypeOK, Today
  <2> QED  BY <1>1, <2>1 DEF Written
<1>3. ASSUME NEW s \in Sweeps
      PROVE  SweepMeans(s)'
  BY <1>1, <1>2 DEF ExpiryInv, SweepMeans
<1>4. NothingExpiresTwice'
  BY DEF ExpiryInv, NothingExpiresTwice
<1> QED  BY <1>3, <1>4 DEF ExpiryInv

\* A row of another kind.
LEMMA OtherRowExpiry ==
  ASSUME LedgerAssumption, TypeInv, ExpiryInv, NEW k \in Sources, ~Written(k), NEW row \in Rows,
         row.type \in Types \ {"ACCRUAL", "EXPIRY"}, row.type = "REDEMPTION" => -row.amount \in Nat,
         \A d : k # Expiry(d), ledger' = [ledger EXCEPT ![k] = row], sweep' = sweep, now' = now
  PROVE  ExpiryInv'
<1>1. /\ Redeemed' = IF row.type = "REDEMPTION" THEN Redeemed - row.amount ELSE Redeemed
      /\ Expired' = Expired /\ Aged' = Aged
  BY RowCounts
<1>2. Redeemed' \in Nat
  BY <1>1 DEF ExpiryInv, Rows
<1>3. RowsMean'
  BY DEF RowsMean, ExpiryInv, TypeInv, TypeOK
<1>4. \A d \in Days : ledger'[Expiry(d)] = ledger[Expiry(d)]
  <2>1. \A d \in Days : Expiry(d) \in Sources
    BY DEF Sources
  <2> QED  BY <2>1 DEF TypeInv, TypeOK
<1> QED  BY <1>1, <1>2, <1>3, <1>4, ExpiryKept

\* An accrual is not aged when written, nor does it expire anything.
LEMMA WriteAccrualExpiry ==
  ASSUME LedgerAssumption, TypeInv, ExpiryInv, NEW c \in Calls, WriteAccrual(c)
  PROVE  ExpiryInv'
<1>1. /\ Redeemed' = Redeemed /\ Expired' = Expired /\ Aged' = Aged
      /\ sweep' = sweep /\ now' = now
  BY AccrualCounts DEF WriteAccrual, Ends
<1>2. /\ call[c].of \in Invoices /\ now + Validity \in Nat
      /\ call[c].amount \in Int /\ call[c].before \in Int
  BY DEF WriteAccrual, TypeInv, TypeOK, NoCall, LedgerAssumption
<1>3. \A s \in Sources :
        \/ ledger'[s] = ledger[s]
        \/ /\ s = Invoice(call[c].of) /\ Granted(c) > 0
           /\ ledger'[s] = Row("ACCRUAL", Granted(c), now + Validity, 0)
        \/ ledger'[s] = Row("CAP_FORFEIT", 0, None, Over(c))
  BY AccrualCounts
<1>4. Granted(c) \in Int
  BY <1>2, GrantTypes
<1>5. RowsMean'
  BY <1>2, <1>3, <1>4 DEF RowsMean, ExpiryInv, Row
<1>6. \A d \in Days : ledger'[Expiry(d)] = ledger[Expiry(d)]
  <2>1. \A d \in Days : /\ Expiry(d) \in Sources
                        /\ Expiry(d) # Invoice(call[c].of) /\ Expiry(d) # Forfeit(call[c].of)
    BY <1>2, OtherKeysDiffer DEF Sources
  <2> QED  BY <2>1, AccrualCounts
<1> QED  BY <1>1, <1>5, <1>6, ExpiryKept DEF ExpiryInv

\* Refunds and adjustments are neither aged nor expired nor redeemed.
LEMMA WriteOtherExpiry ==
  ASSUME LedgerAssumption, TypeInv, ExpiryInv, NEW c \in Calls, WriteOther(c)
  PROVE  ExpiryInv'
<1> DEFINE k == IF call[c].kind = "refund" THEN Refund(call[c].of) ELSE Admin(call[c].of)
           type == IF call[c].kind = "refund" THEN "REFUND" ELSE "ADJUSTMENT"
           row == Row(type, call[c].amount, None, 0)
<1>1. /\ k \in Sources /\ type \in {"REFUND", "ADJUSTMENT"} /\ call[c].amount \in Int
      /\ \A d : k # Expiry(d)
  BY DEF WriteOther, TypeInv, TypeOK, NoCall, Sources, Refund, Admin, Expiry
<1>2. sweep' = sweep /\ now' = now
  BY DEF WriteOther, Ends
<1>3. row \in Rows /\ row.type \in Types \ {"ACCRUAL", "EXPIRY", "REDEMPTION"}
  BY <1>1 DEF Row, Rows, Types
<1>4. ledger' = IF Written(k) THEN ledger ELSE [ledger EXCEPT ![k] = row]
  BY DEF WriteOther
<1> HIDE DEF k, row
<1>5. CASE Written(k)
  <2>1. RowsMean'
    BY <1>4, <1>5 DEF RowsMean, ExpiryInv
  <2> QED  BY <1>2, <1>4, <1>5, <2>1, SumsKept, ExpiryKept DEF ExpiryInv
<1>6. CASE ~Written(k)
  BY <1>1, <1>2, <1>3, <1>4, <1>6, OtherRowExpiry
<1> QED  BY <1>5, <1>6

\* A redemption makes less expire: sweeps that read before it are bounded by
\* what they read.
LEMMA RedeemExpiry ==
  ASSUME LedgerAssumption, TypeInv, ExpiryInv, NEW o \in Orders, Redeem(o)
  PROVE  ExpiryInv'
<1> DEFINE k == PastryOrder(o)
           row == Row("REDEMPTION", -quote[o], None, 0)
<1>1. k \in Sources /\ \A d : k # Expiry(d)
  BY DEF Sources, PastryOrder, Expiry
<1>2. quote[o] \in Nat
  BY DEF Redeem, TypeInv, TypeOK
<1>3. row \in Rows /\ row.type = "REDEMPTION" /\ row.amount = -quote[o]
  BY <1>2 DEF Row, Rows, Types
<1>4. row.type \in Types \ {"ACCRUAL", "EXPIRY"} /\ -row.amount \in Nat
  BY <1>2, <1>3 DEF Types
<1>5. ~Written(k) /\ ledger' = [ledger EXCEPT ![k] = row] /\ sweep' = sweep /\ now' = now
  BY DEF Redeem
<1> HIDE DEF k, row
<1> QED  BY <1>1, <1>3, <1>4, <1>5, OtherRowExpiry

\* A step that writes no row.
LEMMA NoRowExpiry ==
  ASSUME LedgerAssumption, ExpiryInv, ledger' = ledger, now' = now,
         \A s \in Sweeps : \/ sweep'[s] = sweep[s]
                           \/ sweep'[s] = NoSweep
                           \/ SweepMeans(s)'
  PROVE  ExpiryInv'
<1>1. Redeemed' = Redeemed /\ Expired' = Expired /\ Aged' = Aged
  BY SumsKept
<1>2. Today' = Today
  BY DEF Today
<1>3. RowsMean'
  BY DEF RowsMean, ExpiryInv
<1>4. Written(Expiry(Today))' = Written(Expiry(Today))
  BY <1>2 DEF Written
<1>5. ASSUME NEW s \in Sweeps
      PROVE  SweepMeans(s)'
  BY <1>1, <1>2, <1>4 DEF ExpiryInv, SweepMeans
<1> QED  BY <1>1, <1>3, <1>5 DEF ExpiryInv, NothingExpiresTwice

\* The reads of a sweep, which writes nothing yet.
LEMMA SweepReadsExpiry ==
  ASSUME LedgerAssumption, TypeInv, ExpiryInv, NEW s \in Sweeps,
         SweepStart(s) \/ SweepSum(s) \/ SweepDies(s)
  PROVE  ExpiryInv'
<1>1. ledger' = ledger /\ now' = now
  BY DEF SweepStart, SweepSum, SweepDies
<1>2. /\ sweep \in [Sweeps -> [step: {"idle", "sum", "write"}, day: Days, aged: Int, unspent: Nat]]
      /\ Redeemed \in Nat /\ Expired \in Int /\ Aged \in Int
  BY SumsAreInts DEF TypeInv, TypeOK, ExpiryInv
<1>3. Expired' = Expired /\ Aged' = Aged /\ Today' = Today
  BY <1>1, SumsKept DEF Today
<1>4. \A r \in Sweeps : r # s => sweep'[r] = sweep[r]
  BY <1>2 DEF SweepStart, SweepSum, SweepDies
<1>5. sweep'[s] = NoSweep \/ SweepMeans(s)'
  <2>1. CASE SweepStart(s)
    <3> DEFINE v == [step |-> "sum", day |-> Today, aged |-> Aged, unspent |-> 0]
    <3>1. sweep'[s] = v
      BY <1>2, <2>1 DEF SweepStart
    <3>2. v.day = Today /\ v.step = "sum" /\ v.aged = Aged
      OBVIOUS
    <3> HIDE DEF v
    <3> QED  BY <1>2, <1>3, <3>1, <3>2 DEF SweepMeans
  <2>2. CASE SweepSum(s)
    <3> DEFINE n == Unspent(sweep[s].aged)
               v == [sweep[s] EXCEPT !.step = "write", !.unspent = n]
    <3>1. sweep'[s] = IF n > 0 THEN v ELSE NoSweep
      BY <1>2, <2>2 DEF SweepSum
    <3>2. /\ sweep[s].step = "sum" /\ sweep[s].aged \in Int /\ sweep[s] # NoSweep
          /\ sweep[s].day = Today /\ sweep[s].aged <= Aged
      BY <1>2, <2>2 DEF SweepSum, NoSweep, ExpiryInv, SweepMeans
    <3>3. v.day = Today /\ v.step = "write" /\ v.unspent = n
      BY <1>2, <3>2
    <3>4. n > 0 => n + Expired <= Aged
      BY <1>2, <3>2 DEF Unspent, Greater
    <3> HIDE DEF n, v
    <3> QED  BY <1>3, <3>1, <3>3, <3>4 DEF SweepMeans
  <2>3. CASE SweepDies(s)
    BY <1>2, <2>3 DEF SweepDies
  <2> QED  BY <2>1, <2>2, <2>3
<1> QED  BY <1>1, <1>4, <1>5, NoRowExpiry

\* The day's row is taken once, and what it takes is there.
LEMMA SweepWriteExpiry ==
  ASSUME LedgerAssumption, TypeInv, ExpiryInv, NEW s \in Sweeps, SweepWrite(s)
  PROVE  ExpiryInv'
<1> DEFINE k == Expiry(sweep[s].day)
           row == Row("EXPIRY", -sweep[s].unspent, None, 0)
<1>1. /\ sweep \in [Sweeps -> [step: {"idle", "sum", "write"}, day: Days, aged: Int, unspent: Nat]]
      /\ Redeemed \in Nat /\ Expired \in Int /\ Aged \in Int
  BY SumsAreInts DEF TypeInv, TypeOK, ExpiryInv
<1>2. sweep[s] # NoSweep /\ sweep[s].step = "write" /\ sweep[s].day = Today
  BY DEF SweepWrite, NoSweep, ExpiryInv, SweepMeans
<1>3. now' = now /\ Today' = Today /\ sweep' = [sweep EXCEPT ![s] = NoSweep]
  BY DEF SweepWrite, Today
<1>4. ledger' = IF Written(k) THEN ledger ELSE [ledger EXCEPT ![k] = row]
  BY DEF SweepWrite
<1>5. k \in Sources /\ k = Expiry(Today)
  BY <1>1, <1>2 DEF Sources
<1>6. row \in Rows /\ row.type = "EXPIRY" /\ row.type \in Types /\ row.amount = -sweep[s].unspent
  BY <1>1 DEF Row, Rows, Types
<1>7. row # NoRow
  BY DEF Row, NoRow
<1> HIDE DEF k, row
<1>8. CASE Written(k)
  BY <1>1, <1>3, <1>4, <1>8, NoRowExpiry
<1>9. CASE ~Written(k)
  <2>1. /\ Redeemed' = Redeemed /\ Aged' = Aged
        /\ Expired' = Expired + sweep[s].unspent
    <3>1. /\ Redeemed' = Redeemed /\ Aged' = Aged
          /\ Expired' = Expired - row.amount
      BY <1>3, <1>4, <1>5, <1>6, <1>9, RowCounts
    <3> QED  BY <1>1, <1>6, <3>1
  <2>2. sweep[s].unspent + Expired <= Aged
    BY <1>2, <1>5, <1>9 DEF ExpiryInv, SweepMeans
  <2>3. RowsMean'
    BY <1>4, <1>6, <1>9 DEF RowsMean, ExpiryInv, TypeInv, TypeOK
  <2>4. Written(Expiry(Today))'
    BY <1>3, <1>4, <1>5, <1>7, <1>9 DEF Written, TypeInv, TypeOK
  <2>5. ASSUME NEW r \in Sweeps
        PROVE  SweepMeans(r)'
    BY <1>1, <1>3, <2>1, <2>4 DEF ExpiryInv, SweepMeans
  <2> QED  BY <1>1, <2>1, <2>2, <2>3, <2>5 DEF ExpiryInv, NothingExpiresTwice
<1> QED  BY <1>8, <1>9

\* The clock only ages credit, and the day changes when no sweep runs.
LEMMA TickExpiry ==
  ASSUME LedgerAssumption, ~SpansMidnight, TypeInv, ExpiryInv, Tick
  PROVE  ExpiryInv'
<1>1. ledger' = ledger /\ sweep' = sweep /\ now' = now + 1 /\ now \in Nat
  BY DEF Tick, TypeInv, TypeOK
<1>2. Redeemed' = Redeemed /\ Expired' = Expired
  BY <1>1, SumsKept
<1>3. Aged <= Aged'
  <2> DEFINE l == ledger
             S == Fallen(l, now)
             T == Fallen(l, now')
             f == Amounts(l)
  <2>1. Aged = Total(f, S) /\ Aged' = Total(f, T)
    BY <1>1, SumsOfRows DEF SumOf
  <2>2. T \in SUBSET Sources /\ S \in SUBSET T
    BY <1>1 DEF Fallen, RowsOf, ExpiryInv, RowsMean
  <2>3. \A s \in T : f[s] \in Nat
    BY DEF Fallen, RowsOf, Amounts, ExpiryInv, RowsMean
  <2> HIDE DEF S, T, f
  <2>4. IsFiniteSet(T)
    BY <2>2, SourcesFinite, FS_Subset
  <2> QED  BY <2>1, <2>2, <2>3, <2>4, TotalOfPart
<1>4. Expired \in Int /\ Aged \in Int /\ Aged' \in Int
  <2>1. Aged' = SumOf(ledger, Fallen(ledger, now'))
    BY <1>1, SumsOfRows
  <2>2. Fallen(ledger, now') \in SUBSET Sources
    BY DEF Fallen, RowsOf
  <2> QED  BY <2>1, <2>2, SumIsInt, SumsAreInts DEF TypeInv, TypeOK
<1>5. Today' = Today \/ \A s \in Sweeps : sweep'[s] = NoSweep
  BY DEF Tick, Today
<1>6. RowsMean'
  BY <1>1 DEF RowsMean, ExpiryInv
<1>7. ASSUME NEW s \in Sweeps, Today' = Today
      PROVE  SweepMeans(s)'
  <2>1. /\ sweep[s].aged \in Int /\ sweep[s].unspent \in Int
    BY DEF TypeInv, TypeOK
  <2>2. Written(Expiry(Today))' = Written(Expiry(Today))
    BY <1>1, <1>7 DEF Written
  <2> QED  BY <1>1, <1>2, <1>3, <1>4, <1>7, <2>1, <2>2 DEF ExpiryInv, SweepMeans
<1>8. \A s \in Sweeps : SweepMeans(s)'
  BY <1>5, <1>7 DEF SweepMeans
<1> QED  BY <1>2, <1>3, <1>4, <1>6, <1>8 DEF ExpiryInv, NothingExpiresTwice

LEMMA ExpiryStep ==
  ASSUME LedgerAssumption, ~SpansMidnight, TypeInv, ExpiryInv, [Next]_vars
  PROVE  ExpiryInv'
<1>1. ASSUME NEW c \in Calls, Apply(c)
      PROVE  ExpiryInv'
  <2>1. CASE WriteAccrual(c)
    BY <2>1, WriteAccrualExpiry
  <2>2. CASE WriteOther(c)
    BY <2>2, WriteOtherExpiry
  <2>3. CASE ledger' = ledger /\ sweep' = sweep /\ now' = now
    BY <2>3, NoRowExpiry
  <2> QED  BY <1>1, <2>1, <2>2, <2>3 DEF Apply, ReceivePaid, ReceiveRefund, Adjust, CallFails, Ends
<1>2. ASSUME NEW i \in Invoices, Stripe(i)
      PROVE  ExpiryInv'
  BY <1>2, NoRowExpiry DEF Stripe, Collect, PaidIgnored, RefundCharge, RefundIgnored
<1>3. ASSUME NEW o \in Orders, Quote(o) \/ Redeem(o)
      PROVE  ExpiryInv'
  BY <1>3, RedeemExpiry, NoRowExpiry DEF Quote
<1>4. ASSUME NEW s \in Sweeps, Sweep(s)
      PROVE  ExpiryInv'
  BY <1>4, SweepReadsExpiry, SweepWriteExpiry DEF Sweep
<1>5. CASE UNCHANGED vars
  BY <1>5, NoRowExpiry DEF vars
<1> QED  BY <1>1, <1>2, <1>3, <1>4, <1>5, TickExpiry DEF Next

(***************************************************************************)
(* What the sweeps of all days forfeit together never exceeds what has     *)
(* aged (NothingExpiresTwice), however many sweeps run on a day and        *)
(* whatever is written between their sums and their row, if every sweep    *)
(* ends on the day it began: the row of a day is written once, and until   *)
(* it is nothing else adds to what has expired.                            *)
(***************************************************************************)
THEOREM NoCreditExpiresTwice == ~SpansMidnight => (Spec => []NothingExpiresTwice)
<1>1. Init => TypeInv /\ ExpiryInv
  BY LedgerAssumption, InitTypes, InitExpiry
<1>2. SUFFICES ASSUME ~SpansMidnight
               PROVE  Spec => []NothingExpiresTwice
  OBVIOUS
<1>3. TypeInv /\ ExpiryInv /\ [Next]_vars => TypeInv' /\ ExpiryInv'
  BY <1>2, LedgerAssumption, TypeStep, ExpiryStep
<1>4. ExpiryInv => NothingExpiresTwice
  BY DEF ExpiryInv
<1> QED  BY <1>1, <1>3, <1>4, PTL DEF Spec

-----------------------------------------------------------------------------
(* The cap *)

\* Until the call of an accrual writes, the balance rises by no more than
\* other calls credit.
CapInv ==
  \A c \in Calls : call[c].kind = "accrual" => Balance <= call[c].before + credited[c]

\* An accrual that writes, writes under the cap and what others credited.
WithinCap ==
  \A c \in Calls :
    call[c].kind = "accrual" /\ call'[c] = NoCall /\ ledger' # ledger =>
      Balance' <= Greater(Balance, Cap + credited[c])

\* A row that debits, and ends no call.
LEMMA DebitCap ==
  ASSUME LedgerAssumption, TypeInv, CapInv, NEW k \in Sources, ~Written(k),
         NEW row \in Rows, row.type \in Types, row.amount <= 0,
         ledger' = [ledger EXCEPT ![k] = row], UNCHANGED <<call, credited, now>>
  PROVE  CapInv' /\ WithinCap
<1>1. Balance' = Balance + row.amount /\ row.amount \in Int /\ Balance \in Int
  BY RowCounts, SumsAreInts DEF Rows, TypeInv, TypeOK
<1>2. \A c \in Calls : credited[c] \in Nat /\ (call[c].kind = "accrual" => call[c].before \in Int)
  BY DEF TypeInv, TypeOK, Call
<1>3. CapInv'
  BY <1>1, <1>2 DEF CapInv
<1>4. WithinCap
  BY DEF WithinCap, NoCall
<1> QED  BY <1>3, <1>4

\* A step that writes no row; a call it begins has read the balance.
LEMMA NoRowCap ==
  ASSUME LedgerAssumption, TypeInv, CapInv, ledger' = ledger, credited' = credited,
         \A c \in Calls : call'[c] = call[c] \/ call'[c].before = Balance
  PROVE  CapInv' /\ WithinCap
<1>1. Balance' = Balance /\ Balance \in Int /\ credited \in [Calls -> Nat]
  BY SumsOfRows, SumsAreInts DEF TypeInv, TypeOK
<1> QED  BY <1>1 DEF CapInv, WithinCap

\* A call that ends is counted for the calls that go on.
LEMMA EndCap ==
  ASSUME LedgerAssumption, TypeInv, CapInv, ledger' \in [Sources -> Rows],
         NEW c \in Calls, Ends(c), Credits(c)
  PROVE  CapInv'
<1>1. Balance \in Int /\ Balance' \in Int
  BY SumsAreInts, SumIsInt, SumsOfRows DEF TypeInv, TypeOK
<1>2. ASSUME NEW d \in Calls, call'[d].kind = "accrual"
      PROVE  Balance' <= call'[d].before + credited'[d]
  <2>1. d # c /\ call'[d] = call[d] /\ call[d] # NoCall
    BY <1>2 DEF Ends, TypeInv, NoCall
  <2>2. /\ credited'[d] = credited[d] + Greater(0, Balance' - Balance)
        /\ credited[d] \in Nat /\ call[d].before \in Int
    BY <2>1 DEF Credits, TypeInv, TypeOK, Call
  <2>3. Balance <= call[d].before + credited[d]
    BY <1>2, <2>1 DEF CapInv
  <2> QED  BY <1>1, <2>1, <2>2, <2>3 DEF Greater
<1> QED  BY <1>2 DEF CapInv

\* Only the call of an accrual that writes can break the cap.
LEMMA OtherCallsCap ==
  ASSUME TypeInv, NEW c \in Calls, Ends(c),
         call[c].kind = "accrual" /\ ledger' # ledger =>
           Balance' <= Greater(Balance, Cap + credited[c])
  PROVE  WithinCap
<1>1. \A d \in Calls : d # c => call'[d] = call[d]
  BY DEF Ends, TypeInv
<1>2. \A d \in Calls : call[d].kind = "accrual" => call[d] # NoCall
  BY DEF NoCall
<1> QED  BY <1>1, <1>2 DEF WithinCap

\* The accrual adds no more than the sum it read left below the cap, and the
\* balance has risen since by no more than others credited.
LEMMA WriteAccrualCap ==
  ASSUME LedgerAssumption, TypeInv, CapInv, NEW c \in Calls, WriteAccrual(c)
  PROVE  CapInv' /\ WithinCap
<1>1. CapInv'
  <2>1. ledger' \in [Sources -> Rows]
    BY WriteAccrualTypes DEF TypeInv, TypeOK
  <2> QED  BY <2>1, EndCap DEF WriteAccrual
<1>2. /\ call[c].amount \in Int /\ call[c].before \in Int /\ credited[c] \in Nat
      /\ Balance \in Int /\ Balance <= call[c].before + credited[c]
  BY SumsAreInts DEF WriteAccrual, TypeInv, TypeOK, NoCall, CapInv
<1>3. Granted(c) \in Int /\ Granted(c) <= Greater(0, Cap - call[c].before)
  BY <1>2, GrantTypes
<1>4. ledger' # ledger => Balance' = IF Granted(c) > 0 THEN Balance + Granted(c) ELSE Balance
  BY AccrualCounts
<1>5. ledger' # ledger => Balance' <= Greater(Balance, Cap + credited[c])
  BY <1>2, <1>3, <1>4 DEF Greater, LedgerAssumption
<1>6. WithinCap
  BY <1>5, OtherCallsCap DEF WriteAccrual
<1> QED  BY <1>1, <1>6

\* A refund, an adjustment, or a call that fails, is no accrual that writes.
LEMMA OtherEndsCap ==
  ASSUME LedgerAssumption, TypeInv, CapInv, NEW c \in Calls, WriteOther(c) \/ CallFails(c)
  PROVE  CapInv' /\ WithinCap
<1>1. Ends(c) /\ Credits(c) /\ (call[c].kind # "accrual" \/ ledger' = ledger)
  BY DEF WriteOther, CallFails
<1>2. ledger' \in [Sources -> Rows]
  BY WriteOtherTypes DEF CallFails, TypeInv, TypeOK
<1>3. WithinCap
  BY <1>1, OtherCallsCap
<1> QED  BY <1>1, <1>2, <1>3, EndCap

\* Every step stays within the cap and keeps the invariant of it.
LEMMA CapStep ==
  ASSUME LedgerAssumption, TypeInv, CapInv, [Next]_vars
  PROVE  CapInv' /\ WithinCap
<1>1. ASSUME NEW c \in Calls, Apply(c)
      PROVE  CapInv' /\ WithinCap
  <2>1. ASSUME NEW kind, NEW of, NEW amount, Begin(c, kind, of, amount), ledger' = ledger
        PROVE  CapInv' /\ WithinCap
    <3>1. \A d \in Calls : call'[d] = call[d] \/ call'[d].before = Balance
      BY <2>1 DEF Begin, TypeInv
    <3> QED  BY <2>1, <3>1, NoRowCap DEF Begin
  <2>3. CASE \E i \in Invoices : ReceivePaid(c, i)
    BY <2>1, <2>3 DEF ReceivePaid
  <2>4. CASE \E i \in Invoices : \E n \in 1 .. Amount[i] : ReceiveRefund(c, i, n)
    BY <2>1, <2>4 DEF ReceiveRefund
  <2>5. CASE \E a \in Adjustments, n \in Moves : Adjust(c, a, n)
    BY <2>1, <2>5 DEF Adjust
  <2> QED  BY <1>1, <2>3, <2>4, <2>5, WriteAccrualCap, OtherEndsCap DEF Apply
<1>2. ASSUME NEW i \in Invoices, Stripe(i)
      PROVE  CapInv' /\ WithinCap
  BY <1>2, NoRowCap DEF Stripe, Collect, PaidIgnored, RefundCharge, RefundIgnored
<1>3. ASSUME NEW o \in Orders, Quote(o) \/ Redeem(o)
      PROVE  CapInv' /\ WithinCap
  <2>1. CASE Quote(o)
    BY <2>1, NoRowCap DEF Quote
  <2>2. CASE Redeem(o)
    <3> DEFINE k == PastryOrder(o)
               row == Row("REDEMPTION", -quote[o], None, 0)
    <3>1. k \in Sources
      BY DEF Sources, PastryOrder
    <3>2. quote[o] \in Nat
      BY <2>2 DEF Redeem, TypeInv, TypeOK
    <3>3. row \in Rows /\ row.type \in Types /\ row.amount <= 0
      BY <3>2 DEF Row, Rows, Types
    <3>4. ~Written(k) /\ ledger' = [ledger EXCEPT ![k] = row] /\ UNCHANGED <<call, credited, now>>
      BY <2>2 DEF Redeem
    <3> HIDE DEF k, row
    <3> QED  BY <3>1, <3>3, <3>4, DebitCap
  <2> QED  BY <1>3, <2>1, <2>2
<1>4. ASSUME NEW s \in Sweeps, Sweep(s)
      PROVE  CapInv' /\ WithinCap
  <2>1. CASE SweepWrite(s)
    <3> DEFINE k == Expiry(sweep[s].day)
               row == Row("EXPIRY", -sweep[s].unspent, None, 0)
    <3>1. sweep[s].day \in Days /\ sweep[s].unspent \in Nat
      BY DEF TypeInv, TypeOK
    <3>2. k \in Sources
      BY <3>1 DEF Sources, Expiry
    <3>3. row \in Rows /\ row.type \in Types /\ row.amount <= 0
      BY <3>1 DEF Row, Rows, Types
    <3>4. /\ ledger' = IF Written(k) THEN ledger ELSE [ledger EXCEPT ![k] = row]
          /\ UNCHANGED <<call, credited, now>>
      BY <2>1 DEF SweepWrite
    <3> HIDE DEF k, row
    <3>5. CASE Written(k)
      BY <3>4, <3>5, NoRowCap
    <3>6. CASE ~Written(k)
      BY <3>2, <3>3, <3>4, <3>6, DebitCap
    <3> QED  BY <3>5, <3>6
  <2>2. CASE SweepStart(s) \/ SweepSum(s) \/ SweepDies(s)
    BY <2>2, NoRowCap DEF SweepStart, SweepSum, SweepDies
  <2> QED  BY <1>4, <2>1, <2>2 DEF Sweep
<1>5. CASE Tick
  BY <1>5, NoRowCap DEF Tick
<1>6. CASE UNCHANGED vars
  BY <1>6, NoRowCap DEF vars
<1> QED  BY <1>1, <1>2, <1>3, <1>4, <1>5, <1>6 DEF Next

(***************************************************************************)
(* An accrual carries the balance above the cap by no more than other      *)
(* calls credited between its sum and its row (AccrualWithinCap), whatever *)
(* orders redeem, sweeps forfeit and calls overlap it.  An accrual that    *)
(* runs alone therefore stays under the cap.                               *)
(***************************************************************************)
THEOREM AccrualsStayUnderCap == Spec => AccrualWithinCap
<1>1. Init => TypeInv /\ CapInv
  <2>1. Init => CapInv
    BY DEF Init, CapInv, NoCall
  <2> QED  BY <2>1, LedgerAssumption, InitTypes
<1>2. TypeInv /\ CapInv /\ [Next]_vars => TypeInv' /\ CapInv' /\ WithinCap
  BY LedgerAssumption, TypeStep, CapStep
<1>3. AccrualWithinCap <=> [][WithinCap]_vars
  BY DEF AccrualWithinCap, WithinCap
<1> QED  BY <1>1, <1>2, <1>3, PTL DEF Spec
=============================================================================
