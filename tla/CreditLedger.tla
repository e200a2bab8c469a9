---------------------------- MODULE CreditLedger ----------------------------
(***************************************************************************)
(* The credit ledger of one customer.  Invoices accrue credit up to a cap, *)
(* refunds and administrators move it, pastry orders redeem it, and a      *)
(* daily sweep forfeits what was not redeemed in time.  A row is written   *)
(* by a call that read the balance, or other sums, in statements of its    *)
(* own before; only the unique key of the row's source is tested by the    *)
(* write itself.                                                           *)
(*                                                                         *)
(* balanceAfter is left out: no code reads it back, except to report it to *)
(* the call that finds its source already applied.                         *)
(***************************************************************************)
EXTENDS Integers, FiniteSets, FiniteSetsExt

CONSTANTS
  Invoices, Orders, Adjustments, None,
  Calls,        \* calls of applyTransaction that can be in progress
  Sweeps,       \* runs of the credit maintenance job that can be in progress
  Amount,       \* amount_paid of each invoice
  Price,        \* what each pastry order costs before credit
  Moves,        \* amounts an administrator may adjust by
  Cap,          \* DEFAULT_CREDIT_CAP_MINOR
  Validity,     \* CREDIT_VALID_MONTHS, in ticks of the clock
  TicksPerDay,
  Horizon,      \* bound on the clock
  Redelivered,  \* one invoice may be the subject of several events
  SpansMidnight \* a sweep may still run when the next day begins

ASSUME LedgerAssumption ==
  /\ IsFiniteSet(Invoices) /\ IsFiniteSet(Orders) /\ IsFiniteSet(Adjustments)
  /\ Amount \in [Invoices -> Int]
  /\ Price \in [Orders -> Nat]
  /\ Moves \subseteq Int \ {0}
  /\ Cap \in Nat /\ Validity \in Nat /\ Horizon \in Nat
  /\ TicksPerDay \in Nat \ {0}
  /\ None \notin Nat
  /\ Redelivered \in BOOLEAN /\ SpansMidnight \in BOOLEAN

VARIABLES
  ledger,     \* CreditTransaction rows by (sourceType, sourceId)
  issued,     \* invoices Stripe has collected
  paidEvent,  \* invoice.paid events to be delivered
  refunded,   \* amount_refunded of the charge of each invoice
  refundEvent,\* charge.refunded events to be delivered
  quote,      \* creditAppliedMinor of each order, None before checkout
  call,       \* what each applyTransaction has read
  credited,   \* ghost: credit other calls wrote since each call summed the balance
  sweep,      \* what each sweep has read
  now         \* the clock

vars == <<ledger, issued, paidEvent, refunded, refundEvent, quote, call, credited,
          sweep, now>>

-----------------------------------------------------------------------------
(* Rows *)

Invoice(i) == <<"stripe.invoice", i>>
Forfeit(i) == <<"stripe.invoice#forfeit", i>>
Refund(i) == <<"stripe.refund", i>>
PastryOrder(o) == <<"pastry.order", o>>
Admin(a) == <<"admin", a>>
Expiry(d) == <<"system.expiry-monthly", d>>

Today == now \div TicksPerDay
Days == 0 .. Horizon \div TicksPerDay

Sources ==
  (UNION {{Invoice(i), Forfeit(i), Refund(i)} : i \in Invoices})
    \cup {PastryOrder(o) : o \in Orders}
    \cup {Admin(a) : a \in Adjustments}
    \cup {Expiry(d) : d \in Days}

Types == {"ACCRUAL", "REDEMPTION", "ADJUSTMENT", "CAP_FORFEIT", "EXPIRY", "REFUND"}

\* forfeited is the number in the reason of a CAP_FORFEIT row, whose amount
\* is zero.
Row(type, amount, expires, forfeited) ==
  [type |-> type, amount |-> amount, expires |-> expires, forfeited |-> forfeited]

NoRow == Row("none", 0, None, 0)

Rows == [type: Types \cup {"none"}, amount: Int, expires: Nat \cup {None}, forfeited: Nat]

Written(s) == ledger[s] # NoRow

Sum(S) == MapThenSumSet(LAMBDA s : ledger[s].amount, S)
OfType(t) == {s \in Sources : ledger[s].type = t}
Balance == Sum(Sources)

Aged == Sum({s \in OfType("ACCRUAL") : ledger[s].expires < now})
Redeemed == -Sum(OfType("REDEMPTION"))
Expired == -Sum(OfType("EXPIRY"))

Greater(a, b) == IF a > b THEN a ELSE b
Lesser(a, b) == IF a < b THEN a ELSE b

-----------------------------------------------------------------------------
NoCall == [kind |-> "none", of |-> None, amount |-> 0, before |-> 0]
NoSweep == [step |-> "idle", day |-> 0, aged |-> 0, unspent |-> 0]

TypeOK ==
  /\ ledger \in [Sources -> Rows]
  /\ issued \subseteq Invoices /\ paidEvent \subseteq Invoices
  /\ refunded \in [Invoices -> Nat]
  /\ refundEvent \subseteq Invoices \X Nat
  /\ quote \in [Orders -> Nat \cup {None}]
  /\ \A c \in Calls :
       \/ call[c] = NoCall
       \/ /\ call[c].amount \in Int /\ call[c].before \in Int
          /\ \/ call[c].kind = "accrual" /\ call[c].of \in Invoices
             \/ call[c].kind = "refund" /\ call[c].of \in Invoices
             \/ call[c].kind = "adjust" /\ call[c].of \in Adjustments
  /\ credited \in [Calls -> Nat]
  /\ sweep \in [Sweeps -> [step: {"idle", "sum", "write"}, day: Days, aged: Int,
                           unspent: Nat]]
  /\ now \in 0 .. Horizon

Init ==
  /\ ledger = [s \in Sources |-> NoRow]
  /\ issued = {} /\ paidEvent = {}
  /\ refunded = [i \in Invoices |-> 0] /\ refundEvent = {}
  /\ quote = [o \in Orders |-> None]
  /\ call = [c \in Calls |-> NoCall]
  /\ credited = [c \in Calls |-> 0]
  /\ sweep = [s \in Sweeps |-> NoSweep]
  /\ now = 0

-----------------------------------------------------------------------------
(* Stripe *)

Collect(i) ==
  /\ i \notin issued \/ Redelivered
  /\ issued' = issued \cup {i}
  /\ paidEvent' = paidEvent \cup {i}
  /\ UNCHANGED <<ledger, refunded, refundEvent, quote, call, credited, sweep, now>>

\* In full or in part; the event carries what was refunded so far.
RefundCharge(i, n) ==
  /\ i \in issued /\ refunded[i] < n /\ n <= Amount[i]
  /\ refunded' = [refunded EXCEPT ![i] = n]
  /\ refundEvent' = refundEvent \cup {<<i, n>>}
  /\ UNCHANGED <<ledger, issued, paidEvent, quote, call, credited, sweep, now>>

-----------------------------------------------------------------------------
(* applyTransaction: the source is looked up and the balance summed, then  *)
(* the row is written                                                      *)

Begin(c, kind, of, amount) ==
  /\ call[c] = NoCall
  /\ call' = [call EXCEPT ![c] = [kind |-> kind, of |-> of, amount |-> amount,
                                  before |-> Balance]]
  /\ UNCHANGED credited

ReceivePaid(c, i) ==
  /\ i \in paidEvent
  /\ paidEvent' = paidEvent \ {i}
  /\ Amount[i] > 0 /\ ~Written(Invoice(i))
  /\ Begin(c, "accrual", i, Amount[i])
  /\ UNCHANGED <<ledger, issued, refunded, refundEvent, quote, sweep, now>>

PaidIgnored(i) ==
  /\ i \in paidEvent
  /\ paidEvent' = paidEvent \ {i}
  /\ UNCHANGED <<ledger, issued, refunded, refundEvent, quote, call, credited, sweep, now>>

\* Mutant: the refund is taken as it is, although the cap may have granted
\* less than the invoice.
RefundInFull(i, n) == -n

\* At most what the invoice accrued.
RefundAmount(i, n) == -Lesser(n, ledger[Invoice(i)].amount)

ReceiveRefund(c, i, n) ==
  /\ <<i, n>> \in refundEvent
  /\ refundEvent' = refundEvent \ {<<i, n>>}
  /\ ledger[Invoice(i)].type = "ACCRUAL" /\ ~Written(Refund(i))
  /\ Begin(c, "refund", i, RefundAmount(i, n))
  /\ UNCHANGED <<ledger, issued, paidEvent, refunded, quote, sweep, now>>

\* No accrual of the invoice, a refund of the charge already applied, or
\* the handler fails.
RefundIgnored(i, n) ==
  /\ <<i, n>> \in refundEvent
  /\ refundEvent' = refundEvent \ {<<i, n>>}
  /\ UNCHANGED <<ledger, issued, paidEvent, refunded, quote, call, credited, sweep, now>>

\* Every adjustment has a new id.
Adjust(c, a, n) ==
  /\ ~Written(Admin(a)) /\ \A d \in Calls : call[d].of # a
  /\ Begin(c, "adjust", a, n)
  /\ UNCHANGED <<ledger, issued, paidEvent, refunded, refundEvent, quote, sweep, now>>

Ends(c) ==
  /\ call' = [call EXCEPT ![c] = NoCall]
  /\ UNCHANGED <<issued, paidEvent, refunded, refundEvent, quote, sweep, now>>

\* What a call credits, the others did not count.
Credits(c) ==
  credited' = [d \in Calls |-> IF d = c \/ call[d] = NoCall THEN 0
                              ELSE credited[d] + Greater(0, Balance' - Balance)]

CallFails(c) ==
  /\ call[c] # NoCall
  /\ Ends(c)
  /\ UNCHANGED ledger
  /\ Credits(c)

\* Mutant: the part of the accrual that fits under the cap is not computed.
GrantedInFull(c) == call[c].amount

\* What fits under the cap, of an accrual.
Granted(c) == Lesser(call[c].amount, Greater(0, Cap - call[c].before))

\* Mutant: what exceeds the cap is counted from the balance, which may be
\* above it already.
OverTheCap(c) == Greater(0, call[c].before + call[c].amount - Cap)

Over(c) == call[c].amount - Granted(c)

\* One transaction: a unique key that is taken rolls both rows back.
WriteAccrual(c) ==
  LET i == call[c].of
      accrues == Granted(c) > 0
      forfeits == Over(c) > 0
  IN  /\ call[c].kind = "accrual"
      /\ Ends(c)
      /\ ledger' =
           IF (accrues /\ Written(Invoice(i))) \/ (forfeits /\ Written(Forfeit(i)))
           THEN ledger
           ELSE [ledger EXCEPT
                   ![Invoice(i)] = IF accrues
                                   THEN Row("ACCRUAL", Granted(c), now + Validity, 0)
                                   ELSE @,
                   ![Forfeit(i)] = IF forfeits THEN Row("CAP_FORFEIT", 0, None, Over(c))
                                   ELSE @]
      /\ Credits(c)

WriteOther(c) ==
  LET s == IF call[c].kind = "refund" THEN Refund(call[c].of) ELSE Admin(call[c].of)
      type == IF call[c].kind = "refund" THEN "REFUND" ELSE "ADJUSTMENT"
  IN  /\ call[c].kind \in {"refund", "adjust"}
      /\ Ends(c)
      /\ ledger' = IF Written(s) THEN ledger
                   ELSE [ledger EXCEPT ![s] = Row(type, call[c].amount, None, 0)]
      /\ Credits(c)

-----------------------------------------------------------------------------
(* Pastry orders *)

\* Mutant: a negative balance is taken as it is.
AppliedUnclamped(o) == Lesser(Price[o], Balance)

Applied(o) == Lesser(Price[o], Greater(0, Balance))

\* The checkout quotes what the balance allows and the order needs.
Quote(o) ==
  /\ quote[o] = None
  /\ quote' = [quote EXCEPT ![o] = Applied(o)]
  /\ UNCHANGED <<ledger, issued, paidEvent, refunded, refundEvent, call, credited, sweep, now>>

\* The transaction that marks the order PAID debits the quote, once.
Redeem(o) ==
  /\ quote[o] # None /\ quote[o] > 0 /\ ~Written(PastryOrder(o))
  /\ ledger' = [ledger EXCEPT ![PastryOrder(o)] = Row("REDEMPTION", -quote[o], None, 0)]
  /\ UNCHANGED <<issued, paidEvent, refunded, refundEvent, quote, call, credited, sweep, now>>

-----------------------------------------------------------------------------
(* runCreditMaintenanceJob: the sweep *)

SweepStart(s) ==
  /\ sweep[s] = NoSweep /\ Aged > 0
  /\ sweep' = [sweep EXCEPT ![s] = [step |-> "sum", day |-> Today, aged |-> Aged,
                                    unspent |-> 0]]
  /\ UNCHANGED <<ledger, issued, paidEvent, refunded, refundEvent, quote, call, credited, now>>

\* Mutant: what earlier sweeps took is forgotten.
UnspentOfAged(aged) == Greater(0, aged - Redeemed)

Unspent(aged) == Greater(0, aged - Redeemed - Expired)

SweepSum(s) ==
  /\ sweep[s].step = "sum"
  /\ sweep' = [sweep EXCEPT ![s] =
       IF Unspent(sweep[s].aged) > 0
       THEN [@ EXCEPT !.step = "write", !.unspent = Unspent(sweep[s].aged)]
       ELSE NoSweep]
  /\ UNCHANGED <<ledger, issued, paidEvent, refunded, refundEvent, quote, call, credited, now>>

\* The key is the day the sweep began; a taken one is swallowed.
SweepWrite(s) ==
  LET key == Expiry(sweep[s].day)
  IN  /\ sweep[s].step = "write"
      /\ ledger' = IF Written(key) THEN ledger
                   ELSE [ledger EXCEPT ![key] = Row("EXPIRY", -sweep[s].unspent, None, 0)]
      /\ sweep' = [sweep EXCEPT ![s] = NoSweep]
      /\ UNCHANGED <<issued, paidEvent, refunded, refundEvent, quote, call, credited, now>>

SweepDies(s) ==
  /\ sweep[s] # NoSweep
  /\ sweep' = [sweep EXCEPT ![s] = NoSweep]
  /\ UNCHANGED <<ledger, issued, paidEvent, refunded, refundEvent, quote, call, credited, now>>

Tick ==
  /\ now < Horizon
  /\ \/ SpansMidnight
     \/ (now + 1) \div TicksPerDay = Today
     \/ sweep = [s \in Sweeps |-> NoSweep]
  /\ now' = now + 1
  /\ UNCHANGED <<ledger, issued, paidEvent, refunded, refundEvent, quote, call, credited,
                 sweep>>

-----------------------------------------------------------------------------
Apply(c) ==
  \/ \E i \in Invoices :
       \/ ReceivePaid(c, i)
       \/ \E n \in 1 .. Amount[i] : ReceiveRefund(c, i, n)
  \/ \E a \in Adjustments, n \in Moves : Adjust(c, a, n)
  \/ WriteAccrual(c)
  \/ WriteOther(c)
  \/ CallFails(c)

Stripe(i) ==
  \/ Collect(i)
  \/ PaidIgnored(i)
  \/ \E n \in 1 .. Amount[i] : RefundCharge(i, n) \/ RefundIgnored(i, n)

Sweep(s) == SweepStart(s) \/ SweepSum(s) \/ SweepWrite(s) \/ SweepDies(s)

Next ==
  \/ \E c \in Calls : Apply(c)
  \/ \E i \in Invoices : Stripe(i)
  \/ \E o \in Orders : Quote(o) \/ Redeem(o)
  \/ \E s \in Sweeps : Sweep(s)
  \/ Tick

Spec == Init /\ [][Next]_vars

-----------------------------------------------------------------------------
(* Properties *)

(***************************************************************************)
(* An accrual carries the balance above the cap (DEFAULT_CREDIT_CAP_MINOR) *)
(* by no more than other calls credited between its sum and its row, which *)
(* it could not know: the refunds, redemptions and expiries written in     *)
(* between never help it over, and a call that ran alone stays under.      *)
(***************************************************************************)
AccrualWithinCap ==
  [][\A c \in Calls :
       call[c].kind = "accrual" /\ call'[c] = NoCall /\ ledger' # ledger =>
         Balance' <= Greater(Balance, Cap + credited[c])]_vars

(***************************************************************************)
(* What the sweeps of all days forfeit together never exceeds what has     *)
(* aged: no credit expires twice, though several sweeps run on a day and   *)
(* each derives its amount from sums read earlier.                         *)
(***************************************************************************)
NothingExpiresTwice == Expired <= Aged

(***************************************************************************)
(* What an invoice accrues and what it forfeits add up to what was paid    *)
(* ("so the books reconcile", applyTransaction), and a refund takes back   *)
(* credit of an invoice that accrued and no more than it accrued, not what *)
(* the cap forfeited (onCravingsRefund).  Holds when each invoice is the   *)
(* subject of one event.                                                   *)
(***************************************************************************)
BooksReconcile ==
  \A i \in Invoices :
    /\ Written(Invoice(i)) \/ Written(Forfeit(i)) =>
         ledger[Invoice(i)].amount + ledger[Forfeit(i)].forfeited = Amount[i]
    /\ Written(Refund(i)) => -ledger[Refund(i)].amount \in 1 .. ledger[Invoice(i)].amount

-----------------------------------------------------------------------------
(* What the code's comments promise and its steps do not keep *)

(***************************************************************************)
(* An accrual never takes the balance above the cap ("if the new balance   *)
(* would exceed `DEFAULT_CREDIT_CAP_MINOR`, we write the up-to-cap         *)
(* accrual", applyTransaction), whatever overlaps it.                      *)
(***************************************************************************)
AccrualKeepsCap ==
  [][\A i \in Invoices :
       ledger'[Invoice(i)] # ledger[Invoice(i)] => Balance' <= Cap]_vars

(***************************************************************************)
(* The sweep forfeits unspent credit only: never more than the balance     *)
(* holds ("writes a fresh EXPIRY transaction with the unspent remainder    *)
(* negated", CreditTransaction.expiresAt).                                 *)
(***************************************************************************)
ForfeitsOnlyWhatIsLeft ==
  [][\A d \in Days : ledger'[Expiry(d)] # ledger[Expiry(d)] => Balance' >= 0]_vars
=============================================================================
