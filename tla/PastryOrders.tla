---------------------------- MODULE PastryOrders ----------------------------
(***************************************************************************)
(* Pastry checkout and order lifecycle: startCheckout, the completion      *)
(* handler shared by the Stripe webhook and the reconcile endpoint, and    *)
(* the admin status transitions, running concurrently over one database.   *)
(*                                                                         *)
(* The unit of interleaving is one database statement or transaction, or   *)
(* one call to Stripe: every await of the services is a point where any    *)
(* other request may run.  A transaction is one action, because the rows   *)
(* it competes for (the order, the promo code) are locked by its first     *)
(* write.  What a request has read and not yet used is kept in req,        *)
(* completing, verifying and admin, which are memory and not rows.         *)
(***************************************************************************)
EXTENDS Integers

CONSTANTS
  Users,          \* customers
  Orders,         \* order ids; each is also one call of startCheckout
  Items,          \* cart lines (an item with its quantity)
  Codes,          \* promo codes
  Admins,         \* concurrent calls of adminUpdateStatus
  None,           \* absent user, order, code or status
  Subtotal,       \* price of a set of cart lines, in minor units
  Minimum,        \* pastry.order.minimum-pence
  ShippingFees,   \* the fees resolveFee can return (0 when no zone matches)
  Terms,          \* what each promo code grants, to whom, how often
  CreditMoves,    \* ledger rows other parts of the system may write
  MinBalance, MaxBalance,  \* bound on those rows
  MaxInFlight,    \* bound on simultaneous completions of one order
  DelayedMethods, \* Stripe account accepts methods that settle days later
  HandlerMayFail  \* a completion may throw, or die with the process

Statuses == {"PENDING_PAYMENT", "PAID", "PREPARING", "READY", "SHIPPED",
             "DELIVERED", "CANCELLED", "REFUNDED"}

PromoTerms == [kind: {"percent", "amount", "unset"}, off: Nat, minSpend: Nat,
               maxRedemptions: Nat, owner: Users \cup {None}]

ASSUME PastryAssumption ==
  /\ None \notin Users \cup Orders \cup Codes \cup Statuses
  /\ Subtotal \in [SUBSET Items -> Nat]
  /\ Minimum \in Nat
  /\ ShippingFees \subseteq Nat
  /\ Terms \in [Codes -> PromoTerms]
  /\ CreditMoves \subseteq Int
  /\ MinBalance \in Int /\ MaxBalance \in Int
  /\ MaxInFlight \in Nat
  /\ DelayedMethods \in BOOLEAN /\ HandlerMayFail \in BOOLEAN

VARIABLES
  cart,       \* PastryCartItem rows of each user
  balance,    \* SUM(CreditTransaction.amountMinor) of each user
  debit,      \* total of the REDEMPTION rows ("pastry.order", orderId)
  promo,      \* PromoCode rows
  order,      \* PastryOrder rows
  session,    \* Stripe Checkout sessions, as Stripe knows them
  event,      \* the checkout.session.completed event of each session
  stage,      \* where each call of startCheckout stands
  req,        \* what that call has read so far
  verifying,  \* reconcile calls that found the order PENDING_PAYMENT
  completing, \* completions past the "already processed" test
  admin,      \* admin calls past the transition test
  notified    \* how often dispatchPaidNotifications ran

vars == <<cart, balance, debit, promo, order, session, event, stage, req,
          verifying, completing, admin, notified>>

-----------------------------------------------------------------------------
(* Rows *)

\* Statuses with a timestamp column (paidAt, preparingAt, ...).
Stamped == Statuses \ {"PENDING_PAYMENT", "REFUNDED"}

OrderRow == [status: Statuses \cup {None}, user: Users \cup {None},
             code: Codes \cup {None}, credit: Nat, total: Nat,
             sessionId: BOOLEAN, stamps: SUBSET Stamped, creditTx: BOOLEAN]

NoRow == [status |-> None, user |-> None, code |-> None, credit |-> 0,
          total |-> 0, sessionId |-> FALSE, stamps |-> {}, creditTx |-> FALSE]

PromoRow == [used: Nat, ref: Orders \cup {None}, expired: BOOLEAN]

Session == [state: {"none", "open", "unpaid", "paid", "failed", "expired"},
            amount: Int]

Stages == {"idle", "viewing", "quoted", "created", "charged", "returned",
           "closed"}

Request == [user: Users \cup {None}, code: Codes \cup {None},
            read: SUBSET {"cart", "balance"}, lines: SUBSET Items,
            balance: Int, shipping: Nat]

NoRequest == [user |-> None, code |-> None, read |-> {}, lines |-> {},
              balance |-> 0, shipping |-> 0]

AdminCall == [order: Orders \cup {None}, next: Statuses \cup {None}]

NoCall == [order |-> None, next |-> None]

TypeOK ==
  /\ cart \in [Users -> SUBSET Items]
  /\ balance \in [Users -> Int]
  /\ debit \in [Orders -> Nat]
  /\ promo \in [Codes -> PromoRow]
  /\ order \in [Orders -> OrderRow]
  /\ session \in [Orders -> Session]
  /\ event \in [Orders -> {"none", "sent", "recorded"}]
  /\ stage \in [Orders -> Stages]
  /\ req \in [Orders -> Request]
  /\ verifying \in [Orders -> Nat]
  /\ completing \in [Orders -> Nat]
  /\ admin \in [Admins -> AdminCall]
  /\ notified \in [Orders -> Nat]

Init ==
  /\ cart = [u \in Users |-> {}]
  /\ balance = [u \in Users |-> 0]
  /\ debit = [o \in Orders |-> 0]
  /\ promo = [c \in Codes |-> [used |-> 0, ref |-> None, expired |-> FALSE]]
  /\ order = [o \in Orders |-> NoRow]
  /\ session = [o \in Orders |-> [state |-> "none", amount |-> 0]]
  /\ event = [o \in Orders |-> "none"]
  /\ stage = [o \in Orders |-> "idle"]
  /\ req = [o \in Orders |-> NoRequest]
  /\ verifying = [o \in Orders |-> 0]
  /\ completing = [o \in Orders |-> 0]
  /\ admin = [a \in Admins |-> NoCall]
  /\ notified = [o \in Orders |-> 0]

-----------------------------------------------------------------------------
(* The arithmetic of a checkout *)

Lesser(a, b) == IF a < b THEN a ELSE b
Greater(a, b) == IF a > b THEN a ELSE b

ComputeDiscount(t, subtotal) ==
  LET raw == IF t.kind = "percent" THEN (subtotal * t.off) \div 100 ELSE t.off
  IN  IF subtotal <= 0 \/ t.kind = "unset"
        THEN 0 ELSE Greater(0, Lesser(raw, subtotal))

Discount(q) ==
  IF q.code = None THEN 0 ELSE ComputeDiscount(Terms[q.code], Subtotal[q.lines])

AfterPromo(q) == Greater(0, Subtotal[q.lines] - Discount(q))

\* Mutant: a negative balance is not read as zero.
CreditUnclamped(q) ==
  Lesser(Lesser(q.balance, Subtotal[q.lines]), AfterPromo(q))

\* The balance may be negative; credit is capped by the discounted subtotal.
Credit(q) ==
  Lesser(Greater(0, Lesser(q.balance, Subtotal[q.lines])), AfterPromo(q))

GrandTotal(q) == Greater(0, AfterPromo(q) - Credit(q)) + q.shipping

\* Mutant: the coupon carries the credit alone.
CouponWithoutPromo(q) == Credit(q)

\* What Stripe charges: the line items and delivery, less the one coupon.
Coupon(q) == Credit(q) + Discount(q)
Charge(q) == Subtotal[q.lines] + q.shipping - Coupon(q)

-----------------------------------------------------------------------------
(* Promo codes *)

OwnedBy(c, u) == Terms[c].owner \in {None, u}

Previewable(c, u, subtotal) ==
  /\ ~promo[c].expired
  /\ OwnedBy(c, u)
  /\ promo[c].used < Terms[c].maxRedemptions
  /\ subtotal >= Terms[c].minSpend

\* Mutant: the code's availability was already tested by the preview.
RedeemableTrustingPreview(c, u) == OwnedBy(c, u)

\* The filter of the updateMany that claims the code.
Redeemable(c, u) ==
  /\ ~promo[c].expired
  /\ promo[c].used < Terms[c].maxRedemptions
  /\ OwnedBy(c, u)
  /\ promo[c].ref = None

Redeem(o, c) ==
  promo' = IF c = None THEN promo
           ELSE [promo EXCEPT ![c].used = @ + 1, ![c].ref = o]

ExpireCode(c) ==
  /\ ~promo[c].expired
  /\ promo' = [promo EXCEPT ![c].expired = TRUE]
  /\ UNCHANGED <<cart, balance, debit, order, session, event, stage, req,
                 verifying, completing, admin, notified>>

-----------------------------------------------------------------------------
(* The cart and the ledger, as the rest of the system changes them *)

AddLine(u, i) ==
  /\ i \notin cart[u]
  /\ cart' = [cart EXCEPT ![u] = @ \cup {i}]
  /\ UNCHANGED <<balance, debit, promo, order, session, event, stage, req,
                 verifying, completing, admin, notified>>

RemoveLine(u, i) ==
  /\ i \in cart[u]
  /\ cart' = [cart EXCEPT ![u] = @ \ {i}]
  /\ UNCHANGED <<balance, debit, promo, order, session, event, stage, req,
                 verifying, completing, admin, notified>>

\* Accruals, refunds, adjustments and expiry: rows of other sources.
MoveCredit(u, n) ==
  /\ balance[u] + n \in MinBalance .. MaxBalance
  /\ balance' = [balance EXCEPT ![u] = @ + n]
  /\ UNCHANGED <<cart, debit, promo, order, session, event, stage, req,
                 verifying, completing, admin, notified>>

-----------------------------------------------------------------------------
(* startCheckout *)

InFlight == Stages \ {"idle", "returned", "closed"}

StartCheckout(o, u, c) ==
  /\ stage[o] = "idle"
  /\ stage' = [stage EXCEPT ![o] = "viewing"]
  /\ req' = [req EXCEPT ![o].user = u, ![o].code = c]
  /\ UNCHANGED <<cart, balance, debit, promo, order, session, event,
                 verifying, completing, admin, notified>>

\* view() reads the cart and the balance in parallel, in either order.
ReadCart(o) ==
  /\ stage[o] = "viewing" /\ "cart" \notin req[o].read
  /\ req' = [req EXCEPT ![o].lines = cart[req[o].user],
                        ![o].read = @ \cup {"cart"}]
  /\ UNCHANGED <<cart, balance, debit, promo, order, session, event, stage,
                 verifying, completing, admin, notified>>

ReadBalance(o) ==
  /\ stage[o] = "viewing" /\ "balance" \notin req[o].read
  /\ req' = [req EXCEPT ![o].balance = balance[req[o].user],
                        ![o].read = @ \cup {"balance"}]
  /\ UNCHANGED <<cart, balance, debit, promo, order, session, event, stage,
                 verifying, completing, admin, notified>>

\* The guards of startCheckout, the delivery fee and the promo preview.
Quote(o, fee) ==
  /\ stage[o] = "viewing" /\ req[o].read = {"cart", "balance"}
  /\ req[o].lines # {}
  /\ Subtotal[req[o].lines] >= Minimum
  /\ req[o].code # None =>
       Previewable(req[o].code, req[o].user, Subtotal[req[o].lines])
  /\ stage' = [stage EXCEPT ![o] = "quoted"]
  /\ req' = [req EXCEPT ![o].shipping = fee]
  /\ UNCHANGED <<cart, balance, debit, promo, order, session, event,
                 verifying, completing, admin, notified>>

NewRow(o, status) ==
  [status |-> status, user |-> req[o].user, code |-> req[o].code,
   credit |-> Credit(req[o]), total |-> GrandTotal(req[o]),
   sessionId |-> FALSE,
   stamps |-> {status} \cap {"PAID"},
   creditTx |-> status = "PAID" /\ Credit(req[o]) > 0]

CanRedeem(o) == req[o].code # None => Redeemable(req[o].code, req[o].user)

\* Nothing left to charge: one transaction creates the order PAID.
CreatePaid(o) ==
  LET u == req[o].user
      credit == Credit(req[o])
  IN  /\ stage[o] = "quoted" /\ GrandTotal(req[o]) = 0
      /\ CanRedeem(o)
      /\ Redeem(o, req[o].code)
      /\ order' = [order EXCEPT ![o] = NewRow(o, "PAID")]
      /\ debit' = [debit EXCEPT ![o] = @ + credit]
      /\ balance' = [balance EXCEPT ![u] = @ - credit]
      /\ cart' = [cart EXCEPT ![u] = {}]
      /\ notified' = [notified EXCEPT ![o] = @ + 1]
      /\ stage' = [stage EXCEPT ![o] = "returned"]
      /\ UNCHANGED <<session, event, req, verifying, completing, admin>>

\* Otherwise the order is created PENDING_PAYMENT and the code claimed.
CreatePending(o) ==
  /\ stage[o] = "quoted" /\ GrandTotal(req[o]) # 0
  /\ CanRedeem(o)
  /\ Redeem(o, req[o].code)
  /\ order' = [order EXCEPT ![o] = NewRow(o, "PENDING_PAYMENT")]
  /\ stage' = [stage EXCEPT ![o] = "created"]
  /\ UNCHANGED <<cart, balance, debit, session, event, req, verifying,
                 completing, admin, notified>>

\* coupons.create and checkout.sessions.create.
CreateSession(o) ==
  /\ stage[o] = "created"
  /\ session' = [session EXCEPT ![o] = [state |-> "open",
                                        amount |-> Charge(req[o])]]
  /\ stage' = [stage EXCEPT ![o] = "charged"]
  /\ UNCHANGED <<cart, balance, debit, promo, order, event, req, verifying,
                 completing, admin, notified>>

\* Stripe refuses: the order is cancelled, whatever its status; the code
\* stays claimed.
SessionRefused(o) ==
  /\ stage[o] = "created"
  /\ order' = [order EXCEPT ![o].status = "CANCELLED"]
  /\ stage' = [stage EXCEPT ![o] = "closed"]
  /\ UNCHANGED <<cart, balance, debit, promo, session, event, req, verifying,
                 completing, admin, notified>>

\* Mutant: the Checkout URL is returned without storing the session id.
ReturnUnstamped(o) ==
  /\ stage[o] = "charged"
  /\ stage' = [stage EXCEPT ![o] = "returned"]
  /\ UNCHANGED <<cart, balance, debit, promo, order, session, event, req,
                 verifying, completing, admin, notified>>

\* Only now does the customer hold the Checkout URL.
StampSession(o) ==
  /\ stage[o] = "charged"
  /\ order' = [order EXCEPT ![o].sessionId = TRUE]
  /\ stage' = [stage EXCEPT ![o] = "returned"]
  /\ UNCHANGED <<cart, balance, debit, promo, session, event, req, verifying,
                 completing, admin, notified>>

\* A rejected guard, a rolled back transaction, a failed coupon, a missing
\* URL, a failed write or the death of the process: the call ends where it
\* stands and what it committed stays.
CheckoutEnds(o) ==
  /\ stage[o] \in InFlight
  /\ stage' = [stage EXCEPT ![o] = "closed"]
  /\ UNCHANGED <<cart, balance, debit, promo, order, session, event, req,
                 verifying, completing, admin, notified>>

-----------------------------------------------------------------------------
(* Stripe: the customer at the Checkout page *)

\* Stripe emits checkout.session.completed when the customer submits,
\* whether or not the money has arrived.
Submit(o, state) ==
  /\ stage[o] = "returned" /\ session[o].state = "open"
  /\ state = "unpaid" => DelayedMethods
  /\ session' = [session EXCEPT ![o].state = state]
  /\ event' = [event EXCEPT ![o] = "sent"]
  /\ UNCHANGED <<cart, balance, debit, promo, order, stage, req, verifying,
                 completing, admin, notified>>

\* async_payment_succeeded / _failed: no handler of this module sees them.
DelayedResult(o, state) ==
  /\ session[o].state = "unpaid"
  /\ session' = [session EXCEPT ![o].state = state]
  /\ UNCHANGED <<cart, balance, debit, promo, order, event, stage, req,
                 verifying, completing, admin, notified>>

SessionExpires(o) ==
  /\ session[o].state = "open"
  /\ session' = [session EXCEPT ![o].state = "expired"]
  /\ UNCHANGED <<cart, balance, debit, promo, order, event, stage, req,
                 verifying, completing, admin, notified>>

-----------------------------------------------------------------------------
(* onCheckoutCompleted, from the webhook and from reconcileFromSession *)

\* Mutant: the guard of reconcileFromSession, used for every completion.
AlreadyLeftPending(s) == s # "PENDING_PAYMENT"

\* The test on the status read before the transaction.
AlreadyProcessed(s) == s \in {"PAID", "PREPARING"}

\* The webhook records the event id first, then dispatches: a redelivery of
\* a recorded event is answered 200 and does nothing.
WebhookReceive(o) ==
  /\ event[o] = "sent"
  /\ event' = [event EXCEPT ![o] = "recorded"]
  /\ completing' = IF AlreadyProcessed(order[o].status) THEN completing
                   ELSE [completing EXCEPT ![o] = @ + 1]
  /\ UNCHANGED <<cart, balance, debit, promo, order, session, stage, req,
                 verifying, admin, notified>>

\* The success page of order o presents the id of a session it was given,
\* that of order s: an order not yet stamped accepts any.
ReconcileRead(o, s) ==
  /\ order[o].status = "PENDING_PAYMENT"
  /\ stage[s] = "returned" /\ session[s].state # "none"
  /\ order[o].sessionId => o = s
  /\ verifying[s] + completing[s] < MaxInFlight
  /\ verifying' = [verifying EXCEPT ![s] = @ + 1]
  /\ UNCHANGED <<cart, balance, debit, promo, order, session, event, stage,
                 req, completing, admin, notified>>

\* Mutant: a session that exists is taken for paid.
SessionExists(o) == session[o].state # "none"

SessionConfirmed(o) == session[o].state = "paid"

\* sessions.retrieve, then the completion handler's own read of the order
\* named in the session's metadata.
ReconcileVerify(o) ==
  /\ verifying[o] > 0
  /\ verifying' = [verifying EXCEPT ![o] = @ - 1]
  /\ completing' = IF SessionConfirmed(o) /\ ~AlreadyProcessed(order[o].status)
                   THEN [completing EXCEPT ![o] = @ + 1] ELSE completing
  /\ UNCHANGED <<cart, balance, debit, promo, order, session, event, stage,
                 req, admin, notified>>

ReconcileFails(o) ==
  /\ verifying[o] > 0
  /\ verifying' = [verifying EXCEPT ![o] = @ - 1]
  /\ UNCHANGED <<cart, balance, debit, promo, order, session, event, stage,
                 req, completing, admin, notified>>

\* Mutant: the REDEMPTION row is written without looking for an earlier one.
DueDebitUnchecked(o) == order[o].credit

\* At most one REDEMPTION row for (userId, "pastry.order", orderId).
DueDebit(o) == IF debit[o] = 0 THEN order[o].credit ELSE 0

CompleteTx(o) ==
  LET u == order[o].user
      due == DueDebit(o)
  IN  /\ completing[o] > 0
      /\ completing' = [completing EXCEPT ![o] = @ - 1]
      /\ order' = [order EXCEPT ![o].status = "PAID",
                                ![o].stamps = @ \cup {"PAID"},
                                ![o].creditTx = @ \/ due > 0]
      /\ debit' = [debit EXCEPT ![o] = @ + due]
      /\ balance' = [balance EXCEPT ![u] = @ - due]
      /\ cart' = [cart EXCEPT ![u] = {}]
      /\ notified' = [notified EXCEPT ![o] = @ + 1]
      /\ UNCHANGED <<promo, session, event, stage, req, verifying, admin>>

\* The transaction rolls back, or the process dies before it commits.
CompletionFails(o) ==
  /\ HandlerMayFail
  /\ completing[o] > 0
  /\ completing' = [completing EXCEPT ![o] = @ - 1]
  /\ UNCHANGED <<cart, balance, debit, promo, order, session, event, stage,
                 req, verifying, admin, notified>>

-----------------------------------------------------------------------------
(* adminUpdateStatus: the status is read and tested, then written *)

\* Mutant: the kitchen may skip a step.
TransitionsSkippingReady(s) ==
  CASE s = "PENDING_PAYMENT" -> {"CANCELLED"}
    [] s = "PAID" -> {"PREPARING", "CANCELLED", "REFUNDED"}
    [] s = "PREPARING" -> {"READY", "SHIPPED", "CANCELLED", "REFUNDED"}
    [] s = "READY" -> {"SHIPPED", "DELIVERED", "CANCELLED", "REFUNDED"}
    [] s = "SHIPPED" -> {"DELIVERED", "REFUNDED"}
    [] s = "DELIVERED" -> {"REFUNDED"}
    [] OTHER -> {}

AllowedTransitions(s) ==
  CASE s = "PENDING_PAYMENT" -> {"CANCELLED"}
    [] s = "PAID" -> {"PREPARING", "CANCELLED", "REFUNDED"}
    [] s = "PREPARING" -> {"READY", "CANCELLED", "REFUNDED"}
    [] s = "READY" -> {"SHIPPED", "DELIVERED", "CANCELLED", "REFUNDED"}
    [] s = "SHIPPED" -> {"DELIVERED", "REFUNDED"}
    [] s = "DELIVERED" -> {"REFUNDED"}
    [] OTHER -> {}

AdminRead(a, o, next) ==
  /\ admin[a] = NoCall
  /\ next \in AllowedTransitions(order[o].status)
  /\ admin' = [admin EXCEPT ![a] = [order |-> o, next |-> next]]
  /\ UNCHANGED <<cart, balance, debit, promo, order, session, event, stage,
                 req, verifying, completing, notified>>

AdminWrite(a) ==
  LET o == admin[a].order
      next == admin[a].next
  IN  /\ admin[a] # NoCall
      /\ order' = [order EXCEPT ![o].status = next,
                                ![o].stamps = @ \cup ({next} \cap Stamped)]
      /\ admin' = [admin EXCEPT ![a] = NoCall]
      /\ UNCHANGED <<cart, balance, debit, promo, session, event, stage, req,
                     verifying, completing, notified>>

-----------------------------------------------------------------------------
Checkout(o) ==
  \/ \E u \in Users, c \in Codes \cup {None} : StartCheckout(o, u, c)
  \/ ReadCart(o)
  \/ ReadBalance(o)
  \/ \E fee \in ShippingFees : Quote(o, fee)
  \/ CreatePaid(o)
  \/ CreatePending(o)
  \/ CreateSession(o)
  \/ SessionRefused(o)
  \/ StampSession(o)
  \/ CheckoutEnds(o)

Stripe(o) ==
  \/ \E s \in {"paid", "unpaid"} : Submit(o, s)
  \/ \E s \in {"paid", "failed"} : DelayedResult(o, s)
  \/ SessionExpires(o)

Completion(o) ==
  \/ WebhookReceive(o)
  \/ \E page \in Orders : ReconcileRead(page, o)
  \/ ReconcileVerify(o)
  \/ ReconcileFails(o)
  \/ CompleteTx(o)
  \/ CompletionFails(o)

Surroundings ==
  \/ \E u \in Users, i \in Items : AddLine(u, i) \/ RemoveLine(u, i)
  \/ \E u \in Users, n \in CreditMoves : MoveCredit(u, n)
  \/ \E c \in Codes : ExpireCode(c)

Next ==
  \/ \E o \in Orders : Checkout(o) \/ Stripe(o) \/ Completion(o)
  \/ \E a \in Admins :
       \/ AdminWrite(a)
       \/ \E o \in Orders, s \in Statuses : AdminRead(a, o, s)
  \/ Surroundings

Spec == Init /\ [][Next]_vars

\* Stripe delivers the event, and a completion that started runs on.
FairSpec ==
  /\ Spec
  /\ \A o \in Orders : WF_vars(WebhookReceive(o)) /\ WF_vars(CompleteTx(o))

-----------------------------------------------------------------------------
(* Properties *)

Exists(o) == order[o].status # None
Settled(o) == "PAID" \in order[o].stamps

(***************************************************************************)
(* A promo code and the order it was spent on name each other.  Two        *)
(* checkouts quoting the same code at the same time never both get it      *)
(* (the guarded updateMany of redeem), and a claim exists only with the    *)
(* order row created in the same transaction.                              *)
(***************************************************************************)
PromoBinding ==
  /\ \A o \in Orders : order[o].code # None => promo[order[o].code].ref = o
  /\ \A c \in Codes : promo[c].ref # None => order[promo[c].ref].code = c
  /\ \A c \in Codes : promo[c].used = IF promo[c].ref = None THEN 0 ELSE 1

(***************************************************************************)
(* The credit of an order is debited exactly when the order is first paid, *)
(* once, in full, and the order names the ledger row; however many times   *)
(* the webhook, the reconcile call and the administrators race.            *)
(***************************************************************************)
DebitedOnceWhenSettled ==
  \A o \in Orders :
    /\ debit[o] = IF Settled(o) THEN order[o].credit ELSE 0
    /\ order[o].creditTx <=> debit[o] > 0

(***************************************************************************)
(* The order timeline has no gaps: a shipped order was ready, a ready one  *)
(* was prepared, a prepared one was paid, although the admin endpoint      *)
(* writes on the strength of a status it read earlier.                     *)
(***************************************************************************)
TimelineComplete ==
  \A o \in Orders : LET at == order[o].stamps IN
    /\ "SHIPPED" \in at => "READY" \in at
    /\ "DELIVERED" \in at => "READY" \in at
    /\ "READY" \in at => "PREPARING" \in at
    /\ "PREPARING" \in at => "PAID" \in at

(***************************************************************************)
(* What Stripe charges, built from line items and one coupon, is the       *)
(* totalMinor of the order, built from the discounted subtotal.            *)
(***************************************************************************)
ChargeMatchesTotal ==
  \A o \in Orders : session[o].state # "none" =>
    session[o].amount = order[o].total /\ order[o].total > 0

(***************************************************************************)
(* No order is paid without the money: its total is zero or its Stripe     *)
(* session is paid.  The one exception is the webhook's: it completes an   *)
(* order on checkout.session.completed, which a method that settles late   *)
(* sends before its result, and the result may be a failure.  The success  *)
(* page, a replay, another order's session and an administrator never pay  *)
(* an order that no event was recorded for.                                *)
(***************************************************************************)
SubmittedUnpaid(o) ==
  DelayedMethods /\ event[o] = "recorded" /\ session[o].state \in {"unpaid", "failed"}

PaidIsFunded ==
  \A o \in Orders : Settled(o) =>
    order[o].total = 0 \/ session[o].state = "paid" \/ SubmittedUnpaid(o)

(***************************************************************************)
(* Whoever submits a Checkout page has an order row to attach the event    *)
(* to, and the row carries the session id, although row, session and stamp *)
(* are three writes with two calls to Stripe between them.                 *)
(***************************************************************************)
RowBeforeRedirect ==
  \A o \in Orders : event[o] # "none" => order[o].sessionId /\ Exists(o)

(***************************************************************************)
(* A balance that nothing else takes from falls below zero only by two     *)
(* orders of the customer that were both quoted what it was, never by one, *)
(* however often its completion runs and however old the balance it read   *)
(* (creditAppliedMinor, quoted by view() and debited by the completion).   *)
(***************************************************************************)
OverdrawnByTwo ==
  CreditMoves \subseteq Nat =>
    \A u \in Users : balance[u] < 0 =>
      \E o1, o2 \in Orders :
        /\ o1 # o2 /\ order[o1].user = u /\ order[o2].user = u
        /\ debit[o1] > 0 /\ debit[o2] > 0

(***************************************************************************)
(* A paid session eventually makes its order paid, by the webhook alone.   *)
(***************************************************************************)
PaidIsSettled == \A o \in Orders : session[o].state = "paid" ~> Settled(o)

(***************************************************************************)
(* Checkout keeps the promise of Settlement: the races of webhook,         *)
(* reconcile, administrators and failing calls never place an order twice, *)
(* move a claimed code or debit other than once, with the first payment.   *)
(***************************************************************************)
Promise == INSTANCE Settlement WITH
  placed <- {o \in Orders : Exists(o)},
  settled <- {o \in Orders : Settled(o)},
  claim <- [c \in Codes |-> promo[c].ref],
  promised <- [o \in Orders |-> order[o].credit],
  debited <- debit

PromiseKept == Promise!Spec

-----------------------------------------------------------------------------
(* The inductive invariant: the safety properties and what they rest on *)

\* A call that has begun knows its customer, and so does its order.
CallHasUser ==
  \A o \in Orders :
    /\ stage[o] # "idle" => req[o].user \in Users
    /\ Exists(o) => stage[o] # "idle" /\ order[o].user = req[o].user

\* The row a call has created is the one it quoted.
RowFollowsStage ==
  \A o \in Orders :
    /\ stage[o] \in {"idle", "viewing", "quoted"} => order[o] = NoRow
    /\ stage[o] \in {"created", "charged", "returned"} => Exists(o)
    /\ stage[o] = "created" => order[o].total = GrandTotal(req[o])
                              /\ order[o].total > 0 /\ ~Settled(o)
    /\ ~Exists(o) => order[o] = NoRow /\ stage[o] # "returned"

\* Money and completions appear only after the session exists and the
\* customer holds its URL.
PaymentFollowsSession ==
  \A o \in Orders :
    /\ session[o].state # "none" => stage[o] \in {"charged", "returned", "closed"}
                                   /\ Exists(o)
    /\ stage[o] = "charged" => session[o].state # "none"
    /\ order[o].sessionId => session[o].state # "none"
    /\ session[o].state \notin {"none", "open", "expired"} => event[o] # "none"
    /\ event[o] # "none" => session[o].state \in {"paid", "unpaid", "failed"}
    /\ event[o] # "none" /\ ~DelayedMethods => session[o].state = "paid"
    /\ completing[o] > 0 => session[o].state = "paid" \/ event[o] = "recorded"
    /\ stage[o] = "returned" => order[o].sessionId \/ order[o].total = 0
    /\ stage[o] # "returned" => event[o] = "none"

\* A status, or an admin call that saw one, has its timestamps behind it.
Behind(s) == CASE s \in {"PAID", "PREPARING"} -> {"PAID"}
               [] s = "READY" -> {"PREPARING"}
               [] s \in {"SHIPPED", "DELIVERED"} -> {"READY"}
               [] OTHER -> {}

StatusHasTimeline ==
  /\ \A o \in Orders : order[o].status \in Stamped \ {"CANCELLED"} =>
       order[o].status \in order[o].stamps
  /\ \A a \in Admins : admin[a] # NoCall =>
       /\ admin[a].order \in Orders /\ admin[a].next \in Statuses \ {"PENDING_PAYMENT", "PAID"}
       /\ Behind(admin[a].next) \subseteq order[admin[a].order].stamps
       /\ Exists(admin[a].order)

IInv ==
  /\ TypeOK
  /\ CallHasUser
  /\ RowFollowsStage
  /\ PaymentFollowsSession
  /\ StatusHasTimeline
  /\ PromoBinding
  /\ DebitedOnceWhenSettled
  /\ TimelineComplete
  /\ ChargeMatchesTotal
  /\ RowBeforeRedirect
  /\ PaidIsFunded

-----------------------------------------------------------------------------
(* What the code's comments promise and its steps do not keep *)

(***************************************************************************)
(* The paid notifications go out at most once ("never twice, even if the   *)
(* webhook lands later", reconcile endpoint).                              *)
(***************************************************************************)
NotifiedAtMostOnce == \A o \in Orders : notified[o] <= 1

(***************************************************************************)
(* A completion leaves the status of an order that was paid before alone   *)
(* ("Idempotent - if the order is already PAID we no-op",                  *)
(* onCheckoutCompleted).                                                   *)
(***************************************************************************)
CompletionIsIdempotent ==
  [][\A o \in Orders : notified'[o] > notified[o] /\ Settled(o) =>
       order'[o].status = order[o].status]_vars

(***************************************************************************)
(* An administrator's write is an allowed transition from the status it    *)
(* replaces ("Forward-only; we never let admins reverse a status",         *)
(* ALLOWED_TRANSITIONS), or leaves it as it is.                            *)
(***************************************************************************)
AdminsGoForward ==
  [][\A a \in Admins : admin[a] # NoCall /\ admin'[a] = NoCall =>
       LET old == order[admin[a].order].status
           new == order'[admin[a].order].status
       IN  new \in AllowedTransitions(old) \cup {old}]_vars

(***************************************************************************)
(* Paying for an order removes from the cart what was paid for ("Clear the *)
(* cart of the items we just paid for", onCheckoutCompleted).              *)
(***************************************************************************)
ClearsOnlyPaidLines ==
  [][\A o \in Orders : notified'[o] > notified[o] =>
       cart[req[o].user] \ cart'[req[o].user] \subseteq req[o].lines]_vars

(***************************************************************************)
(* Credit is debited only against a confirmed payment (the model's comment *)
(* on PastryOrder: "a credit is never debited without a confirmed          *)
(* payment").                                                              *)
(***************************************************************************)
DebitIsConfirmed ==
  \A o \in Orders : debit[o] > 0 => order[o].total = 0 \/ session[o].state = "paid"

(***************************************************************************)
(* An order whose session expired unpaid does not stay PENDING_PAYMENT,    *)
(* where it holds its promo code and its units of the day ("a separate     *)
(* auto-cancel job clears the row", BATCH_OCCUPYING_STATUSES).             *)
(***************************************************************************)
AbandonedIsCleared ==
  \A o \in Orders :
    session[o].state = "expired" ~> order[o].status # "PENDING_PAYMENT"

(***************************************************************************)
(* A code of its owner that has not expired can be redeemed until its cap  *)
(* ("Per-code redemption cap", PromoCode.maxRedemptions).                  *)
(***************************************************************************)
RedeemableUpToCap ==
  \A c \in Codes, u \in Users :
    /\ ~promo[c].expired /\ OwnedBy(c, u)
    /\ promo[c].used < Terms[c].maxRedemptions
    => Redeemable(c, u)

(***************************************************************************)
(* An administrator can cancel any order that is not at the end of its     *)
(* life ("allowed from any non-terminal state", ALLOWED_TRANSITIONS).      *)
(***************************************************************************)
CancellableUnlessTerminal ==
  \A o \in Orders :
    Exists(o) /\ order[o].status \notin {"DELIVERED", "CANCELLED", "REFUNDED"}
      => "CANCELLED" \in AllowedTransitions(order[o].status)
=============================================================================
