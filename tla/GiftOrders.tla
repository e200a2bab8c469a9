----------------------------- MODULE GiftOrders -----------------------------
(***************************************************************************)
(* Gift orders: checkout, the Stripe events that settle, cancel or refund  *)
(* an order, the reconcile endpoint of the success page and the admin      *)
(* transitions, running concurrently.  Unlike PastryOrders the completion  *)
(* looks at the payment status, waits for the asynchronous result of a     *)
(* delayed method, and is a read followed by an unconditional write.       *)
(***************************************************************************)
EXTENDS Naturals

CONSTANTS
  Orders,         \* order ids; each is also one call of createCheckoutSession
  Admins,         \* concurrent calls of adminUpdateOrder
  None,           \* no order, no status
  MaxInFlight,    \* bound on simultaneous completions of one order
  DelayedMethods, \* Stripe account accepts methods that settle days later
  HandlerMayFail  \* a handler may throw, or die with the process

Statuses == {"PENDING_PAYMENT", "AWAITING_DESIGN_APPROVAL", "DESIGN_SENT",
             "IN_PRODUCTION", "SHIPPED", "DELIVERED", "CANCELLED", "REFUNDED"}

ASSUME GiftAssumption ==
  /\ None \notin Orders \cup Statuses
  /\ MaxInFlight \in Nat
  /\ DelayedMethods \in BOOLEAN /\ HandlerMayFail \in BOOLEAN

VARIABLES
  order,      \* GiftOrder rows
  stage,      \* where each call of createCheckoutSession stands
  session,    \* Stripe Checkout sessions and their charges
  event,      \* the Stripe events of each order
  verifying,  \* reconcile calls that found the order PENDING_PAYMENT
  completing, \* completions that found it so, paid, and will write
  admin,      \* admin calls past assertLegalTransition
  notified,   \* how often dispatchPaidNotifications ran
  failed      \* orders of which a handler or a completion failed (ghost)

vars == <<order, stage, session, event, verifying, completing, admin, notified,
          failed>>

-----------------------------------------------------------------------------
(* Rows *)

Stamps == {"paidAt", "approvedAt", "shippedAt", "deliveredAt"}

OrderRow == [status: Statuses \cup {None}, stamps: SUBSET Stamps,
             intent: BOOLEAN, sessionId: BOOLEAN]

NoRow == [status |-> None, stamps |-> {}, intent |-> FALSE, sessionId |-> FALSE]

Session == [state: {"none", "open", "unpaid", "paid", "failed", "expired"},
            refunded: BOOLEAN]

\* checkout.session.completed, with the payment status it carries;
\* async_payment_succeeded and _failed; charge.refunded.
EventTypes == {"completed_paid", "completed_unpaid", "succeeded", "failed",
               "refunded"}

NoCall == [order |-> None, next |-> None]
AdminCall == [order: Orders, next: Statuses] \cup {NoCall}

TypeOK ==
  /\ order \in [Orders -> OrderRow]
  /\ stage \in [Orders -> {"idle", "created", "charged", "returned", "closed"}]
  /\ session \in [Orders -> Session]
  /\ event \in [Orders -> [EventTypes -> {"none", "sent", "recorded"}]]
  /\ verifying \in [Orders -> Nat]
  /\ completing \in [Orders -> Nat]
  /\ admin \in [Admins -> AdminCall]
  /\ notified \in [Orders -> Nat]
  /\ failed \subseteq Orders

Init ==
  /\ order = [o \in Orders |-> NoRow]
  /\ stage = [o \in Orders |-> "idle"]
  /\ session = [o \in Orders |-> [state |-> "none", refunded |-> FALSE]]
  /\ event = [o \in Orders |-> [e \in EventTypes |-> "none"]]
  /\ verifying = [o \in Orders |-> 0]
  /\ completing = [o \in Orders |-> 0]
  /\ admin = [a \in Admins |-> NoCall]
  /\ notified = [o \in Orders |-> 0]
  /\ failed = {}

-----------------------------------------------------------------------------
(* createCheckoutSession *)

CreateOrder(o) ==
  /\ stage[o] = "idle"
  /\ stage' = [stage EXCEPT ![o] = "created"]
  /\ order' = [order EXCEPT ![o].status = "PENDING_PAYMENT"]
  /\ UNCHANGED <<session, event, verifying, completing, admin, notified, failed>>

CreateSession(o) ==
  /\ stage[o] = "created"
  /\ stage' = [stage EXCEPT ![o] = "charged"]
  /\ session' = [session EXCEPT ![o].state = "open"]
  /\ UNCHANGED <<order, event, verifying, completing, admin, notified, failed>>

StampSession(o) ==
  /\ stage[o] = "charged"
  /\ stage' = [stage EXCEPT ![o] = "returned"]
  /\ order' = [order EXCEPT ![o].sessionId = TRUE]
  /\ UNCHANGED <<session, event, verifying, completing, admin, notified, failed>>

\* A call to Stripe or a write fails; the row stays PENDING_PAYMENT.
CheckoutEnds(o) ==
  /\ stage[o] \in {"created", "charged"}
  /\ stage' = [stage EXCEPT ![o] = "closed"]
  /\ UNCHANGED <<order, session, event, verifying, completing, admin, notified, failed>>

-----------------------------------------------------------------------------
(* Stripe *)

Emit(o, e) == event' = [event EXCEPT ![o][e] = "sent"]

Submit(o, state) ==
  /\ stage[o] = "returned" /\ session[o].state = "open"
  /\ state = "unpaid" => DelayedMethods
  /\ session' = [session EXCEPT ![o].state = state]
  /\ Emit(o, IF state = "paid" THEN "completed_paid" ELSE "completed_unpaid")
  /\ UNCHANGED <<order, stage, verifying, completing, admin, notified, failed>>

DelayedResult(o, state) ==
  /\ session[o].state = "unpaid"
  /\ session' = [session EXCEPT ![o].state = state]
  /\ Emit(o, IF state = "paid" THEN "succeeded" ELSE "failed")
  /\ UNCHANGED <<order, stage, verifying, completing, admin, notified, failed>>

SessionExpires(o) ==
  /\ session[o].state = "open"
  /\ session' = [session EXCEPT ![o].state = "expired"]
  /\ UNCHANGED <<order, stage, event, verifying, completing, admin, notified, failed>>

\* An operator refunds the charge in the Stripe dashboard.
RefundCharge(o) ==
  /\ session[o].state = "paid" /\ ~session[o].refunded
  /\ session' = [session EXCEPT ![o].refunded = TRUE]
  /\ Emit(o, "refunded")
  /\ UNCHANGED <<order, stage, verifying, completing, admin, notified, failed>>

-----------------------------------------------------------------------------
(* Webhook handlers.  Events arrive in any order; the id of each is         *)
(* recorded first, so a redelivery does nothing.                            *)

Pending(o) == order[o].status = "PENDING_PAYMENT"

Received(o, e) ==
  /\ event[o][e] = "sent"
  /\ event' = [event EXCEPT ![o][e] = "recorded"]

\* Moves the order on: the write of a completion, and the guarded update of
\* an asynchronous success.
MarkPaid(o) ==
  /\ order' = [order EXCEPT ![o].status = "AWAITING_DESIGN_APPROVAL",
                            ![o].stamps = @ \cup {"paidAt"}, ![o].intent = TRUE]
  /\ notified' = [notified EXCEPT ![o] = @ + 1]

\* onCheckoutSessionCompleted up to its write.
ReceiveCompleted(o) ==
  /\ Received(o, "completed_paid")
  /\ completing' = IF Pending(o) THEN [completing EXCEPT ![o] = @ + 1] ELSE completing
  /\ UNCHANGED <<order, stage, session, verifying, admin, notified, failed>>

\* Mutant: the payment status of the session is not looked at.
ReceiveUnpaidAsPaid(o) ==
  /\ Received(o, "completed_unpaid")
  /\ completing' = IF Pending(o) THEN [completing EXCEPT ![o] = @ + 1] ELSE completing
  /\ UNCHANGED <<order, stage, session, verifying, admin, notified, failed>>

\* Completed but not paid: wait for the asynchronous result.
ReceiveUnpaid(o) ==
  /\ Received(o, "completed_unpaid")
  /\ UNCHANGED <<order, stage, session, verifying, completing, admin, notified, failed>>

CompletionWrite(o) ==
  /\ completing[o] > 0
  /\ completing' = [completing EXCEPT ![o] = @ - 1]
  /\ MarkPaid(o)
  /\ UNCHANGED <<stage, session, event, verifying, admin, failed>>

CompletionFails(o) ==
  /\ HandlerMayFail /\ completing[o] > 0
  /\ completing' = [completing EXCEPT ![o] = @ - 1]
  /\ failed' = failed \cup {o}
  /\ UNCHANGED <<order, stage, session, event, verifying, admin, notified>>

\* Mutant: only the failure of a delayed payment is handled.
IgnoreSucceeded(o) ==
  /\ Received(o, "succeeded")
  /\ UNCHANGED <<order, stage, session, verifying, completing, admin, notified, failed>>

\* onCheckoutSessionAsyncResult: one guarded update each.
ReceiveSucceeded(o) ==
  /\ Received(o, "succeeded")
  /\ IF Pending(o) THEN MarkPaid(o) ELSE UNCHANGED <<order, notified>>
  /\ UNCHANGED <<stage, session, verifying, completing, admin, failed>>

\* Mutant: a failed payment leaves the order as it is.
IgnoreFailed(o) ==
  /\ Received(o, "failed")
  /\ UNCHANGED <<order, stage, session, verifying, completing, admin, notified, failed>>

ReceiveFailed(o) ==
  /\ Received(o, "failed")
  /\ order' = IF Pending(o) THEN [order EXCEPT ![o].status = "CANCELLED"] ELSE order
  /\ UNCHANGED <<stage, session, verifying, completing, admin, notified, failed>>

\* onChargeRefunded finds the order by its payment intent.
ReceiveRefunded(o) ==
  /\ Received(o, "refunded")
  /\ order' = IF order[o].intent THEN [order EXCEPT ![o].status = "REFUNDED"] ELSE order
  /\ UNCHANGED <<stage, session, verifying, completing, admin, notified, failed>>

\* The handler fails once the event id is recorded: Stripe's retry is a
\* duplicate.
EventLost(o, e) ==
  /\ HandlerMayFail
  /\ Received(o, e)
  /\ failed' = failed \cup {o}
  /\ UNCHANGED <<order, stage, session, verifying, completing, admin, notified>>

-----------------------------------------------------------------------------
(* reconcileFromSession *)

\* The success page of an order presents the id of a session; an order not
\* yet stamped accepts any.
ReconcileRead(page, o) ==
  /\ Pending(page)
  /\ order[page].sessionId => page = o
  /\ stage[o] = "returned"
  /\ verifying[o] + completing[o] < MaxInFlight
  /\ verifying' = [verifying EXCEPT ![o] = @ + 1]
  /\ UNCHANGED <<order, stage, session, event, completing, admin, notified, failed>>

\* sessions.retrieve, then onCheckoutSessionCompleted up to its write.
ReconcileVerify(o) ==
  /\ verifying[o] > 0
  /\ verifying' = [verifying EXCEPT ![o] = @ - 1]
  /\ completing' = IF session[o].state = "paid" /\ Pending(o)
                   THEN [completing EXCEPT ![o] = @ + 1] ELSE completing
  /\ UNCHANGED <<order, stage, session, event, admin, notified, failed>>

ReconcileFails(o) ==
  /\ verifying[o] > 0
  /\ verifying' = [verifying EXCEPT ![o] = @ - 1]
  /\ UNCHANGED <<order, stage, session, event, completing, admin, notified, failed>>

-----------------------------------------------------------------------------
(* adminUpdateOrder: the status is read and tested, then written *)

\* Mutant: production may start before the design was approved.
LegalSkippingApproval(s) ==
  CASE s = "PENDING_PAYMENT" -> {"AWAITING_DESIGN_APPROVAL", "CANCELLED"}
    [] s = "AWAITING_DESIGN_APPROVAL" -> {"DESIGN_SENT", "SHIPPED", "CANCELLED", "REFUNDED"}
    [] s = "DESIGN_SENT" -> {"IN_PRODUCTION", "AWAITING_DESIGN_APPROVAL",
                             "CANCELLED", "REFUNDED"}
    [] s = "IN_PRODUCTION" -> {"SHIPPED", "CANCELLED", "REFUNDED"}
    [] s = "SHIPPED" -> {"DELIVERED", "REFUNDED"}
    [] s = "DELIVERED" -> {"REFUNDED"}
    [] OTHER -> {}

Legal(s) ==
  CASE s = "PENDING_PAYMENT" -> {"AWAITING_DESIGN_APPROVAL", "CANCELLED"}
    [] s = "AWAITING_DESIGN_APPROVAL" -> {"DESIGN_SENT", "CANCELLED", "REFUNDED"}
    [] s = "DESIGN_SENT" -> {"IN_PRODUCTION", "AWAITING_DESIGN_APPROVAL",
                             "CANCELLED", "REFUNDED"}
    [] s = "IN_PRODUCTION" -> {"SHIPPED", "CANCELLED", "REFUNDED"}
    [] s = "SHIPPED" -> {"DELIVERED", "REFUNDED"}
    [] s = "DELIVERED" -> {"REFUNDED"}
    [] OTHER -> {}

StampOf(s) == CASE s = "IN_PRODUCTION" -> {"approvedAt"}
                [] s = "SHIPPED" -> {"shippedAt"}
                [] s = "DELIVERED" -> {"deliveredAt"}
                [] OTHER -> {}

AdminRead(a, o, next) ==
  /\ admin[a] = NoCall
  /\ next \in Legal(order[o].status)
  /\ admin' = [admin EXCEPT ![a] = [order |-> o, next |-> next]]
  /\ UNCHANGED <<order, stage, session, event, verifying, completing, notified, failed>>

AdminWrite(a) ==
  LET o == admin[a].order
      next == admin[a].next
  IN  /\ admin[a] # NoCall
      /\ order' = [order EXCEPT ![o].status = next,
                                ![o].stamps = @ \cup StampOf(next)]
      /\ admin' = [admin EXCEPT ![a] = NoCall]
      /\ UNCHANGED <<stage, session, event, verifying, completing, notified, failed>>

-----------------------------------------------------------------------------
Checkout(o) == CreateOrder(o) \/ CreateSession(o) \/ StampSession(o) \/ CheckoutEnds(o)

Stripe(o) ==
  \/ \E s \in {"paid", "unpaid"} : Submit(o, s)
  \/ \E s \in {"paid", "failed"} : DelayedResult(o, s)
  \/ SessionExpires(o)
  \/ RefundCharge(o)

Webhook(o) ==
  \/ ReceiveCompleted(o)
  \/ ReceiveUnpaid(o)
  \/ ReceiveSucceeded(o)
  \/ ReceiveFailed(o)
  \/ ReceiveRefunded(o)
  \/ \E e \in EventTypes : EventLost(o, e)
  \/ CompletionWrite(o)
  \/ CompletionFails(o)

Reconcile(o) ==
  \/ \E page \in Orders : ReconcileRead(page, o)
  \/ ReconcileVerify(o)
  \/ ReconcileFails(o)

Next ==
  \/ \E o \in Orders : Checkout(o) \/ Stripe(o) \/ Webhook(o) \/ Reconcile(o)
  \/ \E a \in Admins :
       \/ AdminWrite(a)
       \/ \E o \in Orders, s \in Statuses : AdminRead(a, o, s)

Spec == Init /\ [][Next]_vars

\* Stripe delivers its events, and a completion that started runs on.
FairSpec ==
  /\ Spec
  /\ \A o \in Orders :
       /\ WF_vars(ReceiveCompleted(o)) /\ WF_vars(ReceiveSucceeded(o))
       /\ WF_vars(ReceiveFailed(o)) /\ WF_vars(CompletionWrite(o))

-----------------------------------------------------------------------------
(* Properties *)

(***************************************************************************)
(* An order is stamped paid only when its session is paid, also when the   *)
(* session completes days before its money arrives, when the events come   *)
(* in another order, and when the reconcile call races with them.          *)
(***************************************************************************)
PaidStampIsFunded ==
  \A o \in Orders : "paidAt" \in order[o].stamps => session[o].state = "paid"

(***************************************************************************)
(* Nothing is shipped before its design was approved, nothing delivered    *)
(* before it was shipped, however administrators, completions and refunds  *)
(* overwrite each other's status.                                          *)
(***************************************************************************)
ApprovedBeforeShipped ==
  \A o \in Orders : LET at == order[o].stamps IN
    /\ "shippedAt" \in at => "approvedAt" \in at
    /\ "deliveredAt" \in at => "shippedAt" \in at

(***************************************************************************)
(* An order whose payment succeeded or failed leaves PENDING_PAYMENT,      *)
(* whether Stripe said so at once or days later, and whichever of its      *)
(* events comes first, unless a handler of this very order failed.         *)
(***************************************************************************)
OutcomeLeavesPending ==
  \A o \in Orders :
    session[o].state \in {"paid", "failed"} ~> \/ order[o].status # "PENDING_PAYMENT"
                                             \/ o \in failed

-----------------------------------------------------------------------------
(* The inductive invariant: what the safety properties rest on *)

\* Whoever will write paidAt has seen a session that is, and stays, paid.
PaymentIsKnown ==
  \A o \in Orders :
    /\ stage[o] \in {"idle", "created"} => session[o].state = "none"
    /\ \/ completing[o] > 0
       \/ event[o]["completed_paid"] # "none"
       \/ event[o]["succeeded"] # "none"
       => session[o].state = "paid"

\* The timestamp a status was reached with, and the one behind it.
Behind(s) == CASE s = "SHIPPED" -> {"approvedAt"}
               [] s = "DELIVERED" -> {"shippedAt"}
               [] OTHER -> {}

StatusIsStamped ==
  /\ \A o \in Orders : StampOf(order[o].status) \subseteq order[o].stamps
  /\ \A a \in Admins : admin[a] # NoCall =>
       Behind(admin[a].next) \subseteq order[admin[a].order].stamps

IInv ==
  /\ TypeOK
  /\ PaymentIsKnown
  /\ PaidStampIsFunded
  /\ StatusIsStamped
  /\ ApprovedBeforeShipped

-----------------------------------------------------------------------------
(* What the code's comments promise and its steps do not keep *)

(***************************************************************************)
(* The paid notifications go out at most once ("a race between webhook +   *)
(* reconcile cannot double-dispatch emails or notifications",              *)
(* reconcileFromSession).                                                  *)
(***************************************************************************)
GiftNotifiedAtMostOnce == \A o \in Orders : notified[o] <= 1

(***************************************************************************)
(* Every status change of an order is a transition of the table or a       *)
(* refund ("Ban illegal status transitions", assertLegalTransition).       *)
(***************************************************************************)
OnlyLegalTransitions ==
  [][\A o \in Orders : order[o].status # None =>
       order'[o].status \in Legal(order[o].status)
                              \cup {order[o].status, "REFUNDED"}]_vars
=============================================================================
