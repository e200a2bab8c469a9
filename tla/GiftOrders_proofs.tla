-------------------------- MODULE GiftOrders_proofs -------------------------
(***************************************************************************)
(* GiftOrders keeps its safety properties for any number of orders and     *)
(* administrators.  Every action writes one order at most, so each lemma   *)
(* follows the disjuncts of Next and singles out the actions that write    *)
(* what its conjunct speaks of.                                            *)
(***************************************************************************)
EXTENDS GiftOrders, TLAPS

\* The state in which nothing has happened satisfies the invariant.
LEMMA InvInit == Init => IInv
  <1> SUFFICES ASSUME Init PROVE IInv
    OBVIOUS
  <1>1. TypeOK
    BY SMT DEF Init, TypeOK, OrderRow, NoRow, Session, AdminCall, NoCall
  <1>2. PaymentIsKnown /\ PaidStampIsFunded /\ ApprovedBeforeShipped
    BY SMT DEF Init, PaymentIsKnown, PaidStampIsFunded, ApprovedBeforeShipped,
               NoRow, EventTypes
  <1>3. StatusIsStamped
    BY GiftAssumption, SMT DEF Init, StatusIsStamped, StampOf, NoRow, NoCall, Statuses
  <1> QED
    BY <1>1, <1>2, <1>3 DEF IInv

-----------------------------------------------------------------------------
(* Type correctness *)

\* What the writers of an order leave in its row is a row.
LEMMA RowWriters ==
  ASSUME TypeOK, NEW o \in Orders
  PROVE  /\ MarkPaid(o) => order' \in [Orders -> OrderRow] /\ notified' \in [Orders -> Nat]
         /\ \A s \in Statuses : [order EXCEPT ![o].status = s] \in [Orders -> OrderRow]
         /\ [order EXCEPT ![o].sessionId = TRUE] \in [Orders -> OrderRow]
         /\ \A s \in Statuses, t \in SUBSET Stamps :
              [order EXCEPT ![o].status = s, ![o].stamps = @ \cup t] \in [Orders -> OrderRow]
  <1>1. order[o] \in OrderRow /\ order \in [Orders -> OrderRow]
    BY DEF TypeOK
  <1>2. [order[o] EXCEPT !.status = "AWAITING_DESIGN_APPROVAL",
                         !.stamps = @ \cup {"paidAt"}, !.intent = TRUE] \in OrderRow
    BY <1>1 DEF OrderRow, Statuses, Stamps
  <1>3. MarkPaid(o) => order' \in [Orders -> OrderRow]
    BY <1>1, <1>2 DEF MarkPaid
  <1>4. MarkPaid(o) => notified' \in [Orders -> Nat]
    BY DEF MarkPaid, TypeOK
  <1>5. ASSUME NEW s \in Statuses
        PROVE  [order EXCEPT ![o].status = s] \in [Orders -> OrderRow]
    <2>1. [order[o] EXCEPT !.status = s] \in OrderRow
      BY <1>1 DEF OrderRow
    <2> QED
      BY <1>1, <2>1
  <1>6. [order EXCEPT ![o].sessionId = TRUE] \in [Orders -> OrderRow]
    <2>1. [order[o] EXCEPT !.sessionId = TRUE] \in OrderRow
      BY <1>1 DEF OrderRow
    <2> QED
      BY <1>1, <2>1
  <1>7. ASSUME NEW s \in Statuses, NEW t \in SUBSET Stamps
        PROVE  [order EXCEPT ![o].status = s, ![o].stamps = @ \cup t] \in [Orders -> OrderRow]
    <2>1. [order[o] EXCEPT !.status = s, !.stamps = @ \cup t] \in OrderRow
      BY <1>1 DEF OrderRow
    <2> QED
      BY <1>1, <2>1
  <1> QED
    BY <1>3, <1>4, <1>5, <1>6, <1>7

\* Emitting and receiving keep the table of events a table of events.
LEMMA EventWriters ==
  ASSUME TypeOK, NEW o \in Orders, NEW e \in EventTypes
  PROVE  Emit(o, e) \/ Received(o, e) =>
           event' \in [Orders -> [EventTypes -> {"none", "sent", "recorded"}]]
  <1>1. event[o] \in [EventTypes -> {"none", "sent", "recorded"}]
    BY DEF TypeOK
  <1>2. /\ [event[o] EXCEPT ![e] = "sent"] \in [EventTypes -> {"none", "sent", "recorded"}]
        /\ [event[o] EXCEPT ![e] = "recorded"] \in [EventTypes -> {"none", "sent", "recorded"}]
    BY <1>1
  <1> QED
    BY <1>1, <1>2 DEF Emit, Received, TypeOK

\* A session that changes its state, or is refunded, is a session.
LEMMA SessionWriters ==
  ASSUME TypeOK, NEW o \in Orders
  PROVE  /\ \A s \in {"open", "unpaid", "paid", "failed", "expired"} :
              [session EXCEPT ![o].state = s] \in [Orders -> Session]
         /\ [session EXCEPT ![o].refunded = TRUE] \in [Orders -> Session]
  <1>1. session[o] \in Session /\ session \in [Orders -> Session]
    BY DEF TypeOK
  <1>2. ASSUME NEW s \in {"open", "unpaid", "paid", "failed", "expired"}
        PROVE  [session EXCEPT ![o].state = s] \in [Orders -> Session]
    <2>1. [session[o] EXCEPT !.state = s] \in Session
      BY <1>1 DEF Session
    <2> QED
      BY <1>1, <2>1
  <1>3. [session[o] EXCEPT !.refunded = TRUE] \in Session
    BY <1>1 DEF Session
  <1> QED
    BY <1>1, <1>2, <1>3

\* The pending counters stay natural numbers.
LEMMA CounterWriters ==
  ASSUME TypeOK, NEW o \in Orders
  PROVE  /\ [verifying EXCEPT ![o] = @ + 1] \in [Orders -> Nat]
         /\ verifying[o] > 0 => [verifying EXCEPT ![o] = @ - 1] \in [Orders -> Nat]
         /\ [completing EXCEPT ![o] = @ + 1] \in [Orders -> Nat]
         /\ completing[o] > 0 => [completing EXCEPT ![o] = @ - 1] \in [Orders -> Nat]
  BY SMT DEF TypeOK

\* Every step keeps the types.
LEMMA TypeStep == TypeOK /\ [Next]_vars => TypeOK'
  <1> SUFFICES ASSUME TypeOK, [Next]_vars PROVE TypeOK'
    OBVIOUS
  <1>1. ASSUME NEW o \in Orders, Checkout(o) PROVE TypeOK'
    <2>1. CASE CreateOrder(o)
      <3>1. order' \in [Orders -> OrderRow]
        BY <2>1, RowWriters DEF CreateOrder, Statuses
      <3> QED
        BY <2>1, <3>1 DEF CreateOrder, TypeOK
    <2>2. CASE CreateSession(o)
      <3>1. session' \in [Orders -> Session]
        BY <2>2, SessionWriters DEF CreateSession
      <3> QED
        BY <2>2, <3>1 DEF CreateSession, TypeOK
    <2>3. CASE StampSession(o)
      <3>1. order' \in [Orders -> OrderRow]
        BY <2>3, RowWriters DEF StampSession
      <3> QED
        BY <2>3, <3>1 DEF StampSession, TypeOK
    <2>4. CASE CheckoutEnds(o)
      BY <2>4 DEF CheckoutEnds, TypeOK
    <2> QED
      BY <1>1, <2>1, <2>2, <2>3, <2>4 DEF Checkout
  <1>2. ASSUME NEW o \in Orders, Stripe(o) PROVE TypeOK'
    <2>e. ASSUME NEW e \in {"completed_paid", "completed_unpaid", "succeeded", "failed",
                            "refunded"}, Emit(o, e)
          PROVE  event' \in [Orders -> [EventTypes -> {"none", "sent", "recorded"}]]
      BY <2>e, EventWriters DEF EventTypes
    <2>1. ASSUME NEW s \in {"paid", "unpaid"}, Submit(o, s) PROVE TypeOK'
      <3>1. session' \in [Orders -> Session]
        BY <2>1, SessionWriters DEF Submit
      <3>2. event' \in [Orders -> [EventTypes -> {"none", "sent", "recorded"}]]
        BY <2>1, <2>e DEF Submit
      <3> QED
        BY <2>1, <3>1, <3>2 DEF Submit, TypeOK
    <2>2. ASSUME NEW s \in {"paid", "failed"}, DelayedResult(o, s) PROVE TypeOK'
      <3>1. session' \in [Orders -> Session]
        BY <2>2, SessionWriters DEF DelayedResult
      <3>2. event' \in [Orders -> [EventTypes -> {"none", "sent", "recorded"}]]
        BY <2>2, <2>e DEF DelayedResult
      <3> QED
        BY <2>2, <3>1, <3>2 DEF DelayedResult, TypeOK
    <2>3. ASSUME SessionExpires(o) PROVE TypeOK'
      <3>1. session' \in [Orders -> Session]
        BY <2>3, SessionWriters DEF SessionExpires
      <3> QED
        BY <2>3, <3>1 DEF SessionExpires, TypeOK
    <2>4. ASSUME RefundCharge(o) PROVE TypeOK'
      <3>1. session' \in [Orders -> Session]
        BY <2>4, SessionWriters DEF RefundCharge
      <3>2. event' \in [Orders -> [EventTypes -> {"none", "sent", "recorded"}]]
        BY <2>4, <2>e DEF RefundCharge
      <3> QED
        BY <2>4, <3>1, <3>2 DEF RefundCharge, TypeOK
    <2> QED
      BY <1>2, <2>1, <2>2, <2>3, <2>4 DEF Stripe
  <1>3. ASSUME NEW o \in Orders, Webhook(o) PROVE TypeOK'
    <2>e. ASSUME NEW e \in {"completed_paid", "completed_unpaid", "succeeded", "failed",
                            "refunded"}, Received(o, e)
          PROVE  event' \in [Orders -> [EventTypes -> {"none", "sent", "recorded"}]]
      BY <2>e, EventWriters DEF EventTypes
    <2>1. CASE ReceiveCompleted(o)
      <3>1. completing' \in [Orders -> Nat]
        BY <2>1, CounterWriters DEF ReceiveCompleted, TypeOK
      <3> QED
        BY <2>1, <2>e, <3>1 DEF ReceiveCompleted, TypeOK
    <2>2. CASE ReceiveUnpaid(o)
      BY <2>2, <2>e DEF ReceiveUnpaid, TypeOK
    <2>3. CASE ReceiveSucceeded(o)
      <3>1. order' \in [Orders -> OrderRow] /\ notified' \in [Orders -> Nat]
        BY <2>3, RowWriters DEF ReceiveSucceeded, TypeOK
      <3> QED
        BY <2>3, <2>e, <3>1 DEF ReceiveSucceeded, TypeOK
    <2>4. CASE ReceiveFailed(o)
      <3>1. order' \in [Orders -> OrderRow]
        BY <2>4, RowWriters DEF ReceiveFailed, TypeOK, Statuses
      <3> QED
        BY <2>4, <2>e, <3>1 DEF ReceiveFailed, TypeOK
    <2>5. CASE ReceiveRefunded(o)
      <3>1. order' \in [Orders -> OrderRow]
        BY <2>5, RowWriters DEF ReceiveRefunded, TypeOK, Statuses
      <3> QED
        BY <2>5, <2>e, <3>1 DEF ReceiveRefunded, TypeOK
    <2>6. CASE \E e \in EventTypes : EventLost(o, e)
      <3>1. event' \in [Orders -> [EventTypes -> {"none", "sent", "recorded"}]]
        BY <2>6, EventWriters DEF EventLost
      <3> QED
        BY <2>6, <3>1 DEF EventLost, TypeOK
    <2>7. CASE CompletionWrite(o)
      <3>1. order' \in [Orders -> OrderRow] /\ notified' \in [Orders -> Nat]
        BY <2>7, RowWriters DEF CompletionWrite
      <3>2. completing' \in [Orders -> Nat]
        BY <2>7, CounterWriters DEF CompletionWrite
      <3> QED
        BY <2>7, <3>1, <3>2 DEF CompletionWrite, TypeOK
    <2>8. CASE CompletionFails(o)
      <3>1. completing' \in [Orders -> Nat]
        BY <2>8, CounterWriters DEF CompletionFails
      <3> QED
        BY <2>8, <3>1 DEF CompletionFails, TypeOK
    <2> QED
      BY <1>3, <2>1, <2>2, <2>3, <2>4, <2>5, <2>6, <2>7, <2>8 DEF Webhook
  <1>4. ASSUME NEW o \in Orders, Reconcile(o) PROVE TypeOK'
    <2>1. verifying' \in [Orders -> Nat] /\ completing' \in [Orders -> Nat]
      BY <1>4, CounterWriters DEF Reconcile, ReconcileRead, ReconcileVerify,
           ReconcileFails, TypeOK
    <2>2. UNCHANGED <<order, stage, session, event, admin, notified, failed>>
      BY <1>4 DEF Reconcile, ReconcileRead, ReconcileVerify, ReconcileFails
    <2> QED
      BY <2>1, <2>2 DEF TypeOK
  <1>5. ASSUME NEW a \in Admins, AdminWrite(a) PROVE TypeOK'
    <2> DEFINE o == admin[a].order
               next == admin[a].next
    <2>1. StampOf(next) \in SUBSET Stamps
      BY DEF StampOf, Stamps
    <2>2. CASE o \in Orders /\ next \in Statuses
      <3>1. order' \in [Orders -> OrderRow]
        BY <1>5, <2>1, <2>2, RowWriters DEF AdminWrite
      <3>2. admin' \in [Admins -> AdminCall]
        BY <1>5 DEF AdminWrite, TypeOK, AdminCall, NoCall
      <3> QED
        BY <1>5, <3>1, <3>2 DEF AdminWrite, TypeOK
    <2>3. o \in Orders /\ next \in Statuses
      BY <1>5 DEF AdminWrite, TypeOK, AdminCall
    <2> QED
      BY <2>2, <2>3
  <1>6. ASSUME NEW a \in Admins, NEW o \in Orders, NEW s \in Statuses, AdminRead(a, o, s)
        PROVE TypeOK'
    BY <1>6, SMT DEF AdminRead, TypeOK, AdminCall
  <1>7. CASE UNCHANGED vars
    BY <1>7 DEF vars, TypeOK
  <1> QED
    BY <1>1, <1>2, <1>3, <1>4, <1>5, <1>6, <1>7 DEF Next

-----------------------------------------------------------------------------
(* Money *)

\* A session that is paid stays paid, and only a paid session lets anyone
\* write paidAt.
LEMMA PaymentStep == TypeOK /\ PaymentIsKnown /\ [Next]_vars => PaymentIsKnown'
  <1> SUFFICES ASSUME TypeOK, PaymentIsKnown, [Next]_vars PROVE PaymentIsKnown'
    OBVIOUS
  <1> USE DEF EventTypes, TypeOK
  <1>1. ASSUME NEW o \in Orders, Checkout(o) PROVE PaymentIsKnown'
    BY <1>1, SMT DEF Checkout, CreateOrder, CreateSession, StampSession, CheckoutEnds,
         PaymentIsKnown, Session
  <1>2. ASSUME NEW o \in Orders, Stripe(o) PROVE PaymentIsKnown'
    <2>1. ASSUME NEW s \in {"paid", "unpaid"}, Submit(o, s) PROVE PaymentIsKnown'
      BY <2>1, SMT DEF Submit, Emit, PaymentIsKnown, Session
    <2>2. ASSUME NEW s \in {"paid", "failed"}, DelayedResult(o, s) PROVE PaymentIsKnown'
      BY <2>2, SMT DEF DelayedResult, Emit, PaymentIsKnown, Session
    <2>3. ASSUME SessionExpires(o) PROVE PaymentIsKnown'
      BY <2>3, SMT DEF SessionExpires, PaymentIsKnown, Session
    <2>4. ASSUME RefundCharge(o) PROVE PaymentIsKnown'
      BY <2>4, SMT DEF RefundCharge, Emit, PaymentIsKnown, Session
    <2> QED
      BY <1>2, <2>1, <2>2, <2>3, <2>4 DEF Stripe
  <1>3. ASSUME NEW o \in Orders, Webhook(o) PROVE PaymentIsKnown'
    <2>1. ASSUME NEW e \in EventTypes, Received(o, e)
          PROVE  \A p \in Orders, f \in EventTypes :
                   event'[p][f] # "none" => event[p][f] # "none"
      BY <2>1, SMT DEF Received
    <2>2. CASE ReceiveCompleted(o)
      BY <2>2, <2>1, SMT DEF ReceiveCompleted, Received, PaymentIsKnown
    <2>3. CASE ReceiveUnpaid(o) \/ ReceiveSucceeded(o) \/ ReceiveFailed(o)
                 \/ ReceiveRefunded(o)
      BY <2>3, <2>1, SMT DEF ReceiveUnpaid, ReceiveSucceeded, ReceiveFailed,
           ReceiveRefunded, PaymentIsKnown
    <2>4. CASE \E e \in EventTypes : EventLost(o, e)
      BY <2>4, <2>1, SMT DEF EventLost, PaymentIsKnown
    <2>5. CASE CompletionWrite(o) \/ CompletionFails(o)
      <3>1. /\ completing[o] > 0
            /\ completing' = [completing EXCEPT ![o] = @ - 1]
            /\ UNCHANGED <<stage, session, event>>
        BY <2>5 DEF CompletionWrite, CompletionFails
      <3>2. \A p \in Orders : completing'[p] > 0 => completing[p] > 0
        BY <3>1
      <3> QED
        BY <3>1, <3>2 DEF PaymentIsKnown
    <2> QED
      BY <1>3, <2>2, <2>3, <2>4, <2>5 DEF Webhook
  <1>4. ASSUME NEW o \in Orders, Reconcile(o) PROVE PaymentIsKnown'
    BY <1>4, SMT DEF Reconcile, ReconcileRead, ReconcileVerify, ReconcileFails,
         PaymentIsKnown
  <1>5. ASSUME NEW a \in Admins,
               AdminWrite(a) \/ \E o \in Orders, s \in Statuses : AdminRead(a, o, s)
        PROVE PaymentIsKnown'
    BY <1>5, SMT DEF AdminWrite, AdminRead, PaymentIsKnown
  <1>6. CASE UNCHANGED vars
    BY <1>6 DEF vars, PaymentIsKnown
  <1> QED
    BY <1>1, <1>2, <1>3, <1>4, <1>5, <1>6 DEF Next

\* A session that is paid is still paid after any step.
LEMMA PaidForGood ==
  ASSUME TypeOK, PaymentIsKnown, [Next]_vars, NEW o \in Orders, session[o].state = "paid"
  PROVE  session'[o].state = "paid"
  <1> USE DEF TypeOK, Session
  <1>1. ASSUME NEW p \in Orders, Checkout(p) PROVE session'[o].state = "paid"
    BY <1>1, SMT DEF Checkout, CreateOrder, CreateSession, StampSession, CheckoutEnds,
         PaymentIsKnown
  <1>2. ASSUME NEW p \in Orders, Stripe(p) PROVE session'[o].state = "paid"
    BY <1>2, SMT DEF Stripe, Submit, DelayedResult, SessionExpires, RefundCharge
  <1>3. ASSUME NEW p \in Orders, Webhook(p) \/ Reconcile(p) PROVE session' = session
    BY <1>3 DEF Webhook, Reconcile, ReceiveCompleted, ReceiveUnpaid, ReceiveSucceeded,
         ReceiveFailed, ReceiveRefunded, EventLost, CompletionWrite, CompletionFails,
         ReconcileRead, ReconcileVerify, ReconcileFails
  <1>4. ASSUME NEW a \in Admins,
               AdminWrite(a) \/ \E p \in Orders, s \in Statuses : AdminRead(a, p, s)
        PROVE session' = session
    BY <1>4 DEF AdminWrite, AdminRead
  <1>5. CASE UNCHANGED vars
    BY <1>5 DEF vars
  <1> QED
    BY <1>1, <1>2, <1>3, <1>4, <1>5 DEF Next

-----------------------------------------------------------------------------
(* Rows *)

\* What a step does to the row of an order: it creates it, marks it paid
\* when its session is, stamps its session, lets an administrator write, or
\* cancels or refunds it.
LEMMA RowStep ==
  ASSUME TypeOK, PaymentIsKnown, [Next]_vars, NEW o \in Orders
  PROVE  LET old == order[o]
             new == order'[o]
         IN  \/ new.status = old.status /\ new.stamps = old.stamps
             \/ new.status \in {"PENDING_PAYMENT", "CANCELLED", "REFUNDED"}
                /\ new.stamps = old.stamps
             \/ /\ session[o].state = "paid"
                /\ new.status = "AWAITING_DESIGN_APPROVAL"
                /\ new.stamps = old.stamps \cup {"paidAt"}
             \/ \E a \in Admins :
                  /\ admin[a] # NoCall /\ admin[a].order = o
                  /\ new.status = admin[a].next
                  /\ new.stamps = old.stamps \cup StampOf(admin[a].next)
  <1> DEFINE Goal == LET old == order[o]
                         new == order'[o]
                     IN  \/ new.status = old.status /\ new.stamps = old.stamps
                         \/ new.status \in {"PENDING_PAYMENT", "CANCELLED", "REFUNDED"}
                            /\ new.stamps = old.stamps
                         \/ /\ session[o].state = "paid"
                            /\ new.status = "AWAITING_DESIGN_APPROVAL"
                            /\ new.stamps = old.stamps \cup {"paidAt"}
                         \/ \E a \in Admins :
                              /\ admin[a] # NoCall /\ admin[a].order = o
                              /\ new.status = admin[a].next
                              /\ new.stamps = old.stamps \cup StampOf(admin[a].next)
  <1>0. /\ order[o] \in OrderRow /\ DOMAIN order = Orders
        /\ DOMAIN order[o] = {"status", "stamps", "intent", "sessionId"}
    BY DEF TypeOK, OrderRow
  <1>a. ASSUME order'[o] = order[o] PROVE Goal
    BY <1>a
  <1>b. ASSUME NEW p \in Orders, p # o, NEW r, order' = [order EXCEPT ![p] = r]
        PROVE Goal
    BY <1>b, <1>0, <1>a
  <1>c. ASSUME NEW s \in {"PENDING_PAYMENT", "CANCELLED", "REFUNDED"},
               order'[o] = [order[o] EXCEPT !.status = s]
        PROVE Goal
    BY <1>c, <1>0
  <1>d. ASSUME session[o].state = "paid",
               order'[o] = [order[o] EXCEPT !.status = "AWAITING_DESIGN_APPROVAL",
                                            !.stamps = @ \cup {"paidAt"}, !.intent = TRUE]
        PROVE Goal
    BY <1>d, <1>0
  <1>1. ASSUME NEW p \in Orders, Checkout(p) PROVE Goal
    <2>1. CASE CreateOrder(p)
      <3>1. order' = [order EXCEPT ![p] = [order[p] EXCEPT !.status = "PENDING_PAYMENT"]]
        BY <2>1 DEF CreateOrder
      <3> QED
        BY <3>1, <1>0, <1>b, <1>c
    <2>2. CASE StampSession(p)
      <3>1. order' = [order EXCEPT ![p] = [order[p] EXCEPT !.sessionId = TRUE]]
        BY <2>2 DEF StampSession
      <3>2. CASE p = o
        <4>1. order'[o] = [order[o] EXCEPT !.sessionId = TRUE]
          BY <3>1, <3>2, <1>0
        <4> QED
          BY <4>1, <1>0
      <3> QED
        BY <3>1, <3>2, <1>b
    <2>3. CASE CreateSession(p) \/ CheckoutEnds(p)
      BY <2>3, <1>a DEF CreateSession, CheckoutEnds
    <2> QED
      BY <1>1, <2>1, <2>2, <2>3 DEF Checkout
  <1>2. ASSUME NEW p \in Orders, Stripe(p) PROVE Goal
    BY <1>2, <1>a DEF Stripe, Submit, DelayedResult, SessionExpires, RefundCharge
  <1>p. ASSUME NEW p \in Orders, MarkPaid(p), session[p].state = "paid" PROVE Goal
    <2>1. order' = [order EXCEPT ![p] =
                      [order[p] EXCEPT !.status = "AWAITING_DESIGN_APPROVAL",
                                       !.stamps = @ \cup {"paidAt"}, !.intent = TRUE]]
      BY <1>p DEF MarkPaid
    <2>2. CASE p = o
      BY <1>p, <2>1, <2>2, <1>0, <1>d
    <2> QED
      BY <2>1, <2>2, <1>b
  <1>3. ASSUME NEW p \in Orders, Webhook(p) PROVE Goal
    <2>1. CASE ReceiveCompleted(p) \/ ReceiveUnpaid(p) \/ CompletionFails(p)
                 \/ \E e \in EventTypes : EventLost(p, e)
      BY <2>1, <1>a DEF ReceiveCompleted, ReceiveUnpaid, CompletionFails, EventLost
    <2>2. CASE ReceiveSucceeded(p)
      <3>1. event[p]["succeeded"] = "sent"
        BY <2>2 DEF ReceiveSucceeded, Received
      <3>2. session[p].state = "paid"
        BY <3>1 DEF PaymentIsKnown
      <3> QED
        BY <2>2, <3>2, <1>a, <1>p DEF ReceiveSucceeded
    <2>3. CASE ReceiveFailed(p)
      <3>1. \/ order' = order
            \/ order' = [order EXCEPT ![p] = [order[p] EXCEPT !.status = "CANCELLED"]]
        BY <2>3 DEF ReceiveFailed
      <3> QED
        BY <3>1, <1>0, <1>a, <1>b, <1>c
    <2>4. CASE ReceiveRefunded(p)
      <3>1. \/ order' = order
            \/ order' = [order EXCEPT ![p] = [order[p] EXCEPT !.status = "REFUNDED"]]
        BY <2>4 DEF ReceiveRefunded
      <3> QED
        BY <3>1, <1>0, <1>a, <1>b, <1>c
    <2>5. CASE CompletionWrite(p)
      <3>1. completing[p] > 0 /\ MarkPaid(p)
        BY <2>5 DEF CompletionWrite
      <3>2. session[p].state = "paid"
        BY <3>1 DEF PaymentIsKnown
      <3> QED
        BY <3>1, <3>2, <1>p
    <2> QED
      BY <1>3, <2>1, <2>2, <2>3, <2>4, <2>5 DEF Webhook
  <1>4. ASSUME NEW p \in Orders, Reconcile(p) PROVE Goal
    BY <1>4, <1>a DEF Reconcile, ReconcileRead, ReconcileVerify, ReconcileFails
  <1>5. ASSUME NEW a \in Admins, AdminWrite(a) PROVE Goal
    <2>1. /\ admin[a] # NoCall
          /\ order' = [order EXCEPT ![admin[a].order] =
               [order[admin[a].order] EXCEPT !.status = admin[a].next,
                                      !.stamps = @ \cup StampOf(admin[a].next)]]
      BY <1>5 DEF AdminWrite
    <2>2. admin[a].order \in Orders
      BY <2>1 DEF TypeOK, AdminCall
    <2>3. CASE admin[a].order = o
      <3>1. order'[o] = [order[o] EXCEPT !.status = admin[a].next,
                                         !.stamps = @ \cup StampOf(admin[a].next)]
        BY <2>1, <2>3, <1>0
      <3>2. order'[o].status = admin[a].next
            /\ order'[o].stamps = order[o].stamps \cup StampOf(admin[a].next)
        BY <3>1, <1>0
      <3> QED
        BY <2>1, <2>3, <3>2
    <2> QED
      BY <2>1, <2>2, <2>3, <1>b
  <1>6. ASSUME NEW a \in Admins, NEW p \in Orders, NEW s \in Statuses, AdminRead(a, p, s)
        PROVE Goal
    BY <1>6, <1>a DEF AdminRead
  <1>7. CASE UNCHANGED vars
    BY <1>7, <1>a DEF vars
  <1> QED
    BY <1>1, <1>2, <1>3, <1>4, <1>5, <1>6, <1>7 DEF Next

LEMMA FundedStep ==
  TypeOK /\ PaymentIsKnown /\ PaidStampIsFunded /\ [Next]_vars => PaidStampIsFunded'
  <1> SUFFICES ASSUME TypeOK, PaymentIsKnown, PaidStampIsFunded, [Next]_vars,
                      NEW o \in Orders, "paidAt" \in order'[o].stamps
               PROVE  session'[o].state = "paid"
    BY DEF PaidStampIsFunded
  <1>1. "paidAt" \in order[o].stamps \/ session[o].state = "paid"
    BY RowStep, SMT DEF StampOf
  <1> QED
    BY <1>1, PaidForGood DEF PaidStampIsFunded

\* The status of an order, and the status an administrator is about to
\* write, have their timestamps behind them.
LEMMA StampStep == 
  TypeOK /\ PaymentIsKnown /\ StatusIsStamped /\ [Next]_vars => StatusIsStamped'
  <1> SUFFICES ASSUME TypeOK, PaymentIsKnown, StatusIsStamped, [Next]_vars
               PROVE  StatusIsStamped'
    OBVIOUS
  <1>1. \A o \in Orders : order[o].stamps \subseteq order'[o].stamps
    BY RowStep, SMT
  <1>2. ASSUME NEW o \in Orders PROVE StampOf(order'[o].status) \subseteq order'[o].stamps
    BY RowStep, SMT DEF StampOf, StatusIsStamped
  <1>3. ASSUME NEW a \in Admins, admin'[a] # NoCall, admin'[a] = admin[a]
        PROVE  Behind(admin'[a].next) \subseteq order'[admin'[a].order].stamps
    <2>1. admin[a].order \in Orders
      BY <1>3 DEF TypeOK, AdminCall
    <2> QED
      BY <1>3, <1>1, <2>1 DEF StatusIsStamped
  <1>4. ASSUME NEW a \in Admins, admin'[a] # NoCall, admin'[a] # admin[a]
        PROVE  Behind(admin'[a].next) \subseteq order'[admin'[a].order].stamps
    <2>1. \E o \in Orders, s \in Statuses : AdminRead(a, o, s)
      <3>1. ASSUME NEW o \in Orders, Checkout(o) \/ Stripe(o) \/ Webhook(o) \/ Reconcile(o)
            PROVE  admin' = admin
        BY <3>1 DEF Checkout, CreateOrder, CreateSession, StampSession, CheckoutEnds, Stripe,
             Submit, DelayedResult, SessionExpires, RefundCharge, Webhook, ReceiveCompleted,
             ReceiveUnpaid, ReceiveSucceeded, ReceiveFailed, ReceiveRefunded, EventLost,
             CompletionWrite, CompletionFails, Reconcile, ReconcileRead, ReconcileVerify,
             ReconcileFails
      <3>2. ASSUME NEW b \in Admins, AdminWrite(b) PROVE FALSE
        BY <3>2, <1>4 DEF AdminWrite, TypeOK
      <3>3. ASSUME NEW b \in Admins, NEW o \in Orders, NEW s \in Statuses, AdminRead(b, o, s)
            PROVE  b = a
        BY <3>3, <1>4 DEF AdminRead, TypeOK
      <3>4. ~UNCHANGED vars
        BY <1>4 DEF vars
      <3> QED
        BY <1>4, <3>1, <3>2, <3>3, <3>4 DEF Next
    <2>2. PICK o \in Orders, s \in Statuses : AdminRead(a, o, s)
      BY <2>1
    <2>3. admin'[a].order = o /\ admin'[a].next = s /\ s \in Legal(order[o].status)
      BY <2>2, SMT DEF AdminRead, TypeOK
    <2>4. Behind(s) \subseteq order[o].stamps
      BY <2>3, SMT DEF Legal, Behind, StampOf, StatusIsStamped
    <2> QED
      BY <2>3, <2>4, <1>1
  <1> QED
    BY <1>2, <1>3, <1>4 DEF StatusIsStamped

LEMMA TimelineStep ==
  TypeOK /\ PaymentIsKnown /\ StatusIsStamped /\ ApprovedBeforeShipped /\ [Next]_vars
    => ApprovedBeforeShipped'
  <1> SUFFICES ASSUME TypeOK, PaymentIsKnown, StatusIsStamped, ApprovedBeforeShipped,
                      [Next]_vars, NEW o \in Orders
               PROVE  /\ "shippedAt" \in order'[o].stamps => "approvedAt" \in order'[o].stamps
                      /\ "deliveredAt" \in order'[o].stamps => "shippedAt" \in order'[o].stamps
    BY DEF ApprovedBeforeShipped
  <1>1. CASE \/ order'[o].stamps = order[o].stamps
             \/ order'[o].stamps = order[o].stamps \cup {"paidAt"}
    BY <1>1, SMT DEF ApprovedBeforeShipped
  <1>2. ASSUME NEW a \in Admins, admin[a] # NoCall, admin[a].order = o,
               order'[o].stamps = order[o].stamps \cup StampOf(admin[a].next)
        PROVE  /\ "shippedAt" \in order'[o].stamps => "approvedAt" \in order'[o].stamps
               /\ "deliveredAt" \in order'[o].stamps => "shippedAt" \in order'[o].stamps
    BY <1>2, SMT DEF StampOf, Behind, StatusIsStamped, ApprovedBeforeShipped
  <1> QED
    BY RowStep, <1>1, <1>2

-----------------------------------------------------------------------------
(* Theorems *)

(***************************************************************************)
(* IInv, the strengthening of the theorems below, holds in every state:    *)
(* who is about to write paidAt has seen the money, and every status has its*)
(* timestamps behind it.                                                   *)
(***************************************************************************)
THEOREM Invariant == Spec => []IInv
  <1>1. IInv /\ [Next]_vars => IInv'
    BY TypeStep, PaymentStep, FundedStep, StampStep, TimelineStep DEF IInv
  <1> QED
    BY InvInit, <1>1, PTL DEF Spec

(***************************************************************************)
(* GiftOrders is type correct (TypeOK), for any number of orders and       *)
(* administrators.                                                         *)
(***************************************************************************)
THEOREM TypeCorrect == Spec => []TypeOK
  BY Invariant, PTL DEF IInv

(***************************************************************************)
(* No race of events, reconcile calls and administrators stamps an order   *)
(* paid whose session is not, delayed payment methods and failing handlers *)
(* included.                                                               *)
(***************************************************************************)
THEOREM PaidOnlyWithMoney == Spec => []PaidStampIsFunded
  BY Invariant, PTL DEF IInv

(***************************************************************************)
(* No interleaving of administrators with each other or with the events    *)
(* ships an unapproved design or delivers what was not shipped.            *)
(***************************************************************************)
THEOREM ShippedOnlyApproved == Spec => []ApprovedBeforeShipped
  BY Invariant, PTL DEF IInv
=============================================================================
