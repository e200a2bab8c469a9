------------------------ MODULE PastryOrders_proofs ------------------------
(***************************************************************************)
(* Proofs about PastryOrders, for every value of its constants.            *)
(***************************************************************************)
EXTENDS PastryOrders, TLAPS

(***************************************************************************)
(* The arithmetic of a quote.  The discount and the credit never exceed    *)
(* what they reduce, whatever the code grants and even when the balance is *)
(* negative, and the charge sent to Stripe is the total stored on the row. *)
(***************************************************************************)
LEMMA QuoteArithmetic ==
  ASSUME NEW q \in Request
  PROVE  /\ Discount(q) \in 0 .. Subtotal[q.lines]
         /\ AfterPromo(q) = Subtotal[q.lines] - Discount(q)
         /\ Credit(q) \in 0 .. AfterPromo(q)
         /\ GrandTotal(q) \in Nat
         /\ Charge(q) = GrandTotal(q)
<1>1. Subtotal[q.lines] \in Nat
  BY PastryAssumption DEF Request
<1>2. Discount(q) \in 0 .. Subtotal[q.lines]
  <2>1. CASE q.code = None
    BY <1>1, <2>1 DEF Discount
  <2>2. CASE q.code # None
    <3>1. Terms[q.code] \in PromoTerms
      BY <2>2, PastryAssumption DEF Request
    <3>2. ASSUME NEW t \in PromoTerms, NEW s \in Nat
          PROVE  ComputeDiscount(t, s) \in 0 .. s
      <4>1. t.off \in Nat
        BY <3>2 DEF PromoTerms
      <4>2. s * t.off \in Int
        BY <3>2, <4>1
      <4>3. (s * t.off) \div 100 \in Int
        BY <4>2
      <4>4. QED
        BY <3>2, <4>1, <4>3 DEF ComputeDiscount, Greater, Lesser
    <3>3. QED
      BY <1>1, <2>2, <3>1, <3>2 DEF Discount
  <2>3. QED
    BY <2>1, <2>2
<1>3. AfterPromo(q) = Subtotal[q.lines] - Discount(q)
  BY <1>1, <1>2 DEF AfterPromo, Greater
<1>4. AfterPromo(q) \in Nat
  BY <1>1, <1>2, <1>3
<1>5. q.balance \in Int /\ q.shipping \in Nat
  BY DEF Request
<1>6. Credit(q) \in 0 .. AfterPromo(q)
  BY <1>1, <1>4, <1>5 DEF Credit, Greater, Lesser
<1>7. GrandTotal(q) = AfterPromo(q) - Credit(q) + q.shipping
  BY <1>4, <1>5, <1>6 DEF GrandTotal, Greater
<1>8. QED
  BY <1>1, <1>2, <1>3, <1>4, <1>5, <1>6, <1>7 DEF Charge, Coupon

(***************************************************************************)
(* The inductive invariant holds initially.                                *)
(***************************************************************************)
LEMMA InvInit == Init => IInv
<1> SUFFICES ASSUME Init PROVE IInv
  OBVIOUS
<1>1. TypeOK
  BY DEF Init, TypeOK, NoRow, NoCall, OrderRow, PromoRow, Session, Stages,
         Request, NoRequest, AdminCall
<1>2. \A o \in Orders : ~Exists(o) /\ ~Settled(o)
  BY DEF Init, Exists, Settled, NoRow
<1>3. RowFollowsStage /\ CallHasUser
  BY <1>2 DEF Init, RowFollowsStage, CallHasUser
<1>4. PaymentFollowsSession
  BY DEF Init, PaymentFollowsSession, NoRow
<1>5. StatusHasTimeline
  BY PastryAssumption DEF Init, StatusHasTimeline, NoRow, Stamped
<1>6. PromoBinding
  BY DEF Init, PromoBinding, NoRow
<1>7. DebitedOnceWhenSettled
  BY <1>2 DEF Init, DebitedOnceWhenSettled, NoRow
<1>8. TimelineComplete
  BY DEF Init, TimelineComplete, NoRow
<1>9. ChargeMatchesTotal /\ RowBeforeRedirect /\ PaidIsFunded
  BY <1>2 DEF Init, ChargeMatchesTotal, RowBeforeRedirect,
              PaidIsFunded
<1>10. QED
  BY <1>1, <1>3, <1>4, <1>5, <1>6, <1>7, <1>8, <1>9 DEF IInv

(***************************************************************************)
(* Every step keeps the types.                                             *)
(***************************************************************************)
LEMMA TypeStep == TypeOK /\ CallHasUser /\ [Next]_vars => TypeOK'
<1> SUFFICES ASSUME TypeOK, CallHasUser, [Next]_vars PROVE TypeOK'
  OBVIOUS
<1>1. ASSUME NEW o \in Orders, Checkout(o) PROVE TypeOK'
  <2>1. req[o] \in Request /\ order[o] \in OrderRow
    BY DEF TypeOK
  <2>2. Credit(req[o]) \in Nat /\ GrandTotal(req[o]) \in Nat /\ Charge(req[o]) \in Int
    <3>1. Subtotal[req[o].lines] \in Nat
      BY <2>1, PastryAssumption DEF Request
    <3>2. QED
      BY <2>1, <3>1, QuoteArithmetic
  <2>3. ASSUME NEW s \in {"PAID", "PENDING_PAYMENT"}
        PROVE  NewRow(o, s) \in OrderRow
    BY <2>1, <2>2, <2>3 DEF NewRow, OrderRow, Request, Stamped, Statuses
  <2>4. ASSUME Redeem(o, req[o].code) PROVE promo' \in [Codes -> PromoRow]
    BY <2>1, <2>4 DEF Redeem, PromoRow, Request, TypeOK
  <2>5. ASSUME NEW u \in Users, NEW c \in Codes \cup {None}, StartCheckout(o, u, c)
        PROVE  TypeOK'
    <3>1. [req[o] EXCEPT !.user = u, !.code = c] \in Request
      BY <2>1 DEF Request
    <3>2. QED
      BY <2>5, <3>1 DEF StartCheckout, TypeOK, Stages
  <2>6. CASE ReadCart(o)
    <3>1. \A S : S \subseteq Items =>
            [req[o] EXCEPT !.lines = S, !.read = @ \cup {"cart"}] \in Request
      BY <2>1 DEF Request
    <3>2. [req[o] EXCEPT !.lines = cart[req[o].user], !.read = @ \cup {"cart"}] \in Request
      BY <2>6, <3>1 DEF TypeOK, CallHasUser, ReadCart
    <3>3. QED
      BY <2>6, <3>2 DEF ReadCart, TypeOK
  <2>7. CASE ReadBalance(o)
    <3>1. \A n \in Int :
            [req[o] EXCEPT !.balance = n, !.read = @ \cup {"balance"}] \in Request
      BY <2>1 DEF Request
    <3>2. [req[o] EXCEPT !.balance = balance[req[o].user], !.read = @ \cup {"balance"}] \in Request
      BY <2>7, <3>1 DEF TypeOK, CallHasUser, ReadBalance
    <3>3. QED
      BY <2>7, <3>2 DEF ReadBalance, TypeOK
  <2>8. ASSUME NEW fee \in ShippingFees, Quote(o, fee) PROVE TypeOK'
    <3>1. [req[o] EXCEPT !.shipping = fee] \in Request
      BY <2>1, PastryAssumption DEF Request
    <3>2. QED
      BY <2>8, <3>1 DEF Quote, TypeOK, Stages
  <2>9. CASE CreatePaid(o)
    <3>1. order' = [order EXCEPT ![o] = NewRow(o, "PAID")]
      BY <2>9 DEF CreatePaid
    <3>2. NewRow(o, "PAID") \in OrderRow
      BY <2>3
    <3>3. promo' \in [Codes -> PromoRow]
      BY <2>4, <2>9 DEF CreatePaid
    <3>4. cart' \in [Users -> SUBSET Items]
      BY <2>9 DEF CreatePaid, TypeOK
    <3>4a. balance' \in [Users -> Int]
      <4>1. \A v \in Users : balance[v] \in Int /\ balance[v] - Credit(req[o]) \in Int
        BY <2>2 DEF TypeOK
      <4>2. QED
        BY <2>9, <4>1 DEF CreatePaid, TypeOK
    <3>5. debit' \in [Orders -> Nat] /\ notified' \in [Orders -> Nat]
      BY <2>2, <2>9 DEF CreatePaid, TypeOK
    <3>6. QED
      BY <2>9, <3>1, <3>2, <3>3, <3>4, <3>4a, <3>5 DEF CreatePaid, TypeOK, Stages
  <2>10. CASE CreatePending(o)
    BY <2>3, <2>4, <2>10 DEF CreatePending, TypeOK, Stages
  <2>11. CASE CreateSession(o)
    BY <2>2, <2>11 DEF CreateSession, Session, TypeOK, Stages
  <2>12. CASE SessionRefused(o)
    <3>1. [order[o] EXCEPT !.status = "CANCELLED"] \in OrderRow
      BY <2>1 DEF OrderRow, Statuses
    <3>2. QED
      BY <2>12, <3>1 DEF SessionRefused, TypeOK, Stages
  <2>13. CASE StampSession(o)
    <3>1. [order[o] EXCEPT !.sessionId = TRUE] \in OrderRow
      BY <2>1 DEF OrderRow
    <3>2. QED
      BY <2>13, <3>1 DEF StampSession, TypeOK, Stages
  <2>14. CASE CheckoutEnds(o)
    BY <2>14 DEF CheckoutEnds, TypeOK, Stages
  <2>15. QED
    BY <1>1, <2>5, <2>6, <2>7, <2>8, <2>9, <2>10, <2>11, <2>12, <2>13, <2>14 DEF Checkout
<1>2. ASSUME NEW o \in Orders, Stripe(o) PROVE TypeOK'
  <2>1. ASSUME NEW s \in {"paid", "unpaid", "failed", "expired"}
        PROVE  [session EXCEPT ![o].state = s] \in [Orders -> Session]
    BY <2>1 DEF TypeOK, Session
  <2>2. ASSUME NEW s \in {"paid", "unpaid"}, Submit(o, s) PROVE TypeOK'
    BY <2>1, <2>2 DEF Submit, TypeOK
  <2>3. ASSUME NEW s \in {"paid", "failed"}, DelayedResult(o, s) PROVE TypeOK'
    BY <2>1, <2>3 DEF DelayedResult, TypeOK
  <2>4. CASE SessionExpires(o)
    BY <2>1, <2>4 DEF SessionExpires, TypeOK
  <2>5. QED
    BY <1>2, <2>2, <2>3, <2>4 DEF Stripe
<1>3. ASSUME NEW o \in Orders, Completion(o) PROVE TypeOK'
  <2>1. CASE WebhookReceive(o)
    BY <2>1 DEF WebhookReceive, TypeOK
  <2>2. ASSUME NEW page \in Orders, ReconcileRead(page, o) PROVE TypeOK'
    BY <2>2 DEF ReconcileRead, TypeOK
  <2>3. CASE ReconcileVerify(o)
    BY <2>3 DEF ReconcileVerify, TypeOK
  <2>4. CASE ReconcileFails(o)
    BY <2>4 DEF ReconcileFails, TypeOK
  <2>5. CASE CompletionFails(o)
    BY <2>5 DEF CompletionFails, TypeOK
  <2>6. CASE CompleteTx(o)
    <3>1. DueDebit(o) \in Nat
      BY DEF DueDebit, OrderRow, TypeOK
    <3>2. order[o] \in OrderRow
      BY DEF TypeOK
    <3>3. [order[o] EXCEPT !.status = "PAID", !.stamps = @ \cup {"PAID"},
                           !.creditTx = @ \/ DueDebit(o) > 0] \in OrderRow
      BY <3>2 DEF OrderRow, Stamped, Statuses
    <3>4. order' \in [Orders -> OrderRow]
      BY <2>6, <3>3 DEF CompleteTx, TypeOK
    <3>5. cart' \in [Users -> SUBSET Items]
      BY <2>6 DEF CompleteTx, TypeOK
    <3>5a. balance' \in [Users -> Int]
      <4>1. \A v \in Users : balance[v] \in Int /\ balance[v] - DueDebit(o) \in Int
        BY <3>1 DEF TypeOK
      <4>2. QED
        BY <2>6, <4>1 DEF CompleteTx, TypeOK
    <3>6. QED
      BY <2>6, <3>1, <3>4, <3>5, <3>5a DEF CompleteTx, TypeOK
  <2>7. QED
    BY <1>3, <2>1, <2>2, <2>3, <2>4, <2>5, <2>6 DEF Completion
<1>4. ASSUME NEW a \in Admins, AdminWrite(a) PROVE TypeOK'
  <2> DEFINE o == admin[a].order
             next == admin[a].next
  <2>1. o \in Orders \cup {None} /\ next \in Statuses \cup {None}
    BY DEF TypeOK, AdminCall
  <2>2. order' \in [Orders -> OrderRow]
    <3>1. CASE o \notin Orders
      BY <1>4, <3>1 DEF AdminWrite, TypeOK
    <3>2. CASE o \in Orders
      <4>1. order[o] \in OrderRow
        BY <3>2 DEF TypeOK
      <4>2. [order[o] EXCEPT !.status = next, !.stamps = @ \cup ({next} \cap Stamped)] \in OrderRow
        BY <2>1, <4>1 DEF OrderRow
      <4>3. QED
        BY <1>4, <3>2, <4>2 DEF AdminWrite, TypeOK
    <3>3. QED
      BY <3>1, <3>2
  <2>3. admin' \in [Admins -> AdminCall]
    BY <1>4 DEF AdminWrite, AdminCall, NoCall, TypeOK
  <2>4. QED
    BY <1>4, <2>2, <2>3 DEF AdminWrite, TypeOK
<1>5. ASSUME NEW a \in Admins, NEW o \in Orders, NEW s \in Statuses, AdminRead(a, o, s)
      PROVE  TypeOK'
  BY <1>5 DEF AdminRead, AdminCall, TypeOK
<1>6. CASE Surroundings
  <2>1. ASSUME NEW u \in Users, NEW i \in Items, AddLine(u, i) \/ RemoveLine(u, i)
        PROVE  TypeOK'
    <3>1. cart' \in [Users -> SUBSET Items]
      BY <2>1 DEF AddLine, RemoveLine, TypeOK
    <3>2. QED
      BY <2>1, <3>1 DEF AddLine, RemoveLine, TypeOK
  <2>2. ASSUME NEW u \in Users, NEW n \in CreditMoves, MoveCredit(u, n) PROVE TypeOK'
    BY <2>2, PastryAssumption DEF MoveCredit, TypeOK
  <2>3. ASSUME NEW c \in Codes, ExpireCode(c) PROVE TypeOK'
    BY <2>3 DEF ExpireCode, PromoRow, TypeOK
  <2>4. QED
    BY <1>6, <2>1, <2>2, <2>3 DEF Surroundings
<1>7. CASE UNCHANGED vars
  BY <1>7 DEF vars, TypeOK
<1>8. QED
  BY <1>1, <1>2, <1>3, <1>4, <1>5, <1>6, <1>7 DEF Next

(***************************************************************************)
(* Which actions write which rows.                                         *)
(***************************************************************************)
LEMMA OrderWriters ==
  ASSUME [Next]_vars
  PROVE  \/ \E o \in Orders : \/ CreatePaid(o) \/ CreatePending(o)
                              \/ SessionRefused(o) \/ StampSession(o)
                              \/ CompleteTx(o)
         \/ \E a \in Admins : AdminWrite(a)
         \/ UNCHANGED <<order, debit>>
  BY DEF Next, vars, Checkout, Stripe, Completion, Surroundings, StartCheckout,
         ReadCart, ReadBalance, Quote, CreateSession, CheckoutEnds, Submit,
         DelayedResult, SessionExpires, WebhookReceive, ReconcileRead,
         ReconcileVerify, ReconcileFails, CompletionFails, AdminRead, AddLine,
         RemoveLine, MoveCredit, ExpireCode

LEMMA PromoWriters ==
  ASSUME [Next]_vars
  PROVE  \/ \E o \in Orders : CreatePaid(o) \/ CreatePending(o)
         \/ \E c \in Codes : ExpireCode(c)
         \/ UNCHANGED promo
  BY DEF Next, vars, Checkout, Stripe, Completion, Surroundings, StartCheckout,
         ReadCart, ReadBalance, Quote, CreateSession, SessionRefused,
         StampSession, CheckoutEnds, Submit, DelayedResult, SessionExpires,
         WebhookReceive, ReconcileRead, ReconcileVerify, ReconcileFails,
         CompleteTx, CompletionFails, AdminRead, AdminWrite, AddLine,
         RemoveLine, MoveCredit

LEMMA SessionWriters ==
  ASSUME [Next]_vars
  PROVE  \/ \E o \in Orders : \/ CreateSession(o) \/ SessionExpires(o)
                              \/ \E s \in {"paid", "unpaid"} : Submit(o, s)
                              \/ \E s \in {"paid", "failed"} : DelayedResult(o, s)
         \/ UNCHANGED session
  BY DEF Next, vars, Checkout, Stripe, Completion, Surroundings, StartCheckout,
         ReadCart, ReadBalance, Quote, CreatePaid, CreatePending,
         SessionRefused, StampSession, CheckoutEnds, WebhookReceive,
         ReconcileRead, ReconcileVerify, ReconcileFails, CompleteTx,
         CompletionFails, AdminRead, AdminWrite, AddLine, RemoveLine,
         MoveCredit, ExpireCode

LEMMA EventWriters ==
  ASSUME [Next]_vars
  PROVE  \/ \E o \in Orders : \/ WebhookReceive(o)
                              \/ \E s \in {"paid", "unpaid"} : Submit(o, s)
         \/ UNCHANGED event
  BY DEF Next, vars, Checkout, Stripe, Completion, Surroundings, StartCheckout,
         ReadCart, ReadBalance, Quote, CreatePaid, CreatePending,
         CreateSession, SessionRefused, StampSession, CheckoutEnds,
         DelayedResult, SessionExpires, ReconcileRead, ReconcileVerify,
         ReconcileFails, CompleteTx, CompletionFails, AdminRead, AdminWrite,
         AddLine, RemoveLine, MoveCredit, ExpireCode

LEMMA StageWriters ==
  ASSUME [Next]_vars
  PROVE  \/ \E o \in Orders :
              \/ \E u \in Users, c \in Codes \cup {None} : StartCheckout(o, u, c)
              \/ ReadCart(o) \/ ReadBalance(o)
              \/ \E fee \in ShippingFees : Quote(o, fee)
              \/ CreatePaid(o) \/ CreatePending(o) \/ CreateSession(o)
              \/ SessionRefused(o) \/ StampSession(o) \/ CheckoutEnds(o)
         \/ UNCHANGED <<stage, req>>
  BY DEF Next, vars, Checkout, Stripe, Completion, Surroundings, Submit,
         DelayedResult, SessionExpires, WebhookReceive, ReconcileRead,
         ReconcileVerify, ReconcileFails, CompleteTx, CompletionFails,
         AdminRead, AdminWrite, AddLine, RemoveLine, MoveCredit, ExpireCode

LEMMA CompletionWriters ==
  ASSUME [Next]_vars
  PROVE  \/ \E o \in Orders : \/ WebhookReceive(o)
                              \/ \E page \in Orders : ReconcileRead(page, o)
                              \/ ReconcileVerify(o) \/ ReconcileFails(o)
                              \/ CompleteTx(o) \/ CompletionFails(o)
         \/ UNCHANGED <<verifying, completing>>
  BY DEF Next, vars, Checkout, Stripe, Completion, Surroundings, StartCheckout,
         ReadCart, ReadBalance, Quote, CreatePaid, CreatePending,
         CreateSession, SessionRefused, StampSession, CheckoutEnds, Submit,
         DelayedResult, SessionExpires, AdminRead, AdminWrite, AddLine,
         RemoveLine, MoveCredit, ExpireCode

LEMMA AdminWriters ==
  ASSUME [Next]_vars, admin \in [Admins -> AdminCall],
         NEW a \in Admins, admin'[a] # NoCall
  PROVE  \/ admin'[a] = admin[a]
         \/ \E o \in Orders, s \in Statuses : AdminRead(a, o, s)
<1>1. \/ \E b \in Admins : \/ AdminWrite(b)
                           \/ \E o \in Orders, s \in Statuses : AdminRead(b, o, s)
      \/ UNCHANGED admin
  BY DEF Next, vars, Checkout, Stripe, Completion, Surroundings, StartCheckout,
         ReadCart, ReadBalance, Quote, CreatePaid, CreatePending,
         CreateSession, SessionRefused, StampSession, CheckoutEnds, Submit,
         DelayedResult, SessionExpires, WebhookReceive, ReconcileRead,
         ReconcileVerify, ReconcileFails, CompleteTx, CompletionFails,
         AddLine, RemoveLine, MoveCredit, ExpireCode
<1>2. ASSUME NEW b \in Admins, AdminWrite(b) PROVE admin'[a] = admin[a]
  BY <1>2 DEF AdminWrite
<1>3. ASSUME NEW b \in Admins, NEW o \in Orders, NEW s \in Statuses, b # a,
             AdminRead(b, o, s)
      PROVE  admin'[a] = admin[a]
  BY <1>3 DEF AdminRead
<1>4. QED
  BY <1>1, <1>2, <1>3

(***************************************************************************)
(* A new row: created where none was, by a call that has quoted.           *)
(***************************************************************************)
LEMMA NewRowFacts ==
  ASSUME IInv, NEW o \in Orders, CreatePaid(o) \/ CreatePending(o)
  PROVE  /\ order[o] = NoRow /\ ~Exists(o) /\ ~Settled(o)
         /\ debit[o] = 0 /\ session[o].state = "none" /\ event[o] = "none"
         /\ Credit(req[o]) \in Nat /\ GrandTotal(req[o]) \in Nat
<1>1. order[o] = NoRow
  BY DEF IInv, RowFollowsStage, CreatePaid, CreatePending
<1>2. ~Exists(o) /\ ~Settled(o)
  BY <1>1 DEF Exists, Settled, NoRow
<1>3. debit[o] = 0
  BY <1>2 DEF IInv, DebitedOnceWhenSettled
<1>4. session[o].state = "none"
  BY <1>2 DEF IInv, PaymentFollowsSession
<1>5. event[o] = "none"
  BY <1>2 DEF IInv, RowBeforeRedirect
<1>6. req[o] \in Request /\ Subtotal[req[o].lines] \in Nat
  BY PastryAssumption DEF IInv, TypeOK, Request
<1>7. Credit(req[o]) \in Nat /\ GrandTotal(req[o]) \in Nat
  BY <1>6, QuoteArithmetic
<1>8. QED
  BY <1>1, <1>2, <1>3, <1>4, <1>5, <1>7

(***************************************************************************)
(* What an administrator writes is never a first payment, and its order    *)
(* exists.                                                                 *)
(***************************************************************************)
LEMMA AdminWriteFacts ==
  ASSUME IInv, NEW a \in Admins, AdminWrite(a)
  PROVE  LET o == admin[a].order
             next == admin[a].next
         IN  /\ o \in Orders /\ Exists(o)
             /\ next \in Statuses \ {"PENDING_PAYMENT", "PAID"}
             /\ order' = [order EXCEPT ![o].status = next,
                                       ![o].stamps = @ \cup ({next} \cap Stamped)]
             /\ Behind(next) \subseteq order[o].stamps
  BY DEF IInv, StatusHasTimeline, AdminWrite

(***************************************************************************)
(* A completion runs only for an order whose Checkout page was submitted.  *)
(***************************************************************************)
LEMMA CompleteTxFacts ==
  ASSUME IInv, NEW o \in Orders, CompleteTx(o)
  PROVE  /\ Exists(o) /\ order[o].sessionId /\ event[o] # "none"
         /\ stage[o] = "returned"
         /\ session[o].state = "paid" \/ event[o] = "recorded"
<1>1. session[o].state = "paid" \/ event[o] = "recorded"
  BY DEF IInv, TypeOK, CompleteTx, PaymentFollowsSession
<1>2. event[o] # "none"
  BY <1>1 DEF IInv, PaymentFollowsSession
<1>3. QED
  BY <1>1, <1>2 DEF IInv, PaymentFollowsSession, RowBeforeRedirect

(***************************************************************************)
(* Once created, a row keeps its customer, code, credit and total; its     *)
(* timestamps and its session id are never taken back.                     *)
(***************************************************************************)
LEMMA RowKept ==
  ASSUME IInv, [Next]_vars, NEW p \in Orders,
         ~ (CreatePaid(p) \/ CreatePending(p))
  PROVE  /\ order'[p].user = order[p].user /\ order'[p].code = order[p].code
         /\ order'[p].credit = order[p].credit
         /\ order'[p].total = order[p].total
         /\ order[p].stamps \subseteq order'[p].stamps
         /\ order[p].sessionId => order'[p].sessionId
         /\ Exists(p)' <=> Exists(p)
<1>1. order \in [Orders -> OrderRow] /\ None \notin Statuses
  BY PastryAssumption DEF IInv, TypeOK
<1>2. ASSUME NEW o \in Orders, CreatePaid(o) \/ CreatePending(o)
      PROVE  order'[p] = order[p]
  BY <1>1, <1>2 DEF CreatePaid, CreatePending
<1>3. ASSUME NEW o \in Orders, SessionRefused(o)
      PROVE  /\ order' = [order EXCEPT ![o].status = "CANCELLED"]
             /\ Exists(o)
  BY <1>3 DEF SessionRefused, IInv, RowFollowsStage
<1>4. ASSUME NEW o \in Orders, StampSession(o)
      PROVE  order' = [order EXCEPT ![o].sessionId = TRUE]
  BY <1>4 DEF StampSession
<1>5. ASSUME NEW o \in Orders, CompleteTx(o)
      PROVE  /\ order' = [order EXCEPT ![o].status = "PAID",
                                       ![o].stamps = @ \cup {"PAID"},
                                       ![o].creditTx = @ \/ DueDebit(o) > 0]
             /\ Exists(o)
  BY <1>5, CompleteTxFacts DEF CompleteTx
<1>6. ASSUME NEW a \in Admins, AdminWrite(a)
      PROVE  \E o \in Orders, next \in Statuses :
               /\ Exists(o)
               /\ order' = [order EXCEPT ![o].status = next,
                                         ![o].stamps = @ \cup ({next} \cap Stamped)]
  BY <1>6, AdminWriteFacts
<1>7. QED
  <2> DEFINE Kept == /\ order'[p].user = order[p].user
                     /\ order'[p].code = order[p].code
                     /\ order'[p].credit = order[p].credit
                     /\ order'[p].total = order[p].total
                     /\ order[p].stamps \subseteq order'[p].stamps
                     /\ order[p].sessionId => order'[p].sessionId
                     /\ Exists(p)' <=> Exists(p)
  <2>1. ASSUME NEW o \in Orders, SessionRefused(o) \/ StampSession(o) PROVE Kept
    BY <1>1, <1>3, <1>4, <2>1 DEF OrderRow, Exists, Statuses
  <2>2. ASSUME NEW o \in Orders, CompleteTx(o) PROVE Kept
    <3>1. CASE p # o
      BY <1>1, <1>5, <2>2, <3>1 DEF Exists
    <3>2. CASE p = o
      <4>1. order[o] \in OrderRow /\ Exists(o)
        BY <1>1, <1>5, <2>2
      <4>2. order'[o] = [order[o] EXCEPT !.status = "PAID",
                                         !.stamps = @ \cup {"PAID"},
                                         !.creditTx = @ \/ DueDebit(o) > 0]
        BY <1>1, <1>5, <2>2
      <4>3. order'[o].status = "PAID" /\ order'[o].stamps = order[o].stamps \cup {"PAID"}
        BY <4>1, <4>2 DEF OrderRow
      <4>4. QED
        BY <1>1, <3>2, <4>1, <4>2, <4>3 DEF OrderRow, Exists, Statuses
    <3>3. QED
      BY <3>1, <3>2
  <2>3. ASSUME NEW a \in Admins, AdminWrite(a) PROVE Kept
    <3>1. PICK o \in Orders, next \in Statuses :
            /\ Exists(o)
            /\ order' = [order EXCEPT ![o].status = next,
                                      ![o].stamps = @ \cup ({next} \cap Stamped)]
      BY <1>6, <2>3
    <3>2. CASE p # o
      BY <1>1, <3>1, <3>2 DEF Exists
    <3>3. CASE p = o
      <4>1. order[o] \in OrderRow
        BY <1>1
      <4>2. order'[o] = [order[o] EXCEPT !.status = next,
                                         !.stamps = @ \cup ({next} \cap Stamped)]
        BY <1>1, <3>1
      <4>3. QED
        BY <1>1, <3>1, <3>3, <4>1, <4>2 DEF OrderRow, Exists
    <3>4. QED
      BY <3>2, <3>3
  <2>4. ASSUME order'[p] = order[p] PROVE Kept
    BY <2>4 DEF Exists
  <2>5. QED
    <3> HIDE DEF Kept
    <3>1. \/ order'[p] = order[p]
          \/ \E o \in Orders : SessionRefused(o) \/ StampSession(o) \/ CompleteTx(o)
          \/ \E a \in Admins : AdminWrite(a)
      BY <1>2, OrderWriters
    <3>2. Kept
      BY <2>1, <2>2, <2>3, <2>4, <3>1
    <3>3. QED
      BY <3>2 DEF Kept

(***************************************************************************)
(* An existing order is first paid by a completion, and by nothing else.   *)
(***************************************************************************)
LEMMA SettledBy ==
  ASSUME IInv, [Next]_vars, NEW p \in Orders,
         ~(CreatePaid(p) \/ CreatePending(p)), ~CompleteTx(p)
  PROVE  Settled(p)' => Settled(p)
<1>1. order \in [Orders -> OrderRow]
  BY DEF IInv, TypeOK
<1>2. ASSUME NEW o \in Orders, SessionRefused(o) \/ StampSession(o)
      PROVE  order'[p].stamps = order[p].stamps
  BY <1>1, <1>2 DEF SessionRefused, StampSession, OrderRow
<1>3. ASSUME NEW o \in Orders, o # p, CompleteTx(o) \/ CreatePaid(o) \/ CreatePending(o)
      PROVE  order'[p] = order[p]
  BY <1>1, <1>3 DEF CompleteTx, CreatePaid, CreatePending
<1>4. ASSUME NEW a \in Admins, AdminWrite(a)
      PROVE  "PAID" \in order'[p].stamps => "PAID" \in order[p].stamps
  <2> DEFINE o == admin[a].order
             next == admin[a].next
  <2>1. /\ next # "PAID"
        /\ order' = [order EXCEPT ![o].status = next,
                                  ![o].stamps = @ \cup ({next} \cap Stamped)]
    BY <1>4, AdminWriteFacts
  <2>2. QED
    BY <1>1, <2>1 DEF OrderRow
<1>5. QED
  BY <1>2, <1>3, <1>4, OrderWriters DEF Settled

(***************************************************************************)
(* Every step keeps promo codes and orders bound to each other: the new    *)
(* order o claims a code that no order holds.                              *)
(***************************************************************************)
LEMMA PromoStep == IInv /\ [Next]_vars => PromoBinding'
<1> SUFFICES ASSUME IInv, [Next]_vars PROVE PromoBinding'
  OBVIOUS
<1>1. TypeOK /\ PromoBinding
  BY DEF IInv
<1>2. ASSUME \A p \in Orders : order'[p].code = order[p].code,
             \A c \in Codes : promo'[c].ref = promo[c].ref /\ promo'[c].used = promo[c].used
      PROVE  PromoBinding'
  BY <1>1, <1>2, PastryAssumption DEF PromoBinding, TypeOK, OrderRow, PromoRow
<1>3. ASSUME NEW o \in Orders, CreatePaid(o) \/ CreatePending(o)
      PROVE  PromoBinding'
  <2> DEFINE c == req[o].code
  <2>1. order[o] = NoRow
    BY <1>3, NewRowFacts
  <2>2. c \in Codes \cup {None} /\ (c # None => promo[c].ref = None)
    BY <1>1, <1>3 DEF TypeOK, Request, CreatePaid, CreatePending, CanRedeem, Redeemable
  <2>3. /\ \A p \in Orders : order'[p].code = IF p = o THEN c ELSE order[p].code
        /\ \A d \in Codes : promo'[d].ref = IF d = c THEN o ELSE promo[d].ref
        /\ \A d \in Codes : promo'[d].used = IF d = c THEN promo[d].used + 1 ELSE promo[d].used
    <3>1. /\ order' = [order EXCEPT ![o] = NewRow(o, "PAID")]
             \/ order' = [order EXCEPT ![o] = NewRow(o, "PENDING_PAYMENT")]
          /\ Redeem(o, c)
      BY <1>3 DEF CreatePaid, CreatePending
    <3>2. \A p \in Orders : order'[p].code = IF p = o THEN c ELSE order[p].code
      BY <1>1, <3>1 DEF NewRow, TypeOK
    <3>3. CASE c = None
      BY <3>1, <3>2, <3>3, PastryAssumption DEF Redeem
    <3>4. CASE c # None
      BY <1>1, <2>2, <3>1, <3>2, <3>4 DEF Redeem, TypeOK, PromoRow
    <3>5. QED
      BY <3>3, <3>4
  <2>4. \A d \in Codes : promo[d].ref # o
    BY <1>1, <2>1, PastryAssumption DEF PromoBinding, NoRow
  <2>5. \A p \in Orders : order'[p].code # None => promo'[order'[p].code].ref = p
    <3>1. ASSUME NEW p \in Orders, p # o, order[p].code # None
          PROVE  promo[order[p].code].ref = p /\ order[p].code \in Codes /\ order[p].code # c
      BY <1>1, <2>2, <3>1, PastryAssumption DEF PromoBinding, TypeOK, OrderRow
    <3>2. QED
      BY <2>2, <2>3, <3>1
  <2>6. \A d \in Codes : promo'[d].ref # None => order'[promo'[d].ref].code = d
    BY <1>1, <2>3, <2>4 DEF PromoBinding, TypeOK, PromoRow
  <2>7. \A d \in Codes : promo'[d].used = IF promo'[d].ref = None THEN 0 ELSE 1
    BY <1>1, <2>2, <2>3, PastryAssumption DEF PromoBinding
  <2>8. QED
    BY <2>5, <2>6, <2>7 DEF PromoBinding
<1>4. \/ \E o \in Orders : CreatePaid(o) \/ CreatePending(o)
      \/ \A p \in Orders : order'[p].code = order[p].code
  BY RowKept
<1>5. \/ \E o \in Orders : CreatePaid(o) \/ CreatePending(o)
      \/ \A c \in Codes : promo'[c].ref = promo[c].ref /\ promo'[c].used = promo[c].used
  <2>1. ASSUME NEW c \in Codes, ExpireCode(c)
        PROVE  \A d \in Codes : promo'[d].ref = promo[d].ref /\ promo'[d].used = promo[d].used
    BY <1>1, <2>1 DEF ExpireCode, TypeOK, PromoRow
  <2>2. QED
    BY <2>1, PromoWriters
<1>6. QED
  BY <1>2, <1>3, <1>4, <1>5

(***************************************************************************)
(* Every step keeps the debit of an order tied to its first payment: a     *)
(* completion that finds a REDEMPTION row adds nothing to it.              *)
(***************************************************************************)
LEMMA DebitStep == IInv /\ [Next]_vars => DebitedOnceWhenSettled'
<1> SUFFICES ASSUME IInv, [Next]_vars PROVE DebitedOnceWhenSettled'
  OBVIOUS
<1>1. TypeOK /\ DebitedOnceWhenSettled
  BY DEF IInv
<1> DEFINE Fine(row, n) == /\ n = IF "PAID" \in row.stamps THEN row.credit ELSE 0
                           /\ row.creditTx <=> n > 0
<1>2. ASSUME \A p \in Orders : Fine(order[p], debit[p]) => Fine(order'[p], debit'[p])
      PROVE  DebitedOnceWhenSettled'
  BY <1>1, <1>2, Zenon DEF DebitedOnceWhenSettled, Settled
<1>3. ASSUME NEW o \in Orders, CreatePaid(o) PROVE DebitedOnceWhenSettled'
  <2>1. debit[o] = 0 /\ Credit(req[o]) \in Nat
    BY <1>3, NewRowFacts
  <2>2. /\ \A p \in Orders : p # o => order'[p] = order[p] /\ debit'[p] = debit[p]
        /\ order'[o] = NewRow(o, "PAID") /\ debit'[o] = Credit(req[o])
    BY <1>1, <1>3, <2>1 DEF CreatePaid, TypeOK
  <2>3. Fine(NewRow(o, "PAID"), Credit(req[o]))
    BY <2>1 DEF NewRow
  <2>4. QED
    BY <1>2, <2>2, <2>3
<1>4. ASSUME NEW o \in Orders, CreatePending(o) PROVE DebitedOnceWhenSettled'
  <2>1. debit[o] = 0
    BY <1>4, NewRowFacts
  <2>2. /\ \A p \in Orders : p # o => order'[p] = order[p]
        /\ order'[o] = NewRow(o, "PENDING_PAYMENT") /\ debit' = debit
    BY <1>1, <1>4 DEF CreatePending, TypeOK
  <2>3. Fine(NewRow(o, "PENDING_PAYMENT"), 0)
    <3>1. NewRow(o, "PENDING_PAYMENT").stamps = {"PENDING_PAYMENT"} \cap {"PAID"}
      BY DEF NewRow
    <3>2. ~ NewRow(o, "PENDING_PAYMENT").creditTx
      BY DEF NewRow
    <3>3. QED
      BY <3>1, <3>2
  <2>4. QED
    BY <1>2, <2>1, <2>2, <2>3
<1>5. ASSUME NEW o \in Orders, SessionRefused(o) \/ StampSession(o)
      PROVE  DebitedOnceWhenSettled'
  <2>1. debit' = debit
    BY <1>5 DEF SessionRefused, StampSession
  <2>2. \/ order' = [order EXCEPT ![o].status = "CANCELLED"]
        \/ order' = [order EXCEPT ![o].sessionId = TRUE]
    BY <1>5 DEF SessionRefused, StampSession
  <2>3. \A p \in Orders : /\ order'[p].credit = order[p].credit
                          /\ order'[p].stamps = order[p].stamps
                          /\ order'[p].creditTx = order[p].creditTx
    BY <1>1, <2>2 DEF TypeOK, OrderRow
  <2>4. QED
    BY <1>2, <2>1, <2>3
<1>6. ASSUME NEW o \in Orders, CompleteTx(o) PROVE DebitedOnceWhenSettled'
  <2>1. debit[o] \in Nat /\ order[o].credit \in Nat /\ order[o].creditTx \in BOOLEAN
    BY <1>1 DEF TypeOK, OrderRow
  <2>2. /\ \A p \in Orders : p # o => order'[p] = order[p] /\ debit'[p] = debit[p]
        /\ order'[o].credit = order[o].credit
        /\ order'[o].stamps = order[o].stamps \cup {"PAID"}
        /\ debit'[o] = debit[o] + DueDebit(o)
    BY <1>1, <1>6 DEF CompleteTx, TypeOK, OrderRow
  <2>3. order'[o].creditTx <=> order[o].creditTx \/ DueDebit(o) > 0
    BY <1>1, <1>6 DEF CompleteTx, TypeOK, OrderRow
  <2>4. ASSUME Fine(order[o], debit[o]) PROVE Fine(order'[o], debit'[o])
    <3>1. debit'[o] = order[o].credit
      BY <2>1, <2>2, <2>4 DEF DueDebit
    <3>2. order'[o].creditTx <=> debit'[o] > 0
      BY <2>1, <2>2, <2>3, <2>4, <3>1 DEF DueDebit
    <3>3. QED
      BY <2>2, <3>1, <3>2
  <2>5. QED
    BY <1>2, <2>2, <2>4
<1>7. ASSUME NEW a \in Admins, AdminWrite(a) PROVE DebitedOnceWhenSettled'
  <2> DEFINE o == admin[a].order
             next == admin[a].next
  <2>1. /\ order' = [order EXCEPT ![o].status = next,
                                  ![o].stamps = @ \cup ({next} \cap Stamped)]
        /\ next # "PAID" /\ debit' = debit
    BY <1>7, AdminWriteFacts DEF AdminWrite
  <2>2. \A p \in Orders : /\ order'[p].credit = order[p].credit
                          /\ order'[p].creditTx = order[p].creditTx
                          /\ "PAID" \in order'[p].stamps <=> "PAID" \in order[p].stamps
    BY <1>1, <2>1 DEF TypeOK, OrderRow
  <2>3. QED
    BY <1>2, <2>1, <2>2
<1>8. CASE UNCHANGED <<order, debit>>
  BY <1>2, <1>8
<1>9. QED
  BY <1>3, <1>4, <1>5, <1>6, <1>7, <1>8, OrderWriters

(***************************************************************************)
(* A call that has begun keeps its customer, and its quote never changes   *)
(* once the cart and the balance have been read.                           *)
(***************************************************************************)
LEMMA CallKept ==
  ASSUME IInv, [Next]_vars, NEW p \in Orders, stage[p] # "idle"
  PROVE  /\ stage'[p] # "idle"
         /\ req'[p].user = req[p].user
         /\ stage[p] # "viewing" => req'[p] = req[p]
<1>1. stage \in [Orders -> Stages] /\ req \in [Orders -> Request]
  BY DEF IInv, TypeOK
<1>2. ASSUME NEW o \in Orders, NEW u \in Users, NEW c \in Codes \cup {None},
             StartCheckout(o, u, c)
      PROVE  req'[p] = req[p] /\ stage'[p] = stage[p]
  BY <1>1, <1>2 DEF StartCheckout
<1>3. ASSUME NEW o \in Orders, ReadCart(o) \/ ReadBalance(o)
      PROVE  /\ stage'[p] = stage[p] /\ req'[p].user = req[p].user
             /\ stage[p] # "viewing" => req'[p] = req[p]
  BY <1>1, <1>3 DEF ReadCart, ReadBalance, Request
<1>4. ASSUME NEW o \in Orders, NEW fee \in ShippingFees, Quote(o, fee)
      PROVE  /\ stage'[p] # "idle" /\ req'[p].user = req[p].user
             /\ stage[p] # "viewing" => req'[p] = req[p]
  BY <1>1, <1>4 DEF Quote, Request
<1>5. ASSUME NEW o \in Orders,
             \/ CreatePaid(o) \/ CreatePending(o) \/ CreateSession(o)
             \/ SessionRefused(o) \/ StampSession(o) \/ CheckoutEnds(o)
      PROVE  stage'[p] # "idle" /\ req' = req
  BY <1>1, <1>5 DEF CreatePaid, CreatePending, CreateSession, SessionRefused,
                    StampSession, CheckoutEnds
<1>6. QED
  BY <1>2, <1>3, <1>4, <1>5, StageWriters

(***************************************************************************)
(* How the stage of a call moves.                                          *)
(***************************************************************************)
LEMMA StageMoves ==
  ASSUME IInv, [Next]_vars, NEW p \in Orders
  PROVE  \/ stage'[p] = stage[p]
         \/ \E u \in Users, c \in Codes \cup {None} : StartCheckout(p, u, c)
         \/ \E fee \in ShippingFees : Quote(p, fee)
         \/ CreatePaid(p) \/ CreatePending(p) \/ CreateSession(p)
         \/ SessionRefused(p) \/ StampSession(p) \/ CheckoutEnds(p)
<1>1. stage \in [Orders -> Stages]
  BY DEF IInv, TypeOK
<1>2. ASSUME NEW o \in Orders, o # p,
             \/ \E u \in Users, c \in Codes \cup {None} : StartCheckout(o, u, c)
             \/ \E fee \in ShippingFees : Quote(o, fee)
             \/ CreatePaid(o) \/ CreatePending(o) \/ CreateSession(o)
             \/ SessionRefused(o) \/ StampSession(o) \/ CheckoutEnds(o)
      PROVE  stage'[p] = stage[p]
  BY <1>1, <1>2 DEF StartCheckout, Quote, CreatePaid, CreatePending,
       CreateSession, SessionRefused, StampSession, CheckoutEnds
<1>3. ASSUME NEW o \in Orders, ReadCart(o) \/ ReadBalance(o)
      PROVE  stage' = stage
  BY <1>3 DEF ReadCart, ReadBalance
<1>4. QED
  BY <1>2, <1>3, StageWriters

(***************************************************************************)
(* Every step keeps the customer of a call and of its order.               *)
(***************************************************************************)
LEMMA UserStep == IInv /\ [Next]_vars => CallHasUser'
<1> SUFFICES ASSUME IInv, [Next]_vars, NEW p \in Orders
             PROVE  /\ stage'[p] # "idle" => req'[p].user \in Users
                    /\ Exists(p)' => stage'[p] # "idle" /\ order'[p].user = req'[p].user
  BY DEF CallHasUser, Exists
<1>1. CallHasUser /\ stage \in [Orders -> Stages] /\ req \in [Orders -> Request]
      /\ order \in [Orders -> OrderRow]
  BY DEF IInv, TypeOK
<1>2. CASE stage[p] # "idle" /\ ~(CreatePaid(p) \/ CreatePending(p))
  BY <1>1, <1>2, CallKept, RowKept DEF CallHasUser
<1>3. CASE CreatePaid(p) \/ CreatePending(p)
  <2>1. order'[p].user = req[p].user /\ req' = req /\ stage[p] = "quoted"
    BY <1>1, <1>3 DEF CreatePaid, CreatePending, NewRow
  <2>2. QED
    BY <1>1, <2>1, CallKept DEF CallHasUser
<1>4. CASE stage[p] = "idle" /\ ~(CreatePaid(p) \/ CreatePending(p))
  <2>1. ~ Exists(p)'
    BY <1>1, <1>4, RowKept DEF CallHasUser
  <2>2. ASSUME stage'[p] # "idle" PROVE req'[p].user \in Users
    <3>1. \E u \in Users, c \in Codes \cup {None} : StartCheckout(p, u, c)
      BY <1>4, <2>2, StageMoves DEF Quote, CreatePaid, CreatePending, CreateSession,
           SessionRefused, StampSession, CheckoutEnds, InFlight
    <3>2. QED
      BY <1>1, <3>1 DEF StartCheckout, Request
  <2>3. QED
    BY <2>1, <2>2
<1>5. QED
  BY <1>2, <1>3, <1>4

(***************************************************************************)
(* Every step keeps a row in agreement with the call that created it.      *)
(***************************************************************************)
LEMMA RowStep == IInv /\ [Next]_vars => RowFollowsStage'
<1> SUFFICES ASSUME IInv, [Next]_vars, NEW p \in Orders
             PROVE  /\ stage'[p] \in {"idle", "viewing", "quoted"} => order'[p] = NoRow
                    /\ stage'[p] \in {"created", "charged", "returned"} => Exists(p)'
                    /\ stage'[p] = "created" => order'[p].total = GrandTotal(req'[p])
                              /\ order'[p].total > 0 /\ ~Settled(p)'
                    /\ ~Exists(p)' => order'[p] = NoRow /\ stage'[p] # "returned"
  BY DEF RowFollowsStage, Exists, Settled, GrandTotal, AfterPromo, Credit, Discount
<1>1. RowFollowsStage /\ stage \in [Orders -> Stages]
      /\ order \in [Orders -> OrderRow] /\ None \notin Statuses
  BY PastryAssumption DEF IInv, TypeOK
<1>2. CASE CreatePaid(p)
  <2>1. order'[p] = NewRow(p, "PAID") /\ stage'[p] = "returned"
    BY <1>1, <1>2 DEF CreatePaid
  <2>2. order'[p].status = "PAID"
    BY <2>1 DEF NewRow
  <2>3. QED
    BY <1>1, <2>1, <2>2 DEF Exists, Statuses
<1>3. CASE CreatePending(p)
  <2>1. order'[p] = NewRow(p, "PENDING_PAYMENT") /\ stage'[p] = "created" /\ req' = req
    BY <1>1, <1>3 DEF CreatePending
  <2>2. order'[p].status = "PENDING_PAYMENT" /\ order'[p].total = GrandTotal(req[p])
        /\ order'[p].stamps = {"PENDING_PAYMENT"} \cap {"PAID"}
    BY <2>1 DEF NewRow
  <2>3. GrandTotal(req[p]) > 0
    <3>1. GrandTotal(req[p]) \in Nat
      BY <1>3, NewRowFacts
    <3>2. GrandTotal(req[p]) # 0
      BY <1>3 DEF CreatePending
    <3>3. QED
      BY <3>1, <3>2
  <2>4. QED
    BY <1>1, <2>1, <2>2, <2>3 DEF Exists, Settled, Statuses
<1>4. CASE ~(CreatePaid(p) \/ CreatePending(p))
  <2>1. /\ Exists(p)' <=> Exists(p)
        /\ order'[p].total = order[p].total
    BY <1>4, RowKept
  <2>2. ASSUME ~Exists(p) PROVE order'[p] = NoRow
    <3>1. order[p] = NoRow
      BY <1>1, <2>2 DEF RowFollowsStage
    <3>2. ASSUME NEW o \in Orders, SessionRefused(o) \/ StampSession(o) \/ CompleteTx(o)
          PROVE  order'[p] = order[p]
      <4>1. o # p
        BY <2>2, <3>2, CompleteTxFacts DEF IInv, RowFollowsStage, SessionRefused, StampSession
      <4>2. QED
        BY <1>1, <3>2, <4>1 DEF SessionRefused, StampSession, CompleteTx
    <3>3. ASSUME NEW a \in Admins, AdminWrite(a) PROVE order'[p] = order[p]
      BY <1>1, <2>2, <3>3, AdminWriteFacts
    <3>4. ASSUME NEW o \in Orders, CreatePaid(o) \/ CreatePending(o)
          PROVE  order'[p] = order[p]
      BY <1>1, <1>4, <3>4 DEF CreatePaid, CreatePending
    <3>5. QED
      BY <3>1, <3>2, <3>3, <3>4, OrderWriters
  <2>3. stage'[p] = "created" => stage[p] = "created" /\ req'[p] = req[p]
    <3>1. stage'[p] = "created" => stage[p] = "created"
      BY <1>1, <1>4, StageMoves DEF StartCheckout, Quote, CreateSession,
           SessionRefused, StampSession, CheckoutEnds
    <3>2. QED
      BY <3>1, CallKept
  <2>4. ASSUME stage'[p] = "created" PROVE ~Settled(p)'
    <3>1. stage[p] = "created" /\ ~Settled(p)
      BY <1>1, <2>3, <2>4 DEF RowFollowsStage
    <3>2. QED
      BY <1>4, <3>1, CompleteTxFacts, SettledBy
  <2>5. stage'[p] \in {"idle", "viewing", "quoted"} => ~Exists(p)
    <3>1. order[p] = NoRow => ~Exists(p)
      BY DEF Exists, NoRow
    <3>2. stage'[p] \in {"idle", "viewing", "quoted"} =>
            stage[p] \in {"idle", "viewing", "quoted"}
      BY <1>1, <1>4, StageMoves DEF StartCheckout, Quote, CreateSession,
           SessionRefused, StampSession, CheckoutEnds
    <3>3. QED
      BY <1>1, <3>1, <3>2 DEF RowFollowsStage
  <2>6. stage'[p] \in {"created", "charged", "returned"} => Exists(p)
    BY <1>1, <1>4, StageMoves DEF RowFollowsStage, StartCheckout, Quote,
         CreateSession, SessionRefused, StampSession, CheckoutEnds
  <2>7. QED
    BY <1>1, <2>1, <2>2, <2>3, <2>4, <2>5, <2>6 DEF RowFollowsStage
<1>5. QED
  BY <1>2, <1>3, <1>4

(***************************************************************************)
(* Every step keeps timestamps behind each status and each pending write.  *)
(***************************************************************************)
LEMMA TimelineStep == IInv /\ [Next]_vars => StatusHasTimeline' /\ TimelineComplete'
<1> SUFFICES ASSUME IInv, [Next]_vars
             PROVE  StatusHasTimeline' /\ TimelineComplete'
  OBVIOUS
<1>1. StatusHasTimeline /\ TimelineComplete
      /\ order \in [Orders -> OrderRow] /\ admin \in [Admins -> AdminCall]
      /\ None \notin Statuses
  BY PastryAssumption DEF IInv, TypeOK
<1> DEFINE Complete(at) == /\ "SHIPPED" \in at => "READY" \in at
                           /\ "DELIVERED" \in at => "READY" \in at
                           /\ "READY" \in at => "PREPARING" \in at
                           /\ "PREPARING" \in at => "PAID" \in at
           Sound(row) == /\ row.status \in Stamped \ {"CANCELLED"} => row.status \in row.stamps
                         /\ Complete(row.stamps)
<1>2. ASSUME NEW p \in Orders PROVE Sound(order'[p])
  <2>1. Sound(order[p]) /\ order[p] \in OrderRow
    BY <1>1 DEF StatusHasTimeline, TimelineComplete
  <2>2. CASE CreatePaid(p) \/ CreatePending(p)
    <3>1. \E s \in {"PAID", "PENDING_PAYMENT"} : order'[p] = NewRow(p, s)
      BY <1>1, <2>2 DEF CreatePaid, CreatePending
    <3>2. \E s \in {"PAID", "PENDING_PAYMENT"} :
            order'[p].status = s /\ order'[p].stamps = {s} \cap {"PAID"}
      BY <3>1 DEF NewRow
    <3>3. QED
      BY <3>2 DEF Stamped, Statuses
  <2>3. CASE SessionRefused(p) \/ StampSession(p)
    <3>1. /\ order'[p].stamps = order[p].stamps
          /\ order'[p].status \in {order[p].status, "CANCELLED"}
      BY <1>1, <2>3 DEF SessionRefused, StampSession, OrderRow
    <3>2. QED
      BY <2>1, <3>1
  <2>4. CASE CompleteTx(p)
    <3>1. order'[p] = [order[p] EXCEPT !.status = "PAID", !.stamps = @ \cup {"PAID"},
                                       !.creditTx = @ \/ DueDebit(p) > 0]
      BY <1>1, <2>4 DEF CompleteTx
    <3>2. order'[p].status = "PAID" /\ order'[p].stamps = order[p].stamps \cup {"PAID"}
      BY <2>1, <3>1 DEF OrderRow
    <3>3. QED
      BY <2>1, <3>2
  <2>5. ASSUME NEW a \in Admins, AdminWrite(a), admin[a].order = p
        PROVE  Sound(order'[p])
    <3> DEFINE next == admin[a].next
    <3>1. /\ order' = [order EXCEPT ![p].status = next,
                                    ![p].stamps = @ \cup ({next} \cap Stamped)]
          /\ Behind(next) \subseteq order[p].stamps
      BY <2>5, AdminWriteFacts
    <3>2. order'[p].status = next /\ order'[p].stamps = order[p].stamps \cup ({next} \cap Stamped)
      BY <1>1, <2>1, <3>1 DEF OrderRow
    <3>3. /\ next = "READY" => "PREPARING" \in order[p].stamps
          /\ next \in {"SHIPPED", "DELIVERED"} => "READY" \in order[p].stamps
          /\ next = "PREPARING" => "PAID" \in order[p].stamps
      BY <3>1 DEF Behind
    <3>4. QED
      BY <2>1, <3>2, <3>3
  <2>6. ASSUME NEW o \in Orders, o # p,
               \/ CreatePaid(o) \/ CreatePending(o) \/ SessionRefused(o)
               \/ StampSession(o) \/ CompleteTx(o)
        PROVE  order'[p] = order[p]
    BY <1>1, <2>6 DEF CreatePaid, CreatePending, SessionRefused, StampSession, CompleteTx
  <2>7. ASSUME NEW a \in Admins, AdminWrite(a), admin[a].order # p
        PROVE  order'[p] = order[p]
    BY <1>1, <2>7 DEF AdminWrite
  <2>8. QED
    <3> HIDE DEF Sound
    <3> QED
      BY <2>1, <2>2, <2>3, <2>4, <2>5, <2>6, <2>7, OrderWriters
<1>3. ASSUME NEW a \in Admins, admin'[a] # NoCall
      PROVE  /\ admin'[a].order \in Orders
             /\ admin'[a].next \in Statuses \ {"PENDING_PAYMENT", "PAID"}
             /\ Behind(admin'[a].next) \subseteq order'[admin'[a].order].stamps
             /\ order'[admin'[a].order].status # None
  <2> DEFINE o == admin'[a].order
             next == admin'[a].next
  <2>1. /\ o \in Orders /\ next \in Statuses \ {"PENDING_PAYMENT", "PAID"}
        /\ Behind(next) \subseteq order[o].stamps /\ Exists(o)
    <3>1. \/ admin'[a] = admin[a]
          \/ \E q \in Orders, s \in Statuses : AdminRead(a, q, s)
      BY <1>1, <1>3, AdminWriters
    <3>2. ASSUME admin'[a] # admin[a]
          PROVE  o \in Orders /\ next \in AllowedTransitions(order[o].status)
      BY <1>1, <3>1, <3>2 DEF AdminRead
    <3>3. ASSUME NEW q \in Orders, NEW s \in AllowedTransitions(order[q].status)
          PROVE  /\ s \in Statuses \ {"PENDING_PAYMENT", "PAID"}
                 /\ Behind(s) \subseteq order[q].stamps
                 /\ Exists(q)
      <4>1. /\ order[q].status \in Stamped \ {"CANCELLED"} => order[q].status \in order[q].stamps
            /\ Complete(order[q].stamps)
        BY <1>1 DEF StatusHasTimeline, TimelineComplete
      <4>2. order[q].status \in Statuses \ {"CANCELLED", "REFUNDED"}
        BY <1>1, <3>3 DEF AllowedTransitions, OrderRow, Statuses
      <4>3. QED
        BY <1>1, <3>3, <4>1, <4>2 DEF AllowedTransitions, Behind, Stamped, Statuses, Exists
    <3>4. CASE admin'[a] = admin[a]
      BY <1>1, <1>3, <3>4 DEF StatusHasTimeline
    <3>5. QED
      BY <3>2, <3>3, <3>4
  <2>2. ASSUME NEW q \in Orders, Exists(q)
        PROVE  order[q].stamps \subseteq order'[q].stamps /\ order'[q].status # None
    <3>1. ~(CreatePaid(q) \/ CreatePending(q))
      BY <2>2, NewRowFacts
    <3>2. QED
      BY <2>2, <3>1, RowKept DEF Exists
  <2>3. QED
    BY <2>1, <2>2
<1>4. TimelineComplete'
  BY <1>2 DEF TimelineComplete
<1>5. StatusHasTimeline'
  <2>1. \A p \in Orders : order'[p].status \in Stamped \ {"CANCELLED"} =>
          order'[p].status \in order'[p].stamps
    BY <1>2
  <2>2. QED
    BY <1>3, <2>1 DEF StatusHasTimeline, Exists
<1>6. QED
  BY <1>4, <1>5

(***************************************************************************)
(* How the Stripe session of an order and its event move.                  *)
(***************************************************************************)
LEMMA SessionMoves ==
  ASSUME IInv, [Next]_vars, NEW p \in Orders
  PROVE  \/ session'[p] = session[p] /\ event'[p] = event[p]
         \/ CreateSession(p) /\ event'[p] = event[p]
            /\ session'[p] = [state |-> "open", amount |-> Charge(req[p])]
         \/ /\ \E s \in {"paid", "unpaid"} : Submit(p, s) /\ session'[p].state = s
            /\ session'[p].amount = session[p].amount /\ event'[p] = "sent"
         \/ /\ \E s \in {"paid", "failed"} : DelayedResult(p, s) /\ session'[p].state = s
            /\ session'[p].amount = session[p].amount /\ event'[p] = event[p]
         \/ /\ SessionExpires(p) /\ session'[p].state = "expired"
            /\ session'[p].amount = session[p].amount /\ event'[p] = event[p]
         \/ WebhookReceive(p) /\ session'[p] = session[p] /\ event'[p] = "recorded"
<1>1. session \in [Orders -> Session] /\ event \in [Orders -> {"none", "sent", "recorded"}]
  BY DEF IInv, TypeOK
<1>2. ASSUME NEW o \in Orders, o # p,
             \/ CreateSession(o) \/ SessionExpires(o) \/ WebhookReceive(o)
             \/ \E s \in {"paid", "unpaid"} : Submit(o, s)
             \/ \E s \in {"paid", "failed"} : DelayedResult(o, s)
      PROVE  session'[p] = session[p] /\ event'[p] = event[p]
  BY <1>1, <1>2 DEF CreateSession, SessionExpires, WebhookReceive, Submit, DelayedResult
<1>3. CASE CreateSession(p)
  BY <1>1, <1>3 DEF CreateSession
<1>4. ASSUME NEW s \in {"paid", "unpaid"}, Submit(p, s)
      PROVE  /\ session'[p].state = s /\ session'[p].amount = session[p].amount
             /\ event'[p] = "sent"
  BY <1>1, <1>4 DEF Submit, Session
<1>5. ASSUME NEW s \in {"paid", "failed"}, DelayedResult(p, s)
      PROVE  /\ session'[p].state = s /\ session'[p].amount = session[p].amount
             /\ event'[p] = event[p]
  BY <1>1, <1>5 DEF DelayedResult, Session
<1>6. ASSUME SessionExpires(p)
      PROVE  /\ session'[p].state = "expired" /\ session'[p].amount = session[p].amount
             /\ event'[p] = event[p]
  BY <1>1, <1>6 DEF SessionExpires, Session
<1>7. ASSUME WebhookReceive(p) PROVE session'[p] = session[p] /\ event'[p] = "recorded"
  BY <1>1, <1>7 DEF WebhookReceive
<1>8. \/ session'[p] = session[p] /\ event'[p] = event[p]
      \/ CreateSession(p) \/ SessionExpires(p) \/ WebhookReceive(p)
      \/ \E s \in {"paid", "unpaid"} : Submit(p, s)
      \/ \E s \in {"paid", "failed"} : DelayedResult(p, s)
  BY <1>2, SessionWriters, EventWriters
<1>9. QED
  BY <1>3, <1>4, <1>5, <1>6, <1>7, <1>8

(***************************************************************************)
(* A paid session and a recorded event stay so.                            *)
(***************************************************************************)
LEMMA StillRecorded ==
  ASSUME IInv, [Next]_vars, NEW p \in Orders
  PROVE  /\ session[p].state = "paid" => session'[p].state = "paid"
         /\ event[p] = "recorded" => event'[p] = "recorded"
<1>1. /\ session[p].state # "none" => stage[p] # "created"
      /\ event[p] # "none" => session[p].state \in {"paid", "unpaid", "failed"}
  BY DEF IInv, PaymentFollowsSession
<1>2. /\ CreateSession(p) => stage[p] = "created"
      /\ \A s \in {"paid", "unpaid"} : Submit(p, s) => session[p].state = "open"
      /\ \A s \in {"paid", "failed"} : DelayedResult(p, s) => session[p].state = "unpaid"
      /\ SessionExpires(p) => session[p].state = "open"
  BY DEF CreateSession, Submit, DelayedResult, SessionExpires
<1>3. QED
  BY <1>1, <1>2, SessionMoves

(***************************************************************************)
(* Every step keeps money and completions behind the session.              *)
(***************************************************************************)
LEMMA PaymentStep == IInv /\ [Next]_vars => PaymentFollowsSession'
<1> SUFFICES ASSUME IInv, [Next]_vars, NEW p \in Orders
             PROVE  /\ session'[p].state # "none" =>
                         stage'[p] \in {"charged", "returned", "closed"} /\ Exists(p)'
                    /\ stage'[p] = "charged" => session'[p].state # "none"
                    /\ order'[p].sessionId => session'[p].state # "none"
                    /\ session'[p].state \notin {"none", "open", "expired"} => event'[p] # "none"
                    /\ event'[p] # "none" => session'[p].state \in {"paid", "unpaid", "failed"}
                    /\ event'[p] # "none" /\ ~DelayedMethods => session'[p].state = "paid"
                    /\ completing'[p] > 0 => session'[p].state = "paid" \/ event'[p] = "recorded"
                    /\ stage'[p] = "returned" => order'[p].sessionId \/ order'[p].total = 0
                    /\ stage'[p] # "returned" => event'[p] = "none"
  BY DEF PaymentFollowsSession, Exists
<1>1. /\ PaymentFollowsSession /\ RowFollowsStage
      /\ stage \in [Orders -> Stages] /\ order \in [Orders -> OrderRow]
      /\ session \in [Orders -> Session]
      /\ completing \in [Orders -> Nat]
  BY DEF IInv, TypeOK
<1>2. \/ stage'[p] = stage[p]
      \/ stage[p] = "idle" /\ stage'[p] = "viewing"
      \/ stage[p] = "viewing" /\ stage'[p] = "quoted"
      \/ CreatePaid(p) /\ stage[p] = "quoted" /\ stage'[p] = "returned"
      \/ CreatePending(p) /\ stage[p] = "quoted" /\ stage'[p] = "created"
      \/ CreateSession(p) /\ stage[p] = "created" /\ stage'[p] = "charged"
      \/ stage[p] = "created" /\ stage'[p] = "closed"
      \/ StampSession(p) /\ stage[p] = "charged" /\ stage'[p] = "returned"
      \/ stage[p] \in InFlight /\ stage'[p] = "closed"
  <2>1. \A u \in Users, c \in Codes \cup {None} :
          StartCheckout(p, u, c) => stage[p] = "idle" /\ stage'[p] = "viewing"
    BY <1>1 DEF StartCheckout
  <2>2. \A fee \in ShippingFees :
          Quote(p, fee) => stage[p] = "viewing" /\ stage'[p] = "quoted"
    BY <1>1 DEF Quote
  <2>3. /\ CreatePaid(p) => stage[p] = "quoted" /\ stage'[p] = "returned"
        /\ CreatePending(p) => stage[p] = "quoted" /\ stage'[p] = "created"
    BY <1>1 DEF CreatePaid, CreatePending
  <2>4. /\ CreateSession(p) => stage[p] = "created" /\ stage'[p] = "charged"
        /\ SessionRefused(p) => stage[p] = "created" /\ stage'[p] = "closed"
        /\ StampSession(p) => stage[p] = "charged" /\ stage'[p] = "returned"
        /\ CheckoutEnds(p) => stage[p] \in InFlight /\ stage'[p] = "closed"
    BY <1>1 DEF CreateSession, SessionRefused, StampSession, CheckoutEnds
  <2>5. QED
    BY <2>1, <2>2, <2>3, <2>4, StageMoves
<1>3. CASE CreatePaid(p) \/ CreatePending(p)
  <2>1. session[p].state = "none" /\ event[p] = "none" /\ ~Exists(p)
    BY <1>3, NewRowFacts
  <2>2. session' = session /\ event' = event /\ completing' = completing
    BY <1>3 DEF CreatePaid, CreatePending
  <2>3. ~order'[p].sessionId
    <3>1. \E s \in {"PAID", "PENDING_PAYMENT"} : order'[p] = NewRow(p, s)
      BY <1>1, <1>3 DEF CreatePaid, CreatePending
    <3>2. QED
      BY <3>1 DEF NewRow
  <2>4. CASE CreatePaid(p)
    <3>1. order'[p].total = 0 /\ stage'[p] = "returned"
      BY <1>1, <2>4 DEF CreatePaid, NewRow
    <3>2. QED
      BY <1>1, <2>1, <2>2, <2>3, <3>1 DEF PaymentFollowsSession
  <2>5. CASE CreatePending(p)
    <3>1. stage'[p] = "created"
      BY <1>1, <2>5 DEF CreatePending
    <3>2. QED
      BY <1>1, <2>1, <2>2, <2>3, <3>1 DEF PaymentFollowsSession
  <2>6. QED
    BY <1>3, <2>4, <2>5
<1>4. CASE ~(CreatePaid(p) \/ CreatePending(p))
  <2>1. /\ Exists(p)' <=> Exists(p)
        /\ order'[p].total = order[p].total
        /\ order[p].sessionId => order'[p].sessionId
    BY <1>4, RowKept
  <2>2. order'[p].sessionId => order[p].sessionId \/ StampSession(p)
    <3>1. ASSUME NEW o \in Orders, \/ SessionRefused(o) \/ CompleteTx(o)
                                   \/ (StampSession(o) \/ CreatePaid(o) \/ CreatePending(o)) /\ o # p
          PROVE  order'[p].sessionId = order[p].sessionId
      <4>1. CASE o # p
        BY <1>1, <3>1, <4>1 DEF SessionRefused, StampSession, CompleteTx, CreatePaid, CreatePending
      <4>2. CASE o = p /\ SessionRefused(p)
        BY <1>1, <4>2 DEF SessionRefused, OrderRow
      <4>3. CASE o = p /\ CompleteTx(p)
        <5>1. order'[p] = [order[p] EXCEPT !.status = "PAID", !.stamps = @ \cup {"PAID"},
                                           !.creditTx = @ \/ DueDebit(p) > 0]
          BY <1>1, <4>3 DEF CompleteTx
        <5>2. order[p] \in OrderRow
          BY <1>1
        <5>3. QED
          BY <5>1, <5>2 DEF OrderRow
      <4>4. QED
        BY <3>1, <4>1, <4>2, <4>3
    <3>2. ASSUME NEW a \in Admins, AdminWrite(a)
          PROVE  order'[p].sessionId = order[p].sessionId
      <4> DEFINE o == admin[a].order
                 next == admin[a].next
      <4>1. order' = [order EXCEPT ![o].status = next,
                                   ![o].stamps = @ \cup ({next} \cap Stamped)]
        BY <3>2, AdminWriteFacts
      <4>2. QED
        BY <1>1, <4>1 DEF OrderRow
    <3>3. QED
      BY <1>4, <3>1, <3>2, OrderWriters
  <2>3. StampSession(p) => order'[p].sessionId /\ stage[p] = "charged" /\ session' = session
    BY <1>1 DEF StampSession, OrderRow
  <2>5. completing'[p] > 0 => completing[p] > 0 \/ WebhookReceive(p)
                                \/ (ReconcileVerify(p) /\ session[p].state = "paid")
    <3>1. ASSUME NEW o \in Orders, \/ \E page \in Orders : ReconcileRead(page, o)
                                   \/ ReconcileFails(o) \/ CompleteTx(o)
                                   \/ CompletionFails(o)
                                   \/ ((WebhookReceive(o) \/ ReconcileVerify(o)) /\ o # p)
          PROVE  completing'[p] > 0 => completing[p] > 0
      BY <1>1, <3>1 DEF WebhookReceive, ReconcileVerify, ReconcileFails, CompleteTx,
           CompletionFails, ReconcileRead
    <3>2. ReconcileVerify(p) => completing' = completing \/ session[p].state = "paid"
      BY DEF ReconcileVerify, SessionConfirmed
    <3>3. \/ completing' = completing
          \/ \E o \in Orders : \/ WebhookReceive(o)
                               \/ \E page \in Orders : ReconcileRead(page, o)
                               \/ ReconcileVerify(o) \/ ReconcileFails(o)
                               \/ CompleteTx(o) \/ CompletionFails(o)
      BY CompletionWriters
    <3>4. CASE completing' = completing
      BY <3>4
    <3>5. QED
      BY <3>1, <3>2, <3>3, <3>4
  <2>7. WebhookReceive(p) => event[p] = "sent"
    BY DEF WebhookReceive
  <2>8. /\ \A s \in {"paid", "unpaid"} : Submit(p, s) =>
             /\ stage[p] = "returned" /\ session[p].state = "open"
             /\ stage' = stage /\ (s = "unpaid" => DelayedMethods)
        /\ \A s \in {"paid", "failed"} : DelayedResult(p, s) =>
             session[p].state = "unpaid" /\ stage' = stage
        /\ SessionExpires(p) => session[p].state = "open" /\ stage' = stage
        /\ CreateSession(p) => stage[p] = "created" /\ stage'[p] = "charged"
    BY <1>1 DEF Submit, DelayedResult, SessionExpires, CreateSession
  <2>9. Exists(p) => stage[p] \notin {"idle", "viewing", "quoted"}
    BY <1>1 DEF RowFollowsStage, Exists, NoRow
  <2>10. /\ session[p].state # "none" =>
              stage[p] \in {"charged", "returned", "closed"} /\ Exists(p)
         /\ stage[p] = "charged" => session[p].state # "none"
         /\ order[p].sessionId => session[p].state # "none"
         /\ session[p].state \notin {"none", "open", "expired"} => event[p] # "none"
         /\ event[p] # "none" => session[p].state \in {"paid", "unpaid", "failed"}
         /\ event[p] # "none" /\ ~DelayedMethods => session[p].state = "paid"
         /\ completing[p] > 0 => session[p].state = "paid" \/ event[p] = "recorded"
         /\ stage[p] = "returned" => order[p].sessionId \/ order[p].total = 0
         /\ stage[p] # "returned" => event[p] = "none"
    BY <1>1 DEF PaymentFollowsSession
  <2>11. stage[p] \in {"created", "charged", "returned"} => Exists(p)
    BY <1>1 DEF RowFollowsStage
  <2>12. Exists(p)' => stage[p] \notin {"idle", "viewing", "quoted"}
    BY <2>1, <2>9
  <2>13. /\ session'[p].state # "none" => stage'[p] \in {"charged", "returned", "closed"}
         /\ session'[p].state # "none" => Exists(p)
         /\ session[p].state # "none" => session'[p].state # "none"
         /\ stage'[p] = "charged" => session'[p].state # "none"
    <3>1. session[p].state # "none" => session'[p].state # "none"
      BY <2>8, <2>10, SessionMoves
    <3>2. session[p].state = "none" /\ session'[p].state # "none" => CreateSession(p)
      BY <2>8, SessionMoves
    <3>3. stage'[p] = "charged" => stage[p] = "charged" \/ CreateSession(p)
      BY <1>2, <1>4
    <3>4. CreateSession(p) => session'[p].state = "open"
      BY <1>1 DEF CreateSession
    <3>5. stage[p] \in {"charged", "returned", "closed"} =>
            stage'[p] \in {"charged", "returned", "closed"}
      BY <1>2 DEF InFlight, Stages
    <3>6. QED
      BY <2>8, <2>10, <2>11, <3>1, <3>2, <3>3, <3>4, <3>5
  <2>14. /\ session'[p].state \notin {"none", "open", "expired"} => event'[p] # "none"
         /\ event'[p] # "none" => session'[p].state \in {"paid", "unpaid", "failed"}
         /\ event'[p] # "none" /\ ~DelayedMethods => session'[p].state = "paid"
         /\ event[p] # "none" => event'[p] # "none"
    <3>1. CASE session'[p] = session[p] /\ event'[p] = event[p]
      BY <2>10, <3>1
    <3>2. CASE CreateSession(p) /\ event'[p] = event[p] /\ session'[p].state = "open"
      BY <2>8, <2>10, <3>2
    <3>3. CASE event'[p] = "sent" /\ \E s \in {"paid", "unpaid"} :
                 Submit(p, s) /\ session'[p].state = s
      BY <2>8, <2>10, <3>3
    <3>4. CASE event'[p] = event[p] /\ \E s \in {"paid", "failed"} :
                 DelayedResult(p, s) /\ session'[p].state = s
      BY <2>8, <2>10, <3>4
    <3>5. CASE SessionExpires(p) /\ session'[p].state = "expired" /\ event'[p] = event[p]
      BY <2>8, <2>10, <3>5
    <3>6. CASE WebhookReceive(p) /\ session'[p] = session[p] /\ event'[p] = "recorded"
      BY <2>7, <2>10, <3>6
    <3>7. CreateSession(p) => session'[p].state = "open"
      BY <1>1 DEF CreateSession
    <3>8. QED
      BY <3>1, <3>2, <3>3, <3>4, <3>5, <3>6, <3>7, SessionMoves
  <2>15. order'[p].sessionId => session'[p].state # "none"
    <3>1. StampSession(p) => session[p].state # "none"
      BY <2>3, <2>10
    <3>2. QED
      BY <2>1, <2>2, <2>10, <2>13, <3>1
  <2>16. completing'[p] > 0 => session'[p].state = "paid" \/ event'[p] = "recorded"
    <3>1. WebhookReceive(p) => event'[p] = "recorded"
      BY DEF IInv, TypeOK, WebhookReceive
    <3>2. QED
      BY <2>5, <2>10, <3>1, StillRecorded
  <2>17. /\ stage'[p] = "returned" => order'[p].sessionId \/ order'[p].total = 0
         /\ stage'[p] # "returned" => event'[p] = "none"
    BY <1>2, <1>4, <2>1, <2>3, <2>7, <2>8, <2>10, SessionMoves DEF InFlight, Stages
  <2>18. QED
    BY <2>1, <2>13, <2>14, <2>15, <2>16, <2>17
<1>5. QED
  BY <1>3, <1>4

(***************************************************************************)
(* Every step keeps the charge equal to the total, the submitted page      *)
(* recorded and the paid order funded, or submitted.                       *)
(***************************************************************************)
LEMMA ChargeStep == IInv /\ [Next]_vars => ChargeMatchesTotal'
<1> SUFFICES ASSUME IInv, [Next]_vars, NEW p \in Orders, session'[p].state # "none"
             PROVE  session'[p].amount = order'[p].total /\ order'[p].total > 0
  BY DEF ChargeMatchesTotal
<1>1. CASE session[p].state # "none"
  <2>1. session[p].amount = order[p].total /\ order[p].total > 0
    BY <1>1 DEF IInv, ChargeMatchesTotal
  <2>2. order'[p].total = order[p].total
    BY <1>1, NewRowFacts, RowKept
  <2>3. ~CreateSession(p)
    BY <1>1 DEF IInv, PaymentFollowsSession, CreateSession
  <2>4. session'[p].amount = session[p].amount
    BY <2>3, SessionMoves
  <2>5. QED
    BY <2>1, <2>2, <2>4
<1>2. CASE session[p].state = "none"
  <2>1. CreateSession(p) /\ session'[p] = [state |-> "open", amount |-> Charge(req[p])]
    BY <1>2, SessionMoves DEF Submit, DelayedResult, SessionExpires
  <2>2. order' = order /\ stage[p] = "created"
    BY <2>1 DEF CreateSession
  <2>3. order[p].total = GrandTotal(req[p]) /\ order[p].total > 0
    BY <2>2 DEF IInv, RowFollowsStage
  <2>4. Charge(req[p]) = GrandTotal(req[p])
    BY QuoteArithmetic DEF IInv, TypeOK
  <2>5. QED
    BY <2>1, <2>2, <2>3, <2>4
<1>3. QED
  BY <1>1, <1>2

LEMMA RedirectStep == IInv /\ [Next]_vars => RowBeforeRedirect'
<1> SUFFICES ASSUME IInv, [Next]_vars, NEW p \in Orders, event'[p] # "none"
             PROVE  order'[p].sessionId /\ Exists(p)'
  BY DEF RowBeforeRedirect, Exists
<1>1. CASE event[p] # "none"
  <2>1. order[p].sessionId /\ Exists(p)
    BY <1>1 DEF IInv, RowBeforeRedirect
  <2>2. QED
    BY <2>1, NewRowFacts, RowKept
<1>2. CASE event[p] = "none"
  <2>1. stage[p] = "returned" /\ session[p].state = "open" /\ order' = order
    BY <1>2, SessionMoves DEF Submit, WebhookReceive
  <2>2. order[p].sessionId /\ Exists(p)
    BY <2>1 DEF IInv, PaymentFollowsSession, ChargeMatchesTotal
  <2>3. QED
    BY <2>1, <2>2 DEF Exists
<1>3. QED
  BY <1>1, <1>2

LEMMA FundedStep == IInv /\ [Next]_vars => PaidIsFunded'
<1> DEFINE Funded(p) == order[p].total = 0 \/ session[p].state = "paid" \/ SubmittedUnpaid(p)
<1> SUFFICES ASSUME IInv, [Next]_vars, NEW p \in Orders, Settled(p)'
             PROVE  Funded(p)'
  BY DEF PaidIsFunded
<1>1. /\ order \in [Orders -> OrderRow]
      /\ event[p] # "none" => session[p].state \in {"paid", "unpaid", "failed"}
      /\ event[p] # "none" /\ ~DelayedMethods => session[p].state = "paid"
      /\ event'[p] # "none" => session'[p].state \in {"paid", "unpaid", "failed"}
      /\ event'[p] # "none" /\ ~DelayedMethods => session'[p].state = "paid"
      /\ session[p].state = "paid" => event[p] # "none"
  BY PaymentStep DEF IInv, TypeOK, PaymentFollowsSession
<1>2. CASE CreatePaid(p)
  BY <1>1, <1>2 DEF CreatePaid, NewRow
<1>3. CASE CreatePending(p)
  <2>1. order'[p] = NewRow(p, "PENDING_PAYMENT")
    BY <1>1, <1>3 DEF CreatePending
  <2>2. order'[p].stamps = {"PENDING_PAYMENT"} \cap {"PAID"}
    BY <2>1 DEF NewRow
  <2>3. QED
    BY <2>2 DEF Settled
<1>4. CASE ~(CreatePaid(p) \/ CreatePending(p)) /\ ~CompleteTx(p)
  <2>1. order[p].total = 0 \/ session[p].state = "paid" \/ SubmittedUnpaid(p)
    BY <1>4, SettledBy DEF IInv, PaidIsFunded
  <2>2. order'[p].total = order[p].total
    BY <1>4, RowKept
  <2>3. CASE event[p] = "none"
    BY <1>1, <2>1, <2>2, <2>3 DEF SubmittedUnpaid
  <2>4. CASE event[p] # "none"
    <3>1. /\ session[p].state = "paid" => session'[p].state = "paid"
          /\ event[p] = "recorded" => event'[p] = "recorded"
      BY <2>4, StillRecorded
    <3> QED
      BY <1>1, <2>1, <2>2, <3>1 DEF SubmittedUnpaid
  <2>5. QED
    BY <2>3, <2>4
<1>5. CASE CompleteTx(p)
  <2>1. /\ session' = session /\ event' = event /\ event[p] # "none"
        /\ session[p].state = "paid" \/ event[p] = "recorded"
    BY <1>5, CompleteTxFacts DEF CompleteTx
  <2>2. QED
    BY <1>1, <2>1 DEF SubmittedUnpaid
<1>6. QED
  BY <1>2, <1>3, <1>4, <1>5

(***************************************************************************)
(* IInv is inductive.                                                      *)
(***************************************************************************)
LEMMA InvStep == IInv /\ [Next]_vars => IInv'
<1> SUFFICES ASSUME IInv, [Next]_vars PROVE IInv'
  OBVIOUS
<1>1. TypeOK'
  BY TypeStep DEF IInv
<1>2. CallHasUser' /\ RowFollowsStage' /\ PaymentFollowsSession'
  BY UserStep, RowStep, PaymentStep
<1>3. StatusHasTimeline' /\ TimelineComplete'
  BY TimelineStep
<1>4. PromoBinding' /\ DebitedOnceWhenSettled'
  BY PromoStep, DebitStep
<1>5. ChargeMatchesTotal' /\ RowBeforeRedirect' /\ PaidIsFunded'
  BY ChargeStep, RedirectStep, FundedStep
<1>6. QED
  BY <1>1, <1>2, <1>3, <1>4, <1>5 DEF IInv

(***************************************************************************)
(* IInv, the strengthening of the theorems below, holds in every state:    *)
(* the calls know their customers, the rows follow the calls, money follows*)
(* the session, and what an administrator is about to write was allowed.   *)
(***************************************************************************)
THEOREM Invariant == Spec => []IInv
  BY InvInit, InvStep, PTL DEF Spec

(***************************************************************************)
(* PastryOrders is type correct.                                           *)
(***************************************************************************)
THEOREM TypeCorrect == Spec => []TypeOK
<1>1. IInv => TypeOK
  BY DEF IInv
<1>2. QED
  BY <1>1, Invariant, PTL

(***************************************************************************)
(* Whatever the interleaving of checkouts, a promo code is spent on at     *)
(* most one order, and every order that names a code is the one it was     *)
(* spent on.                                                               *)
(***************************************************************************)
THEOREM PromoSpentOnce == Spec => []PromoBinding
<1>1. IInv => PromoBinding
  BY DEF IInv
<1>2. QED
  BY <1>1, Invariant, PTL

(***************************************************************************)
(* However many webhook deliveries, reconcile calls and administrators     *)
(* race, the credit of an order is debited once and in full, when the      *)
(* order is first paid and not before.                                     *)
(***************************************************************************)
THEOREM CreditDebitedOnce == Spec => []DebitedOnceWhenSettled
<1>1. IInv => DebitedOnceWhenSettled
  BY DEF IInv
<1>2. QED
  BY <1>1, Invariant, PTL

(***************************************************************************)
(* No interleaving of administrators and completions leaves a gap in the   *)
(* timeline of an order.                                                   *)
(***************************************************************************)
THEOREM TimelineNeverSkips == Spec => []TimelineComplete
<1>1. IInv => TimelineComplete
  BY DEF IInv
<1>2. QED
  BY <1>1, Invariant, PTL

(***************************************************************************)
(* For every price list, promo code and balance, Stripe is asked for the   *)
(* total stored on the order.                                              *)
(***************************************************************************)
THEOREM ChargedAsQuoted == Spec => []ChargeMatchesTotal
<1>1. IInv => ChargeMatchesTotal
  BY DEF IInv
<1>2. QED
  BY <1>1, Invariant, PTL

(***************************************************************************)
(* Whoever pays has an order row that carries the session id.              *)
(***************************************************************************)
THEOREM RowsBeforeRedirects == Spec => []RowBeforeRedirect
<1>1. IInv => RowBeforeRedirect
  BY DEF IInv
<1>2. QED
  BY <1>1, Invariant, PTL

(***************************************************************************)
(* A paid order is a funded one, or one whose submitted page the webhook   *)
(* completed before, or in spite of, the result of a method that settles   *)
(* late: whatever the success page, the webhook and administrators race.   *)
(***************************************************************************)
THEOREM PaidOnlyIfFunded == Spec => []PaidIsFunded
<1>1. IInv => PaidIsFunded
  BY DEF IInv
<1>2. QED
  BY <1>1, Invariant, PTL

(***************************************************************************)
(* PastryOrders implements Settlement: creating a row places an order,     *)
(* a first completion settles it, and every other step is a stutter.       *)
(***************************************************************************)
LEMMA RefinesInit == Init => Promise!Init
  BY DEF Init, Promise!Init, Exists, Settled, NoRow

\* The claim of a code, seen by Settlement.
LEMMA RefinesClaim ==
  ASSUME IInv, NEW o \in Orders, CreatePaid(o) \/ CreatePending(o),
         NEW c \in Codes \cup {None}, c = req[o].code
  PROVE  Promise!Claim(o, c)
<1>1. c \in Codes \cup {None} /\ promo \in [Codes -> PromoRow]
  BY DEF IInv, TypeOK, Request
<1>2. c # None => promo[c].ref = None
  BY DEF CreatePaid, CreatePending, CanRedeem, Redeemable
<1>3. Redeem(o, c)
  BY DEF CreatePaid, CreatePending
<1>4. \A d \in Codes : promo'[d].ref = IF d = c THEN o ELSE promo[d].ref
  <2>1. CASE c = None
    BY <1>3, <2>1, PastryAssumption DEF Redeem
  <2>2. CASE c # None
    BY <1>1, <1>3, <2>2 DEF Redeem, PromoRow
  <2>3. QED
    BY <2>1, <2>2
<1>5. [d \in Codes |-> promo'[d].ref] =
        IF c = None THEN [d \in Codes |-> promo[d].ref]
        ELSE [[d \in Codes |-> promo[d].ref] EXCEPT ![c] = o]
  BY <1>1, <1>4, PastryAssumption
<1>6. QED
  BY <1>1, <1>2, <1>5 DEF Promise!Claim

LEMMA RefinesStep == IInv /\ IInv' /\ [Next]_vars => [Promise!Next]_Promise!pvars
<1> SUFFICES ASSUME IInv, IInv', [Next]_vars
             PROVE  Promise!Next \/ UNCHANGED Promise!pvars
  OBVIOUS
<1>1. /\ order \in [Orders -> OrderRow] /\ debit \in [Orders -> Nat]
      /\ debit' \in [Orders -> Nat]
      /\ order' \in [Orders -> OrderRow] /\ promo \in [Codes -> PromoRow]
      /\ DebitedOnceWhenSettled /\ DebitedOnceWhenSettled'
  BY DEF IInv, TypeOK
<1>2. ASSUME NEW o \in Orders, CreatePaid(o) \/ CreatePending(o)
      PROVE  Promise!Next
  <2> PICK c \in Codes \cup {None} : c = req[o].code
    BY DEF IInv, TypeOK, Request
  <2>1. Promise!Claim(o, c)
    BY <1>2, RefinesClaim
  <2>2. ~Exists(o) /\ ~Settled(o) /\ debit[o] = 0
    BY <1>2, NewRowFacts
  <2>3. \A p \in Orders : p # o => order'[p] = order[p] /\ debit'[p] = debit[p]
    BY <1>1, <1>2 DEF CreatePaid, CreatePending
  <2>4. Exists(o)'
    <3>1. stage'[o] \in {"created", "returned"}
      BY <1>2 DEF IInv, TypeOK, CreatePaid, CreatePending
    <3>2. QED
      BY <3>1 DEF IInv, RowFollowsStage
  <2>5. {p \in Orders : Exists(p)'} = {p \in Orders : Exists(p)} \cup {o}
    BY <2>3, <2>4 DEF Exists
  <2>6. Promise!Promise(o)
    BY <1>1, <2>3 DEF Promise!Promise, OrderRow
  <2>7. CASE Settled(o)'
    <3>1. {p \in Orders : Settled(p)'} = {p \in Orders : Settled(p)} \cup {o}
      BY <2>3, <2>7 DEF Settled
    <3>2. debit'[o] = order'[o].credit
      BY <1>1, <2>7 DEF DebitedOnceWhenSettled
    <3>3. debit' = [debit EXCEPT ![o] = order'[o].credit]
      BY <1>1, <2>3, <3>2
    <3>4. Promise!PlaceSettled(o, c)
      BY <2>1, <2>2, <2>5, <2>6, <3>1, <3>3 DEF Promise!PlaceSettled
    <3>5. QED
      BY <3>4 DEF Promise!Next
  <2>8. CASE ~Settled(o)'
    <3>1. {p \in Orders : Settled(p)'} = {p \in Orders : Settled(p)}
      BY <2>2, <2>3, <2>8 DEF Settled
    <3>2. debit'[o] = 0
      BY <1>1, <2>8 DEF DebitedOnceWhenSettled
    <3>3. debit' = debit
      BY <1>1, <2>2, <2>3, <3>2
    <3>4. Promise!Place(o, c)
      BY <2>1, <2>2, <2>5, <2>6, <3>1, <3>3 DEF Promise!Place
    <3>5. QED
      BY <3>4 DEF Promise!Next
  <2>9. QED
    BY <2>7, <2>8
<1>3. ASSUME \A p \in Orders : ~(CreatePaid(p) \/ CreatePending(p))
      PROVE  Promise!Next \/ UNCHANGED Promise!pvars
  <2>1. \A p \in Orders : /\ Exists(p)' <=> Exists(p)
                          /\ order'[p].credit = order[p].credit
                          /\ Settled(p) => Settled(p)'
    BY <1>3, RowKept DEF Settled
  <2>2. /\ {p \in Orders : Exists(p)'} = {p \in Orders : Exists(p)}
        /\ [p \in Orders |-> order'[p].credit] = [p \in Orders |-> order[p].credit]
    BY <2>1
  <2>3. \A c \in Codes : promo'[c].ref = promo[c].ref
    <3>1. ASSUME NEW c \in Codes, ExpireCode(c)
          PROVE  \A d \in Codes : promo'[d].ref = promo[d].ref
      BY <1>1, <3>1 DEF ExpireCode, PromoRow
    <3>2. QED
      BY <1>3, <3>1, PromoWriters
  <2>4. [c \in Codes |-> promo'[c].ref] = [c \in Codes |-> promo[c].ref]
    BY <2>3
  <2>5. CASE \A p \in Orders : Settled(p)' => Settled(p)
    <3>1. {p \in Orders : Settled(p)'} = {p \in Orders : Settled(p)}
      BY <2>1, <2>5
    <3>2. \A p \in Orders : debit'[p] = debit[p]
      BY <1>1, <2>1, <2>5 DEF DebitedOnceWhenSettled
    <3>3. debit' = debit
      BY <1>1, <3>2
    <3>4. QED
      BY <2>2, <2>4, <3>1, <3>3 DEF Promise!pvars
  <2>6. ASSUME NEW o \in Orders, Settled(o)', ~Settled(o) PROVE Promise!Next
    <3>1. CompleteTx(o)
      BY <1>3, <2>6, SettledBy
    <3>2. \A p \in Orders : p # o => order'[p] = order[p] /\ debit'[p] = debit[p]
      BY <1>1, <3>1 DEF CompleteTx
    <3>3. {p \in Orders : Settled(p)'} = {p \in Orders : Settled(p)} \cup {o}
      BY <2>6, <3>2 DEF Settled
    <3>4. debit'[o] = order[o].credit
      BY <1>1, <2>1, <2>6 DEF DebitedOnceWhenSettled
    <3>5. debit' = [debit EXCEPT ![o] = [p \in Orders |-> order[p].credit][o]]
      BY <1>1, <3>2, <3>4
    <3>6. Exists(o)
      BY <3>1, CompleteTxFacts
    <3>7. Promise!Settle(o)
      BY <2>2, <2>4, <2>6, <3>3, <3>5, <3>6 DEF Promise!Settle
    <3>8. QED
      BY <3>7 DEF Promise!Next
  <2>7. QED
    BY <2>5, <2>6
<1>4. QED
  BY <1>2, <1>3

(***************************************************************************)
(* Whatever races with what, checkout keeps the promise of Settlement: an  *)
(* order is placed once, claims a code no other order claims, and settles  *)
(* once, debiting then and only then the credit it was quoted.             *)
(***************************************************************************)
THEOREM KeepsItsPromise == Spec => PromiseKept
<1>1. Spec => Promise!Spec
  BY RefinesInit, RefinesStep, Invariant, PTL DEF Spec, Promise!Spec
<1>2. QED
  BY <1>1 DEF PromiseKept

-----------------------------------------------------------------------------
(* Who overdraws a balance *)

LEMMA BalanceWriters ==
  ASSUME [Next]_vars
  PROVE  \/ \E o \in Orders : CreatePaid(o) \/ CompleteTx(o)
         \/ \E u \in Users, n \in CreditMoves : MoveCredit(u, n)
         \/ UNCHANGED <<balance, debit>>
  BY DEF Next, vars, Checkout, Stripe, Completion, Surroundings, StartCheckout,
         ReadCart, ReadBalance, Quote, CreatePending, CreateSession, SessionRefused,
         StampSession, CheckoutEnds, Submit, DelayedResult, SessionExpires,
         WebhookReceive, ReconcileRead, ReconcileVerify, ReconcileFails,
         CompletionFails, AdminRead, AdminWrite, AddLine, RemoveLine, ExpireCode

Debited(u) == {o \in Orders : order[o].user = u /\ debit[o] > 0}

\* Until an order of hers is debited, what a customer was quoted is covered.
QuotesCovered(u) ==
  Debited(u) = {} =>
    /\ balance[u] >= 0
    /\ \A o \in Orders : /\ req[o].user = u => req[o].balance <= balance[u]
                         /\ order[o].user = u => order[o].credit <= balance[u]

\* The first order debited is covered too.
FirstIsCovered(u) == (\A o1, o2 \in Debited(u) : o1 = o2) => balance[u] >= 0

\* A call that has not begun has read no balance.
NothingReadYet == \A o \in Orders : stage[o] = "idle" => req[o].balance = 0

CreditInv ==
  /\ NothingReadYet
  /\ \A u \in Users : QuotesCovered(u) /\ FirstIsCovered(u)

\* What a call knows of a balance: nothing, what it read, or what it reads now.
LEMMA BalanceKnown ==
  ASSUME IInv, [Next]_vars, NothingReadYet, NEW p \in Orders
  PROVE  \/ req'[p].user = req[p].user /\ req'[p].balance = req[p].balance
         \/ req'[p].balance = 0
         \/ ReadBalance(p) /\ req'[p].balance = balance[req'[p].user]
<1>1. req \in [Orders -> Request]
  BY DEF IInv, TypeOK
<1>2. ASSUME NEW o \in Orders, NEW u \in Users, NEW c \in Codes \cup {None},
             StartCheckout(o, u, c)
      PROVE  req'[p] = req[p] \/ req'[p].balance = 0
  BY <1>1, <1>2 DEF StartCheckout, NothingReadYet, Request
<1>3. ASSUME NEW o \in Orders, ReadCart(o) \/ \E fee \in ShippingFees : Quote(o, fee)
      PROVE  req'[p].user = req[p].user /\ req'[p].balance = req[p].balance
  BY <1>1, <1>3 DEF ReadCart, Quote, Request
<1>4. ASSUME NEW o \in Orders, ReadBalance(o)
      PROVE  IF p = o THEN req'[p].balance = balance[req'[p].user] ELSE req'[p] = req[p]
  BY <1>1, <1>4 DEF ReadBalance, Request
<1>5. ASSUME NEW o \in Orders,
             \/ CreatePaid(o) \/ CreatePending(o) \/ CreateSession(o)
             \/ SessionRefused(o) \/ StampSession(o) \/ CheckoutEnds(o)
      PROVE  req' = req
  BY <1>5 DEF CreatePaid, CreatePending, CreateSession, SessionRefused, StampSession, CheckoutEnds
<1>6. QED
  BY <1>2, <1>3, <1>4, <1>5, StageWriters

LEMMA NothingReadStep == IInv /\ NothingReadYet /\ [Next]_vars => NothingReadYet'
<1> SUFFICES ASSUME IInv, NothingReadYet, [Next]_vars, NEW p \in Orders, stage'[p] = "idle"
             PROVE  req'[p].balance = 0
  BY DEF NothingReadYet
<1>1. stage[p] = "idle"
  BY CallKept
<1>2. ~ReadBalance(p)
  BY <1>1 DEF ReadBalance
<1>3. QED
  BY <1>1, <1>2, BalanceKnown DEF NothingReadYet

\* The credit of a quote is what was read of the balance at most.
LEMMA CreditFitsBalance ==
  ASSUME NEW q \in Request
  PROVE  Credit(q) > 0 => Credit(q) <= q.balance
<1>1. q.balance \in Int /\ Subtotal[q.lines] \in Nat /\ AfterPromo(q) \in Int /\ Credit(q) \in Int
  <2>1. q.balance \in Int /\ Subtotal[q.lines] \in Nat
    BY PastryAssumption DEF Request
  <2>2. Discount(q) \in 0 .. Subtotal[q.lines]
    BY QuoteArithmetic
  <2>3. Credit(q) \in 0 .. AfterPromo(q) /\ AfterPromo(q) \in Int
    BY <2>1, <2>2, QuoteArithmetic
  <2>4. QED
    BY <2>1, <2>3
<1>2. QED
  BY <1>1 DEF Credit, Lesser, Greater
LEMMA QuotedCreditFits ==
  ASSUME IInv, NEW o \in Orders
  PROVE  Credit(req[o]) > 0 => Credit(req[o]) <= req[o].balance
<1>1. req[o] \in Request
  BY DEF IInv, TypeOK
<1>2. QED
  BY <1>1, CreditFitsBalance

\* A balance is lowered by an order of its customer that was not debited
\* before, by the credit of its row or of the call that creates the row.
LEMMA BalanceMoves ==
  ASSUME IInv, [Next]_vars, CreditMoves \subseteq Nat, NEW u \in Users
  PROVE  \/ balance'[u] >= balance[u]
         \/ \E o \in Orders :
              /\ debit[o] = 0 /\ debit'[o] > 0 /\ order'[o].user = u
              /\ balance'[u] = balance[u] - debit'[o]
              /\ \/ order[o].user = u /\ debit'[o] <= order[o].credit
                 \/ req[o].user = u /\ debit'[o] <= req[o].balance
<1>1. /\ balance \in [Users -> Int] /\ debit \in [Orders -> Nat]
      /\ order \in [Orders -> OrderRow] /\ req \in [Orders -> Request]
  BY DEF IInv, TypeOK
<1>2. ASSUME NEW o \in Orders, CreatePaid(o), balance'[u] < balance[u]
      PROVE  /\ debit[o] = 0 /\ debit'[o] > 0 /\ order'[o].user = u
             /\ balance'[u] = balance[u] - debit'[o]
             /\ req[o].user = u /\ debit'[o] <= req[o].balance
  <2>1. debit[o] = 0 /\ Credit(req[o]) \in Nat
    BY <1>2, NewRowFacts
  <2>2. /\ balance' = [balance EXCEPT ![req[o].user] = @ - Credit(req[o])]
        /\ debit' = [debit EXCEPT ![o] = @ + Credit(req[o])]
        /\ order' = [order EXCEPT ![o] = NewRow(o, "PAID")]
    BY <1>2 DEF CreatePaid
  <2>3. req[o].user = u
    BY <1>1, <1>2, <2>2
  <2>4. balance'[u] = balance[u] - Credit(req[o]) /\ debit'[o] = Credit(req[o])
    BY <1>1, <2>1, <2>2, <2>3
  <2>5. Credit(req[o]) > 0
    BY <1>1, <1>2, <2>1, <2>4
  <2>6. order'[o].user = u
    BY <1>1, <2>2, <2>3 DEF NewRow
  <2>7. QED
    BY <2>1, <2>3, <2>4, <2>5, <2>6, QuotedCreditFits
<1>3. ASSUME NEW o \in Orders, CompleteTx(o), balance'[u] < balance[u]
      PROVE  /\ debit[o] = 0 /\ debit'[o] > 0 /\ order'[o].user = u
             /\ balance'[u] = balance[u] - debit'[o]
             /\ order[o].user = u /\ debit'[o] <= order[o].credit
  <2>1. /\ balance' = [balance EXCEPT ![order[o].user] = @ - DueDebit(o)]
        /\ debit' = [debit EXCEPT ![o] = @ + DueDebit(o)]
        /\ order'[o].user = order[o].user
    BY <1>1, <1>3 DEF CompleteTx
  <2>2. order[o].credit \in Nat /\ DueDebit(o) \in Nat
    BY <1>1 DEF OrderRow, DueDebit
  <2>3. order[o].user = u
    BY <1>1, <1>3, <2>1
  <2>4. balance'[u] = balance[u] - DueDebit(o)
    BY <1>1, <2>1, <2>3
  <2>5. DueDebit(o) > 0
    BY <1>1, <1>3, <2>2, <2>4
  <2>6. debit[o] = 0 /\ DueDebit(o) = order[o].credit
    BY <2>5 DEF DueDebit
  <2>7. debit'[o] = DueDebit(o)
    BY <1>1, <2>1, <2>2, <2>6
  <2>8. QED
    BY <2>1, <2>2, <2>3, <2>4, <2>5, <2>6, <2>7
<1>4. ASSUME NEW v \in Users, NEW n \in CreditMoves, MoveCredit(v, n)
      PROVE  balance'[u] >= balance[u]
  BY <1>1, <1>4 DEF MoveCredit
<1>5. balance'[u] \in Int
  BY TypeStep DEF IInv, TypeOK
<1>6. QED
  BY <1>1, <1>2, <1>3, <1>4, <1>5, BalanceWriters

LEMMA DebitedStays ==
  ASSUME IInv, [Next]_vars, NEW u \in Users
  PROVE  Debited(u) \subseteq Debited(u)'
<1> SUFFICES ASSUME NEW p \in Debited(u) PROVE p \in Debited(u)'
  OBVIOUS
<1>1. p \in Orders /\ order[p].user = u /\ debit[p] > 0
  BY DEF Debited
<1>2. order'[p].user = u
  BY <1>1, NewRowFacts, RowKept
<1>3. debit'[p] > 0
  <2>1. debit \in [Orders -> Nat] /\ order \in [Orders -> OrderRow]
    BY DEF IInv, TypeOK
  <2>2. ASSUME NEW o \in Orders, CreatePaid(o)
        PROVE  debit'[p] >= debit[p]
    <3>1. Credit(req[o]) \in Nat /\ debit' = [debit EXCEPT ![o] = @ + Credit(req[o])]
      BY <2>2, NewRowFacts DEF CreatePaid
    <3>2. QED
      BY <1>1, <2>1, <3>1
  <2>3. ASSUME NEW o \in Orders, CompleteTx(o)
        PROVE  debit'[p] >= debit[p]
    BY <1>1, <2>1, <2>3 DEF CompleteTx, DueDebit, OrderRow
  <2>4. ASSUME NEW v \in Users, NEW n \in CreditMoves, MoveCredit(v, n)
        PROVE  debit'[p] = debit[p]
    BY <2>4 DEF MoveCredit
  <2>5. debit'[p] \in Int
    BY <1>1, TypeStep DEF IInv, TypeOK
  <2>6. QED
    BY <1>1, <2>1, <2>2, <2>3, <2>4, <2>5, BalanceWriters
<1>4. QED
  BY <1>1, <1>2, <1>3 DEF Debited

LEMMA QuotesStep ==
  ASSUME IInv, [Next]_vars, CreditMoves \subseteq Nat, CreditInv, NEW u \in Users
  PROVE  QuotesCovered(u)'
<1> SUFFICES ASSUME Debited(u)' = {}
             PROVE  /\ balance'[u] >= 0
                    /\ \A o \in Orders :
                         /\ req'[o].user = u => req'[o].balance <= balance'[u]
                         /\ order'[o].user = u => order'[o].credit <= balance'[u]
  BY DEF QuotesCovered
<1>1. Debited(u) = {}
  BY DebitedStays
<1>2. /\ balance[u] >= 0
      /\ \A o \in Orders : /\ req[o].user = u => req[o].balance <= balance[u]
                           /\ order[o].user = u => order[o].credit <= balance[u]
  BY <1>1 DEF CreditInv, QuotesCovered
<1>3. balance'[u] >= balance[u]
  <2>1. \A o \in Orders : ~(order'[o].user = u /\ debit'[o] > 0)
    BY DEF Debited
  <2>2. QED
    BY <2>1, BalanceMoves
<1>4. balance[u] \in Int /\ balance'[u] \in Int
  BY TypeStep DEF IInv, TypeOK
<1>5. ASSUME NEW p \in Orders, req'[p].user = u
      PROVE  req'[p].balance <= balance'[u]
  <2>1. req[p].balance \in Int
    BY DEF IInv, TypeOK, Request
  <2>2. NothingReadYet
    BY DEF CreditInv
  <2>3. QED
    BY <1>2, <1>3, <1>4, <1>5, <2>1, <2>2, BalanceKnown
<1>6. ASSUME NEW p \in Orders, order'[p].user = u
      PROVE  order'[p].credit <= balance'[u]
  <2>1. order \in [Orders -> OrderRow] /\ req[p].balance \in Int /\ order[p].credit \in Nat
    BY DEF IInv, TypeOK, Request, OrderRow
  <2>2. CASE CreatePaid(p) \/ CreatePending(p)
    <3>1. order'[p].user = req[p].user /\ order'[p].credit = Credit(req[p])
      BY <2>1, <2>2 DEF CreatePaid, CreatePending, NewRow
    <3>2. req[p].balance <= balance[u] /\ Credit(req[p]) \in Nat
      BY <1>2, <1>6, <2>2, <3>1, NewRowFacts
    <3>3. QED
      BY <1>2, <1>3, <1>4, <2>1, <3>1, <3>2, QuotedCreditFits
  <2>3. CASE ~(CreatePaid(p) \/ CreatePending(p))
    <3>1. order[p].user = u /\ order'[p].credit = order[p].credit
      BY <1>6, <2>3, RowKept
    <3>2. QED
      BY <1>2, <1>3, <1>4, <2>1, <3>1
  <2>4. QED
    BY <2>2, <2>3
<1>7. QED
  BY <1>2, <1>3, <1>4, <1>5, <1>6

LEMMA FirstStep ==
  ASSUME IInv, [Next]_vars, CreditMoves \subseteq Nat, CreditInv, NEW u \in Users
  PROVE  FirstIsCovered(u)'
<1> SUFFICES ASSUME \A o1, o2 \in Debited(u)' : o1 = o2
             PROVE  balance'[u] >= 0
  BY DEF FirstIsCovered
<1>1. balance[u] \in Int /\ balance'[u] \in Int /\ debit' \in [Orders -> Nat]
  BY TypeStep DEF IInv, TypeOK
<1>2. Debited(u) \subseteq Debited(u)'
  BY DebitedStays
<1>3. CASE balance'[u] >= balance[u]
  <2>1. balance[u] >= 0
    BY <1>2 DEF CreditInv, FirstIsCovered
  <2>2. QED
    BY <1>1, <1>3, <2>1
<1>4. ASSUME NEW o \in Orders,
             debit[o] = 0, debit'[o] > 0, order'[o].user = u,
             balance'[u] = balance[u] - debit'[o],
             \/ order[o].user = u /\ debit'[o] <= order[o].credit
             \/ req[o].user = u /\ debit'[o] <= req[o].balance
      PROVE  balance'[u] >= 0
  <2>1. o \in Debited(u)' /\ o \notin Debited(u)
    BY <1>4 DEF Debited
  <2>2. Debited(u) = {}
    BY <1>2, <2>1
  <2>3. /\ req[o].user = u => req[o].balance <= balance[u]
        /\ order[o].user = u => order[o].credit <= balance[u]
    BY <2>2 DEF CreditInv, QuotesCovered
  <2>4. req[o].balance \in Int /\ order[o].credit \in Nat
    BY DEF IInv, TypeOK, Request, OrderRow
  <2>5. QED
    BY <1>1, <1>4, <2>3, <2>4
<1>5. QED
  BY <1>3, <1>4, BalanceMoves

(***************************************************************************)
(* OverdrawnByTwo for every number of customers and orders, price list and *)
(* balance: the first order debited is always covered, because until then  *)
(* every quote and every row is at most what the balance is now.  So the   *)
(* clamp of the quote (creditAppliedMinor) and the one REDEMPTION row per  *)
(* order do protect a balance against one order at a time, and only        *)
(* against that.                                                           *)
(***************************************************************************)
THEOREM OverdraftNeedsTwo == Spec => []OverdrawnByTwo
<1>1. CASE CreditMoves \subseteq Nat
  <2>1. Init => CreditInv
    BY PastryAssumption DEF Init, CreditInv, NothingReadYet, QuotesCovered,
       FirstIsCovered, NoRequest, NoRow
  <2>2. IInv /\ CreditInv /\ [Next]_vars => CreditInv'
    <3> SUFFICES ASSUME IInv, CreditInv, [Next]_vars PROVE CreditInv'
      OBVIOUS
    <3>1. NothingReadYet'
      BY NothingReadStep DEF CreditInv
    <3>2. ASSUME NEW u \in Users PROVE QuotesCovered(u)' /\ FirstIsCovered(u)'
      BY <1>1, QuotesStep, FirstStep
    <3>3. QED
      BY <3>1, <3>2 DEF CreditInv
  <2>3. IInv /\ CreditInv => OverdrawnByTwo
    <3> SUFFICES ASSUME IInv, CreditInv, NEW u \in Users, balance[u] < 0
                 PROVE  \E o1, o2 \in Orders :
                          /\ o1 # o2 /\ order[o1].user = u /\ order[o2].user = u
                          /\ debit[o1] > 0 /\ debit[o2] > 0
      BY DEF OverdrawnByTwo
    <3>1. balance[u] \in Int
      BY DEF IInv, TypeOK
    <3>2. PICK o1, o2 \in Debited(u) : o1 # o2
      BY <3>1 DEF CreditInv, FirstIsCovered
    <3>3. QED
      BY <3>2 DEF Debited
  <2>4. QED
    BY <2>1, <2>2, <2>3, Invariant, PTL DEF Spec
<1>2. CASE ~(CreditMoves \subseteq Nat)
  <2>1. OverdrawnByTwo
    BY <1>2 DEF OverdrawnByTwo
  <2>2. QED
    BY <2>1, PTL
<1>3. QED
  BY <1>1, <1>2
=============================================================================
