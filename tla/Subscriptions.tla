--------------------------- MODULE Subscriptions ---------------------------
(***************************************************************************)
(* Subscriptions to the Indulgence Club: a checkout finds or creates the   *)
(* customer in Stripe, Stripe runs the subscription, and the Subscription  *)
(* row of the user mirrors the snapshots that arrive as events, in any     *)
(* order.  Paid invoices find their user through the mirror.               *)
(***************************************************************************)
EXTENDS Plans, Integers

CONSTANTS
  Users,      \* ids of User rows
  System,     \* the actor the service signs its audit rows with
  Customers, Subs, Invoices,  \* Stripe identifiers
  Checkouts,  \* subscribe and portal requests that can be in progress
  MaxChanges  \* bound on the changes Stripe reports of one user

ASSUME SubscriptionAssumption ==
  /\ None \notin Users \cup Customers \cup Subs \cup Slugs
  /\ MaxChanges \in Nat

VARIABLES
  customer,   \* Stripe customers
  sub,        \* Stripe subscriptions
  invoice,    \* Stripe invoices
  session,    \* open subscription checkouts
  event,      \* customer.subscription.* events to be delivered
  mirror,     \* Subscription rows by user
  checkout,   \* what each request has read and done
  welcomed,   \* welcome mails sent for each subscription, two standing for more
  marker,     \* subscriptions with a welcome_sent audit row
  changes,    \* ghost: changes reported of each user
  seen,       \* ghost: the change each mirror was told of last
  disturbed,  \* ghost: users with an event lost or delivered out of order
  overlapped, \* ghost: users two requests were finding a customer for at a time
  orphaned    \* ghost: users with a customer created and never stored

stripeVars == <<customer, sub, invoice, session>>
subscriptionVars == <<stripeVars, event, mirror, checkout, welcomed, marker, changes,
                      seen, disturbed, overlapped, orphaned>>

vars == <<planVars, subscriptionVars>>

-----------------------------------------------------------------------------
Stripe == {"incomplete", "active", "past_due", "canceled"}

CustomerRow == [user: Users, live: BOOLEAN]
NoCustomer == [user |-> None, live |-> FALSE]

Snapshot == [user: Users, customer: Customers, slug: Slugs, amount: Amounts,
             status: Stripe, paused: BOOLEAN, version: 1..MaxChanges]
NoSub == [user |-> None, customer |-> None, slug |-> None, amount |-> None,
          status |-> "none", paused |-> FALSE, version |-> 0]

Mirror == [customer: Customers, sub: Subs \cup {None}, plan: Slugs \cup {None},
           amount: Amounts \cup {None}, grace: BOOLEAN,
           status: {"PENDING", "ACTIVE", "PAUSED", "PAST_DUE", "CANCELLED"}]
NoMirror == [customer |-> None, sub |-> None, plan |-> None, amount |-> None,
             grace |-> FALSE, status |-> "none"]

\* slug and price are None for the customer portal.
Checkout == [step: {"customer", "store", "open"}, user: Users, slug: Slugs \cup {None},
             price: Prices \cup {None}, customer: Customers \cup {None}]
NoCheckout == [step |-> "none", user |-> None, slug |-> None, price |-> None,
               customer |-> None]

TypeOK ==
  /\ PlansTypeOK
  /\ customer \in [Customers -> CustomerRow \cup {NoCustomer}]
  /\ sub \in [Subs -> Snapshot \cup {NoSub}]
  /\ invoice \in [Invoices -> [sub: Subs \cup {None},
                               state: {"none", "due", "credited", "dropped"}]]
  /\ session \subseteq [user: Users, customer: Customers, slug: Slugs, price: Prices]
  /\ event \subseteq [sub: Subs, of: Snapshot]
  /\ mirror \in [Users -> Mirror \cup {NoMirror}]
  /\ checkout \in [Checkouts -> Checkout \cup {NoCheckout}]
  /\ welcomed \in [Subs -> 0..2] /\ marker \subseteq Subs
  /\ changes \in [Users -> 0..MaxChanges] /\ seen \in [Users -> 0..MaxChanges]
  /\ disturbed \subseteq Users /\ overlapped \subseteq Users /\ orphaned \subseteq Users

SubscriptionsInit ==
  /\ customer = [c \in Customers |-> NoCustomer]
  /\ sub = [s \in Subs |-> NoSub]
  /\ invoice = [i \in Invoices |-> [sub |-> None, state |-> "none"]]
  /\ session = {} /\ event = {}
  /\ mirror = [u \in Users |-> NoMirror]
  /\ checkout = [x \in Checkouts |-> NoCheckout]
  /\ welcomed = [s \in Subs |-> 0] /\ marker = {}
  /\ changes = [u \in Users |-> 0] /\ seen = [u \in Users |-> 0]
  /\ disturbed = {} /\ overlapped = {} /\ orphaned = {}

Init == PlansInit /\ SubscriptionsInit

-----------------------------------------------------------------------------
(* Subscribe and portal requests *)

Usable(c) == c # None /\ customer[c].live

Finding(u) == {x \in Checkouts : checkout[x].user = u /\ checkout[x].step \in {"customer", "store"}}

\* Reads the plan, then the row with the customer in it, which Stripe is
\* asked for: one that was deleted counts as none.
StartCheckout(x, u, slug, p) ==
  LET c == mirror[u].customer IN
  /\ checkout[x] = NoCheckout
  /\ checkout' = [checkout EXCEPT ![x] =
       [step |-> IF Usable(c) THEN "open" ELSE "customer", user |-> u, slug |-> slug,
        price |-> p, customer |-> IF Usable(c) THEN c ELSE None]]
  /\ overlapped' = IF Usable(c) \/ Finding(u) = {} THEN overlapped
                   ELSE overlapped \cup {u}
  /\ UNCHANGED <<planVars, stripeVars, event, mirror, welcomed, marker, changes, seen,
                 disturbed, orphaned>>

Subscribe(x, u, slug) ==
  /\ configured
  /\ plan[slug].active /\ plan[slug].price # None
  /\ StartCheckout(x, u, slug, plan[slug].price)

Portal(x, u) ==
  /\ configured
  /\ mirror[u] # NoMirror
  /\ StartCheckout(x, u, None, None)

CreateCustomer(x, c) ==
  /\ checkout[x].step = "customer"
  /\ customer[c] = NoCustomer
  /\ customer' = [customer EXCEPT ![c] = [user |-> checkout[x].user, live |-> TRUE]]
  /\ checkout' = [checkout EXCEPT ![x].step = "store", ![x].customer = c]
  /\ UNCHANGED <<planVars, sub, invoice, session, event, mirror, welcomed, marker,
                 changes, seen, disturbed, overlapped, orphaned>>

\* Mutants: a row that exists keeps the customer it has; the row is created
\* without its default status.
StoredOnCreate(row, c) ==
  IF row = NoMirror THEN [NoMirror EXCEPT !.customer = c, !.status = "PENDING"] ELSE row

StoredWithoutStatus(row, c) ==
  IF row = NoMirror THEN [NoMirror EXCEPT !.customer = c] ELSE [row EXCEPT !.customer = c]

\* subscription.upsert of ensureStripeCustomer.
Stored(row, c) ==
  IF row = NoMirror THEN [NoMirror EXCEPT !.customer = c, !.status = "PENDING"]
  ELSE [row EXCEPT !.customer = c]

StoreCustomer(x) ==
  LET u == checkout[x].user IN
  /\ checkout[x].step = "store"
  /\ mirror' = [mirror EXCEPT ![u] = Stored(@, checkout[x].customer)]
  /\ checkout' = [checkout EXCEPT ![x].step = "open"]
  /\ UNCHANGED <<planVars, stripeVars, event, welcomed, marker, changes, seen,
                 disturbed, overlapped, orphaned>>

\* Stripe refuses a session for an archived price or a deleted customer.
OpenSession(x) ==
  LET w == checkout[x] IN
  /\ w.step = "open" /\ w.slug # None
  /\ price[w.price].active /\ Usable(w.customer)
  /\ session' = session \cup {[user |-> w.user, customer |-> w.customer,
                               slug |-> w.slug, price |-> w.price]}
  /\ checkout' = [checkout EXCEPT ![x] = NoCheckout]
  /\ UNCHANGED <<planVars, customer, sub, invoice, event, mirror, welcomed, marker,
                 changes, seen, disturbed, overlapped, orphaned>>

\* The portal is opened, the request fails, or the process dies.
CheckoutEnds(x) ==
  LET w == checkout[x] IN
  /\ w # NoCheckout
  /\ checkout' = [checkout EXCEPT ![x] = NoCheckout]
  /\ orphaned' = IF w.step = "store" THEN orphaned \cup {w.user} ELSE orphaned
  /\ UNCHANGED <<planVars, stripeVars, event, mirror, welcomed, marker, changes, seen,
                 disturbed, overlapped>>

-----------------------------------------------------------------------------
(* Stripe *)

\* A change of a subscription is reported with the state it left.
Report(s, now) ==
  LET u == now.user IN
  /\ changes[u] < MaxChanges
  /\ sub' = [sub EXCEPT ![s] = [now EXCEPT !.version = changes[u] + 1]]
  /\ event' = event \cup {[sub |-> s, of |-> sub'[s]]}
  /\ changes' = [changes EXCEPT ![u] = @ + 1]

\* The customer pays; the first payment may still be incomplete.
Subscribed(e, s, status) ==
  /\ e \in session /\ customer[e.customer].live
  /\ sub[s] = NoSub /\ status \in {"incomplete", "active"}
  /\ Report(s, [user |-> e.user, customer |-> e.customer, slug |-> e.slug,
                amount |-> price[e.price].amount, status |-> status, paused |-> FALSE,
                version |-> 1])
  /\ session' = session \ {e}
  /\ UNCHANGED <<planVars, customer, invoice, mirror, checkout, welcomed, marker, seen,
                 disturbed, overlapped, orphaned>>

Reached(from) == CASE from = "incomplete" -> {"active", "canceled"}
                   [] from = "active" -> {"past_due", "canceled"}
                   [] from = "past_due" -> {"active", "canceled"}
                   [] OTHER -> {}

\* Whether pause_collection outlives the subscription is up to Stripe.
StatusChanges(s, to) ==
  /\ to \in Reached(sub[s].status)
  /\ \/ Report(s, [sub[s] EXCEPT !.status = to])
     \/ /\ to = "canceled" /\ sub[s].paused
        /\ Report(s, [sub[s] EXCEPT !.status = to, !.paused = FALSE])
  /\ UNCHANGED <<planVars, customer, invoice, session, mirror, checkout, welcomed, marker,
                 seen, disturbed, overlapped, orphaned>>

\* pause_collection is set or removed.
PauseChanges(s) ==
  /\ sub[s].status = "active"
  /\ Report(s, [sub[s] EXCEPT !.paused = ~@])
  /\ UNCHANGED <<planVars, customer, invoice, session, mirror, checkout, welcomed, marker,
                 seen, disturbed, overlapped, orphaned>>

\* The operator deletes a customer without a running subscription.
DeleteCustomer(c) ==
  /\ customer[c].live
  /\ \A s \in Subs : sub[s].customer = c => sub[s].status = "canceled"
  /\ customer' = [customer EXCEPT ![c].live = FALSE]
  /\ UNCHANGED <<planVars, sub, invoice, session, event, mirror, checkout, welcomed,
                 marker, changes, seen, disturbed, overlapped, orphaned>>

Collect(i, s) ==
  /\ invoice[i].state = "none"
  /\ sub[s].status = "active" /\ ~sub[s].paused
  /\ invoice' = [invoice EXCEPT ![i] = [sub |-> s, state |-> "due"]]
  /\ UNCHANGED <<planVars, customer, sub, session, event, mirror, checkout, welcomed,
                 marker, changes, seen, disturbed, overlapped, orphaned>>

-----------------------------------------------------------------------------
(* Webhook handlers *)

\* Mutants: pause_collection is not looked at; an ended subscription is
\* taken for one that has not begun.
StatusWithoutPause(status, paused) ==
  CASE status = "active" -> "ACTIVE"
    [] status = "past_due" -> "PAST_DUE"
    [] status = "canceled" -> "CANCELLED"
    [] OTHER -> "PENDING"

StatusWithoutEnd(status, paused) ==
  IF paused THEN "PAUSED"
  ELSE CASE status = "active" -> "ACTIVE"
         [] status = "past_due" -> "PAST_DUE"
         [] OTHER -> "PENDING"

mapStripeStatus(status, paused) ==
  IF paused THEN "PAUSED"
  ELSE CASE status = "active" -> "ACTIVE"
         [] status = "past_due" -> "PAST_DUE"
         [] status = "canceled" -> "CANCELLED"
         [] OTHER -> "PENDING"

\* subscription.upsert of onSubscriptionEvent: only a row that did not exist
\* takes the plan and the customer.
Mirrored(row, e) ==
  LET status == mapStripeStatus(e.of.status, e.of.paused)
      base == IF row = NoMirror
              THEN [NoMirror EXCEPT !.customer = e.of.customer, !.plan = e.of.slug]
              ELSE row
  IN  [base EXCEPT !.status = status, !.sub = e.sub, !.amount = e.of.amount,
                   !.grace = IF status = "CANCELLED" THEN TRUE ELSE @]

\* The mail goes out before its marker, and an audit row signed by nobody's
\* id is refused: the handler logs it and answers 200.  The operators' mail
\* (sendAdminSubscriptionIfFirstTime) goes out at the same moments, with a
\* marker of its own that fares the same: one variable stands for both.
Welcome(e) ==
  IF mapStripeStatus(e.of.status, e.of.paused) = "ACTIVE" /\ e.sub \notin marker
  THEN /\ welcomed' = [welcomed EXCEPT ![e.sub] = IF @ < 2 THEN @ + 1 ELSE @]
       /\ marker' = IF System \in Users THEN marker \cup {e.sub} ELSE marker
  ELSE UNCHANGED <<welcomed, marker>>

OnSubscriptionEvent(e) ==
  LET u == e.of.user IN
  /\ e \in event
  /\ event' = event \ {e}
  /\ mirror' = [mirror EXCEPT ![u] = Mirrored(@, e)]
  /\ Welcome(e)
  /\ seen' = [seen EXCEPT ![u] = e.of.version]
  /\ disturbed' = IF e.of.version < seen[u] THEN disturbed \cup {u} ELSE disturbed
  /\ UNCHANGED <<planVars, stripeVars, checkout, changes, overlapped, orphaned>>

\* The event id is recorded, then the handler fails: a redelivery is ignored.
EventLost(e) ==
  /\ e \in event
  /\ event' = event \ {e}
  /\ disturbed' = disturbed \cup {e.of.user}
  /\ UNCHANGED <<planVars, stripeVars, mirror, checkout, welcomed, marker, changes, seen,
                 overlapped, orphaned>>

\* The user of an invoice is the one whose row has its subscription.  What
\* the ledger does with it is CreditLedger's.
OnInvoicePaid(i) ==
  LET known == \E u \in Users : mirror[u].sub = invoice[i].sub IN
  /\ invoice[i].state = "due"
  /\ invoice' = [invoice EXCEPT ![i].state = IF known THEN "credited" ELSE "dropped"]
  /\ UNCHANGED <<planVars, customer, sub, session, event, mirror, checkout, welcomed,
                 marker, changes, seen, disturbed, overlapped, orphaned>>

-----------------------------------------------------------------------------
PlanSteps == PlansNext /\ UNCHANGED subscriptionVars

Next ==
  \/ PlanSteps
  \/ \E x \in Checkouts :
       \/ \E u \in Users : Portal(x, u) \/ \E slug \in Slugs : Subscribe(x, u, slug)
       \/ \E c \in Customers : CreateCustomer(x, c)
       \/ StoreCustomer(x)
       \/ OpenSession(x)
       \/ CheckoutEnds(x)
  \/ \E e \in session, s \in Subs, status \in Stripe : Subscribed(e, s, status)
  \/ \E s \in Subs : PauseChanges(s) \/ \E to \in Stripe : StatusChanges(s, to)
  \/ \E c \in Customers : DeleteCustomer(c)
  \/ \E i \in Invoices : OnInvoicePaid(i) \/ \E s \in Subs : Collect(i, s)
  \/ \E e \in event : OnSubscriptionEvent(e) \/ EventLost(e)

Spec == Init /\ [][Next]_vars

-----------------------------------------------------------------------------
(* Properties *)

Pending(u) == {e \in event : e.of.user = u}

\* The last change Stripe reported was the last one handled, whatever was
\* lost or overtaken before; or none was lost or overtaken and all are handled.
ToldOfLast(u) ==
  \/ seen[u] = changes[u]
  \/ u \notin disturbed /\ Pending(u) = {}

\* A user's row shows the subscription that changed last: cancelled if and
\* only if it ended and is not paused, with the months of grace, paused if
\* and only if it is, and active if and only if it runs.  This is so whenever
\* the last change was handled last, and it was if every event was handled
\* in order.
MirrorIsCurrent ==
  \A u \in Users, s \in Subs :
    sub[s].user = u /\ sub[s].version = changes[u] /\ ToldOfLast(u) =>
      /\ mirror[u].sub = s
      /\ mirror[u].amount = sub[s].amount
      /\ mirror[u].status = "CANCELLED" <=> sub[s].status = "canceled" /\ ~sub[s].paused
      /\ mirror[u].status = "PAUSED" <=> sub[s].paused
      /\ mirror[u].status = "ACTIVE" <=> sub[s].status = "active" /\ ~sub[s].paused
      /\ mirror[u].status = "CANCELLED" => mirror[u].grace

\* An ended subscription is shown as cancelled: mapStripeStatus looks at the
\* pause before the end.
EndIsMirrored ==
  \A u \in Users, s \in Subs :
    /\ sub[s].user = u /\ sub[s].version = changes[u] /\ ToldOfLast(u)
    /\ sub[s].status = "canceled"
    => mirror[u].status = "CANCELLED"

\* The customer whose portal a user is sent to owns the user's running
\* subscriptions, unless two requests found a customer at a time; and a user
\* has no other customer, unless a request died before it stored the one it
\* had created.
PortalShowsSubscription ==
  \A u \in Users \ overlapped :
    /\ \A s \in Subs :
         sub[s].user = u /\ sub[s].status \in {"incomplete", "active", "past_due"} =>
           mirror[u].customer = sub[s].customer
    /\ u \notin orphaned =>
         Cardinality({c \in Customers : customer[c].live /\ customer[c].user = u}) <= 1

\* A subscription that ended is shown as cancelled in the end, or as paused
\* if it ended paused, unless the user has another one or an event was lost or
\* overtaken.
CancellationIsMirrored ==
  \A s \in Subs :
    sub[s].status = "canceled" ~>
      \E u \in Users :
        /\ sub[s].user = u
        /\ \/ /\ mirror[u].sub = s
              /\ mirror[u].status = IF sub[s].paused THEN "PAUSED" ELSE "CANCELLED"
           \/ u \in disturbed
           \/ \E other \in Subs \ {s} : sub[other].version > sub[s].version

\* Stripe delivers an event until it is answered.
FairSpec == Spec /\ \A s \in Subs : WF_vars(\E e \in event : e.sub = s /\ OnSubscriptionEvent(e))

\* "Send the Indulgence Club welcome email exactly once per Stripe
\* subscription".
WelcomeSentOnce == \A s \in Subs : welcomed[s] <= 1

\* "mirror Stripe state into our Subscription row": an active row shows the
\* plan that was subscribed to.
PlanIsMirrored ==
  \A u \in Users : mirror[u].status = "ACTIVE" => mirror[u].plan # None

\* "invoice.paid for a Cravings subscription - accrue credit".
InvoiceIsCredited == \A i \in Invoices : invoice[i].state # "dropped"
=============================================================================
