--------------------------- MODULE MCSubscriptions ---------------------------
(***************************************************************************)
(* Small instances of Subscriptions.  Saves of plans, the search for a     *)
(* customer and the life of a subscription meet in the checkout only: a    *)
(* behaviour saves plans, or starts with one published and has concurrent  *)
(* requests of a customer, or one request at a time and all that Stripe    *)
(* may report.                                                             *)
(***************************************************************************)
EXTENDS Subscriptions, TLC

VARIABLE scene

MCDefault == [s \in Slugs |-> CHOOSE amount \in Amounts : TRUE]

\* What one save of a configured deployment leaves.
Published ==
  LET d == CHOOSE e \in Products : TRUE
      p == CHOOSE q \in Prices : TRUE
  IN  /\ plan = [s \in Slugs |-> [amount |-> Default[s], active |-> TRUE,
                                  product |-> d, price |-> p]]
      /\ product = [e \in Products |-> IF e = d THEN "live" ELSE "unused"]
      /\ price = [q \in Prices |->
                   IF q = p THEN [amount |-> Default[CHOOSE s \in Slugs : TRUE],
                                  product |-> d, active |-> TRUE]
                   ELSE NoPrice]
      /\ configured = TRUE
      /\ save = [v \in Saves |-> NoSave]
      /\ offline = {} /\ troubled = {}

MCInit ==
  /\ SubscriptionsInit
  /\ \/ scene = "plans" /\ PlansInit
     \/ scene \in {"customers", "members"} /\ Published

\* Identifiers are taken in one order.
InOrder(f, g, free) ==
  \A x \in DOMAIN f :
    f[x] = free /\ g[x] # free => x = CHOOSE y \in DOMAIN f : f[y] = free

Count(f, free) == Cardinality({x \in DOMAIN f : f[x] # free})

\* Of two saves at a time one leaves the publication alone; they meet while
\* there is one price at most, and the plan has had no trouble.  A plan that
\* had some keeps its key.
PlansScene ==
  /\ UNCHANGED subscriptionVars
  /\ configured' # configured => Count(save, NoSave) = 0 /\ troubled = {}
  /\ Count(save', NoSave) = 2 => \E v \in Saves : save'[v].active = None
  /\ Count(save, NoSave) <= 1 /\ (troubled # {} \/ Count(price, NoPrice) > 1)
       => Count(save', NoSave) <= 1

CustomersScene ==
  /\ UNCHANGED planVars /\ event \subseteq event'
  /\ \A s \in Subs : sub'[s].status \in {"none", "active", "canceled"} /\ ~sub'[s].paused
  /\ UNCHANGED invoice

\* Two events are under way at most, and a user of whom one was lost or
\* overtaken has a change less.
MembersScene ==
  /\ UNCHANGED <<planVars, orphaned>>
  /\ Count(checkout', NoCheckout) <= 1 /\ Cardinality(event') <= 2
  /\ \A u \in disturbed : changes'[u] < MaxChanges
  /\ \A x \in Checkouts : checkout'[x] # NoCheckout => checkout'[x].slug # None
  /\ \A c \in Customers : customer[c].live => customer'[c].live

MCNext ==
  /\ Next
  /\ scene = "plans" => PlansScene
  /\ scene = "customers" => CustomersScene
  /\ scene = "members" => MembersScene
  /\ InOrder(product, product', "unused") /\ InOrder(price, price', NoPrice)
  /\ InOrder(customer, customer', NoCustomer) /\ InOrder(sub, sub', NoSub)
  /\ InOrder(save, save', NoSave) /\ InOrder(checkout, checkout', NoCheckout)
  /\ UNCHANGED scene

MCSpec == MCInit /\ [][MCNext]_<<vars, scene>>

MCFairSpec ==
  /\ MCSpec
  /\ \A s \in Subs : WF_vars(\E e \in event : e.sub = s /\ OnSubscriptionEvent(e))
=============================================================================
