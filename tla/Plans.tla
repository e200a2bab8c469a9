------------------------------- MODULE Plans -------------------------------
(***************************************************************************)
(* The Indulgence Club plans and the Stripe products and prices they are   *)
(* sold through.  Saving a plan reads its row, calls Stripe up to four     *)
(* times and writes the row by slug; nothing locks it, and what Stripe has *)
(* done stays done when a later step fails.                                *)
(*                                                                         *)
(* An amount stands for monthlyAmountMinor with its currency, which the    *)
(* code compares together.                                                 *)
(***************************************************************************)
EXTENDS FiniteSets

CONSTANTS
  Slugs, Amounts,
  Default,          \* slug -> amount of DEFAULT_CRAVINGS_PLANS
  Products, Prices, \* Stripe identifiers
  Saves,            \* upsertPlan calls that can be in progress
  None

ASSUME PlanAssumption ==
  /\ Default \in [Slugs -> Amounts]
  /\ None \notin Amounts \cup Products \cup Prices

VARIABLES
  plan,       \* CravingsPlan rows by slug
  product,    \* Stripe products: unused, live, or gone
  price,      \* Stripe prices
  configured, \* STRIPE_SECRET_KEY is set: stripe.isAvailable()
  save,       \* what each upsertPlan has read and done
  offline,    \* ghost: slugs saved at another amount while Stripe was not configured
  troubled    \* ghost: slugs with a save cut short or overlapped, or their product
              \* removed, and no price made since by a save that was alone

planVars == <<plan, product, price, configured, save, offline, troubled>>

-----------------------------------------------------------------------------
PlanRow == [amount: Amounts, active: BOOLEAN, product: Products \cup {None},
            price: Prices \cup {None}]

NoPlan == [amount |-> None, active |-> FALSE, product |-> None, price |-> None]

PriceRow == [amount: Amounts, product: Products, active: BOOLEAN]

NoPrice == [amount |-> None, product |-> None, active |-> FALSE]

\* amount and active are the request's; active is undefined (None) when the
\* request leaves it alone.  was is the amount the save read.
Save == [step: {"product", "archive", "price", "write"}, slug: Slugs, amount: Amounts,
         active: BOOLEAN \cup {None}, was: Amounts \cup {None},
         product: Products \cup {None}, price: Prices \cup {None}]

NoSave == [step |-> "none", slug |-> None, amount |-> None, active |-> None,
           was |-> None, product |-> None, price |-> None]

PlansTypeOK ==
  /\ plan \in [Slugs -> PlanRow \cup {NoPlan}]
  /\ product \in [Products -> {"unused", "live", "gone"}]
  /\ price \in [Prices -> PriceRow \cup {NoPrice}]
  /\ configured \in BOOLEAN
  /\ save \in [Saves -> Save \cup {NoSave}]
  /\ offline \subseteq Slugs /\ troubled \subseteq Slugs

PlansInit ==
  /\ plan = [s \in Slugs |-> NoPlan]
  /\ product = [d \in Products |-> "unused"]
  /\ price = [p \in Prices |-> NoPrice]
  /\ configured \in BOOLEAN
  /\ save = [v \in Saves |-> NoSave]
  /\ offline = {} /\ troubled = {}

Saving(s) == {v \in Saves : save[v].slug = s}

-----------------------------------------------------------------------------
\* A deploy ends the requests in progress and may change the key; the module
\* seeds its plans, unpriced, into an empty table.
Seeded(p) ==
  IF \A s \in Slugs : p[s] = NoPlan
  THEN [s \in Slugs |-> [amount |-> Default[s], active |-> TRUE,
                         product |-> None, price |-> None]]
  ELSE p

Boot ==
  /\ \E key \in BOOLEAN : configured' = key
  /\ plan' = Seeded(plan)
  /\ save' = [v \in Saves |-> NoSave]
  /\ troubled' = troubled \cup {save[v].slug : v \in {w \in Saves : save[w] # NoSave}}
  /\ UNCHANGED <<product, price, offline>>

\* Refused when Stripe is not configured and the plan would be published.
StartSave(v, s, amount, active) ==
  /\ save[v] = NoSave
  /\ configured \/ active # TRUE
  /\ save' = [save EXCEPT ![v] =
       [step |-> IF configured THEN "product" ELSE "write", slug |-> s,
        amount |-> amount, active |-> active, was |-> plan[s].amount,
        product |-> plan[s].product, price |-> plan[s].price]]
  /\ troubled' = IF Saving(s) = {} THEN troubled ELSE troubled \cup {s}
  /\ UNCHANGED <<plan, product, price, configured, offline>>

\* Mutant: a price is created once only.
NeedsFirstPrice(w) == w.price = None

\* needsNewPrice
NeedsPrice(w) == w.price = None \/ w.was # w.amount

\* The step after the product is known; an old price is archived first.
Priced(w) ==
  [w EXCEPT !.step = IF ~NeedsPrice(w) THEN "write"
                     ELSE IF w.price = None THEN "price" ELSE "archive"]

\* products.update of the stored product.
ReuseProduct(v) ==
  /\ save[v].step = "product" /\ save[v].product # None
  /\ product[save[v].product] = "live"
  /\ save' = [save EXCEPT ![v] = Priced(@)]
  /\ UNCHANGED <<plan, product, price, configured, offline, troubled>>

\* A product that replaces a missing one leaves the plan no price.
WithProduct(w, d) ==
  [w EXCEPT !.product = d, !.price = IF w.product = None THEN @ ELSE None]

\* products.create, when there is none or Stripe answers resource_missing.
CreateProduct(v, d) ==
  /\ save[v].step = "product"
  /\ save[v].product # None => product[save[v].product] = "gone"
  /\ product[d] = "unused"
  /\ product' = [product EXCEPT ![d] = "live"]
  /\ save' = [save EXCEPT ![v] = Priced(WithProduct(@, d))]
  /\ UNCHANGED <<plan, price, configured, offline, troubled>>

\* prices.update(active: false), whose failure is ignored.
ArchivePrice(v) ==
  /\ save[v].step = "archive"
  /\ \/ price' = [price EXCEPT ![save[v].price].active = FALSE]
     \/ UNCHANGED price
  /\ save' = [save EXCEPT ![v].step = "price"]
  /\ UNCHANGED <<plan, product, configured, offline, troubled>>

CreatePrice(v, p) ==
  /\ save[v].step = "price"
  /\ price[p] = NoPrice
  /\ product[save[v].product] = "live"
  /\ price' = [price EXCEPT ![p] = [amount |-> save[v].amount,
                                    product |-> save[v].product, active |-> TRUE]]
  /\ save' = [save EXCEPT ![v].step = "write", ![v].price = p]
  /\ troubled' = IF Saving(save[v].slug) = {v} THEN troubled \ {save[v].slug} ELSE troubled
  /\ UNCHANGED <<plan, product, configured, offline>>

\* Mutant: a price that is stored is kept.
SavedKeepingPrice(row, w) ==
  [amount |-> w.amount,
   active |-> IF w.active = None THEN row.active ELSE w.active,
   product |-> w.product, price |-> IF row.price = None THEN w.price ELSE row.price]

\* The row a save writes over row.
Saved(row, w) ==
  [amount |-> w.amount,
   active |-> IF w.active = None THEN row.active ELSE w.active,
   product |-> w.product, price |-> w.price]

WritePlan(v) ==
  LET w == save[v] IN
  /\ w.step = "write"
  /\ plan' = [plan EXCEPT ![w.slug] = Saved(@, w)]
  /\ save' = [save EXCEPT ![v] = NoSave]
  /\ offline' = IF ~configured /\ w.price # None /\ w.amount # w.was
                THEN offline \cup {w.slug} ELSE offline
  /\ UNCHANGED <<product, price, configured, troubled>>

\* Stripe refuses or cannot be reached, or the process dies.
SaveFails(v) ==
  /\ save[v] # NoSave
  /\ troubled' = troubled \cup {save[v].slug}
  /\ save' = [save EXCEPT ![v] = NoSave]
  /\ UNCHANGED <<plan, product, price, configured, offline>>

\* The operator deletes the product, or the key now belongs to the other
\* mode: Stripe knows neither it nor its prices.
ProductGone(d) ==
  /\ product[d] = "live"
  /\ product' = [product EXCEPT ![d] = "gone"]
  /\ price' = [p \in Prices |-> IF price[p].product = d
                                THEN [price[p] EXCEPT !.active = FALSE] ELSE price[p]]
  /\ troubled' = troubled \cup
       {s \in Slugs : plan[s].product = d \/ \E v \in Saving(s) : save[v].product = d}
  /\ UNCHANGED <<plan, configured, save, offline>>

PlansNext ==
  \/ Boot
  \/ \E v \in Saves :
       \/ \E s \in Slugs, amount \in Amounts, active \in BOOLEAN \cup {None} :
            StartSave(v, s, amount, active)
       \/ ReuseProduct(v)
       \/ \E d \in Products : CreateProduct(v, d)
       \/ ArchivePrice(v)
       \/ \E p \in Prices : CreatePrice(v, p)
       \/ WritePlan(v)
       \/ SaveFails(v)
  \/ \E d \in Products : ProductGone(d)

PlansSpec == PlansInit /\ [][PlansNext]_planVars

-----------------------------------------------------------------------------
(* Properties *)

\* What Stripe charges for a plan is the amount its page shows, unless the
\* amount was changed while Stripe was not configured.
PriceMatchesAmount ==
  \A s \in Slugs \ offline :
    plan[s].price # None => price[plan[s].price].amount = plan[s].amount

\* The price of a plan is one of its product, whatever saves failed or met.
\* It can be subscribed to, or is being replaced, if the plan is published,
\* unless a save of the plan failed midway or met another, or its product was
\* removed from Stripe; and the next price that a save makes alone ends that.
PublishedIsSellable ==
  \A s \in Slugs :
    plan[s].active /\ plan[s].price # None =>
      /\ price[plan[s].price].product = plan[s].product
      /\ \/ price[plan[s].price].active
         \/ \E v \in Saving(s) : save[v].step \in {"price", "write"}
         \/ s \in troubled

\* "Treat that as the stored ID is stale ... Same logic for the price": a
\* save that went through Stripe alone, its product still there, leaves the
\* plan a price in use.
SaveRestoresPrice ==
  [][\A v \in Saves :
       WritePlan(v) /\ configured /\ Saving(save[v].slug) = {v}
       /\ product[save[v].product] = "live" =>
         price[plan'[save[v].slug].price].active]_planVars
=============================================================================
