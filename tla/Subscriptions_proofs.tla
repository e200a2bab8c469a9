------------------------ MODULE Subscriptions_proofs ------------------------
(***************************************************************************)
(* The price a plan is charged at and whether it can be sold, for any      *)
(* number of plans, saves, products and prices; and the mirror of a        *)
(* subscription, for any number of users, subscriptions and changes.       *)
(***************************************************************************)
EXTENDS Subscriptions, FiniteSetTheorems, TLAPS

(* Plans *)

\* A price a slug's row or one of its saves refers to.
PlanHolds(s, p) == plan[s].price = p
SaveHolds(v, s, p) == save[v].slug = s /\ save[v].price = p
Holds(s, p) == PlanHolds(s, p) \/ \E v \in Saves : SaveHolds(v, s, p)

\* What is referred to was created, and belongs to one plan.
PricesAreOwned ==
  \A p \in Prices :
    /\ \A s \in Slugs : Holds(s, p) => price[p] # NoPrice
    /\ \A s, t \in Slugs : Holds(s, p) /\ Holds(t, p) => s = t

\* The price a save has in hand fits the amount it read, until it creates
\* one that fits the amount it will write.
SavesKnowTheAmount ==
  \A v \in Saves :
    save[v].slug \in Slugs \ offline /\ save[v].price # None =>
      /\ save[v].step = "product" => price[save[v].price].amount = save[v].was
      /\ save[v].step = "write" =>
           price[save[v].price].amount = IF configured THEN save[v].amount ELSE save[v].was

StepsNeedStripe == \A v \in Saves : save[v].step \in {"product", "archive", "price"} => configured

SavesKnowTheProduct ==
  \A v \in Saves : save[v].step \in {"archive", "price"} => save[v].product # None

PriceInv == PlansTypeOK /\ SavesKnowTheProduct /\ PricesAreOwned /\ SavesKnowTheAmount
            /\ StepsNeedStripe /\ PriceMatchesAmount

LEMMA PlanFields ==
  ASSUME PlansTypeOK
  PROVE  /\ \A s \in Slugs :
              /\ plan[s] = NoPlan \/ plan[s] \in PlanRow
              /\ plan[s].product \in Products \cup {None} /\ plan[s].price \in Prices \cup {None}
         /\ \A p \in Prices :
              /\ price[p] = NoPrice \/ price[p] \in PriceRow
              /\ price[p] # NoPrice => price[p].product \in Products
         /\ \A v \in Saves :
              /\ save[v] = NoSave \/ save[v] \in Save
              /\ save[v].product \in Products \cup {None} /\ save[v].price \in Prices \cup {None}
              /\ save[v] = NoSave => save[v].step = "none" /\ save[v].slug = None
              /\ save[v] # NoSave => save[v].slug \in Slugs /\ save[v].step # "none"
         /\ None \notin Slugs \cup Prices \cup Products
<1>1. ASSUME NEW s \in Slugs
      PROVE  /\ plan[s] = NoPlan \/ plan[s] \in PlanRow
             /\ plan[s].product \in Products \cup {None} /\ plan[s].price \in Prices \cup {None}
  <2>1. plan[s] = NoPlan \/ plan[s] \in PlanRow
    BY DEF PlansTypeOK
  <2> QED  BY <2>1 DEF NoPlan, PlanRow
<1>2. ASSUME NEW p \in Prices
      PROVE  /\ price[p] = NoPrice \/ price[p] \in PriceRow
             /\ price[p] # NoPrice => price[p].product \in Products
  <2>1. price[p] = NoPrice \/ price[p] \in PriceRow
    BY DEF PlansTypeOK
  <2> QED  BY <2>1 DEF PriceRow
<1>3. ASSUME NEW v \in Saves
      PROVE  /\ save[v] = NoSave \/ save[v] \in Save
             /\ save[v].product \in Products \cup {None} /\ save[v].price \in Prices \cup {None}
             /\ save[v] = NoSave => save[v].step = "none" /\ save[v].slug = None
             /\ save[v] # NoSave => save[v].slug \in Slugs /\ save[v].step # "none"
  <2>1. save[v] = NoSave \/ save[v] \in Save
    BY DEF PlansTypeOK
  <2> QED  BY <2>1 DEF NoSave, Save
<1> QED  BY <1>1, <1>2, <1>3, PlanAssumption, SubscriptionAssumption

LEMMA PriceInitial == PlansInit => PriceInv
<1> SUFFICES ASSUME PlansInit PROVE PriceInv
  OBVIOUS
<1>1. PlansTypeOK
  BY DEF PlansInit, PlansTypeOK
<1>2. \A s \in Slugs : plan[s].price = None
  BY DEF PlansInit, NoPlan
<1>3. \A v \in Saves : save[v].price = None /\ save[v].step = "none"
  BY DEF PlansInit, NoSave
<1>4. \A s \in Slugs, p \in Prices : ~Holds(s, p)
  BY <1>2, <1>3, PlanAssumption DEF Holds, PlanHolds, SaveHolds
<1> QED
  BY <1>1, <1>2, <1>3, <1>4
     DEF PriceInv, PricesAreOwned, SavesKnowTheAmount, SavesKnowTheProduct, StepsNeedStripe,
         PriceMatchesAmount

\* A step that refers to no other price, and changes no amount.
LEMMA OwnedKept ==
  ASSUME PricesAreOwned, \A s \in Slugs, p \in Prices : Holds(s, p)' => Holds(s, p),
         \A p \in Prices : price[p] # NoPrice => price'[p] # NoPrice
  PROVE  PricesAreOwned'
BY DEF PricesAreOwned

\* A step of one save that writes no row: the price it has in hand is one
\* that its plan has held.
LEMMA SaveKeepsPrices ==
  ASSUME PriceInv, PlansTypeOK', NEW v \in Saves, NEW w,
         save' = [save EXCEPT ![v] = w], UNCHANGED <<plan, configured>>, offline' = offline,
         \A p \in Prices : price[p] # NoPrice =>
           price'[p] # NoPrice /\ price'[p].amount = price[p].amount,
         w.price \in Prices \cup {None},
         w.price # None /\ w.slug \in Slugs => Holds(w.slug, w.price),
         w.step \in {"product", "archive", "price"} => configured,
         w.step \in {"archive", "price"} => w.product # None,
         w.slug \in Slugs \ offline /\ w.price # None =>
           /\ w.step = "product" => price[w.price].amount = w.was
           /\ w.step = "write" =>
                price[w.price].amount = IF configured THEN w.amount ELSE w.was
  PROVE  PriceInv'
<1> USE DEF PriceInv
<1>1. save'[v] = w /\ \A x \in Saves \ {v} : save'[x] = save[x]
  BY DEF PlansTypeOK
<1>2. \A s \in Slugs, p \in Prices : Holds(s, p)' => Holds(s, p)
  <2> SUFFICES ASSUME NEW s \in Slugs, NEW p \in Prices, Holds(s, p)' PROVE Holds(s, p)
    OBVIOUS
  <2>1. CASE PlanHolds(s, p)'
    BY <2>1 DEF Holds, PlanHolds
  <2>2. ASSUME NEW x \in Saves, SaveHolds(x, s, p)' PROVE Holds(s, p)
    <3>1. CASE x = v
      BY <1>1, <2>2, <3>1, PlanFields DEF SaveHolds
    <3>2. CASE x # v
      BY <1>1, <2>2, <3>2 DEF SaveHolds, Holds
    <3> QED  BY <3>1, <3>2
  <2> QED  BY <2>1, <2>2 DEF Holds
<1>3. PricesAreOwned'
  BY <1>2, OwnedKept
<1>4. \A s \in Slugs, p \in Prices : Holds(s, p) => price'[p].amount = price[p].amount
  BY DEF PricesAreOwned
<1>5. SavesKnowTheAmount'
  <2> SUFFICES ASSUME NEW x \in Saves, save'[x].slug \in Slugs \ offline, save'[x].price # None
               PROVE  /\ save'[x].step = "product" => price'[save'[x].price].amount = save'[x].was
                      /\ save'[x].step = "write" =>
                           price'[save'[x].price].amount =
                             IF configured THEN save'[x].amount ELSE save'[x].was
    BY DEF SavesKnowTheAmount
  <2>1. CASE x = v
    BY <1>1, <1>4, <2>1
  <2>2. CASE x # v
    <3>1. save[x].price \in Prices /\ Holds(save[x].slug, save[x].price)
      BY <1>1, <2>2, PlanFields DEF Holds, SaveHolds
    <3> QED  BY <1>1, <1>4, <2>2, <3>1 DEF SavesKnowTheAmount
  <2> QED  BY <2>1, <2>2
<1>6. StepsNeedStripe' /\ SavesKnowTheProduct'
  BY <1>1 DEF StepsNeedStripe, SavesKnowTheProduct
<1>7. PriceMatchesAmount'
  <2>1. \A s \in Slugs : plan[s].price # None => Holds(s, plan[s].price) /\ plan[s].price \in Prices
    BY PlanFields DEF Holds, PlanHolds
  <2> QED  BY <1>4, <2>1 DEF PriceMatchesAmount
<1> QED  BY <1>3, <1>5, <1>6, <1>7

LEMMA Archived ==
  ASSUME PlansTypeOK, NEW p \in Prices, price[p] # NoPrice
  PROVE  /\ [price[p] EXCEPT !.active = FALSE] \in PriceRow
         /\ [price[p] EXCEPT !.active = FALSE] # NoPrice
         /\ [price[p] EXCEPT !.active = FALSE].amount = price[p].amount
         /\ [price[p] EXCEPT !.active = FALSE].product = price[p].product
<1>1. price[p] \in PriceRow
  BY PlanFields
<1> QED  BY <1>1, PlanAssumption DEF PriceRow, NoPrice

LEMMA PlansTypeStep == PriceInv /\ PlansNext => PlansTypeOK'
<1> SUFFICES ASSUME PriceInv, PlansNext PROVE PlansTypeOK'
  OBVIOUS
<1> USE DEF PriceInv
<1>1. CASE Boot
  <2>1. Seeded(plan) \in [Slugs -> PlanRow \cup {NoPlan}]
    BY PlanAssumption DEF Seeded, PlansTypeOK, PlanRow
  <2>2. \A v \in Saves : save[v] # NoSave => save[v].slug \in Slugs
    BY PlanFields
  <2> QED  BY <1>1, <2>1, <2>2 DEF Boot, PlansTypeOK
<1>2. ASSUME NEW v \in Saves, NEW s \in Slugs, NEW amount \in Amounts,
             NEW active \in BOOLEAN \cup {None}, StartSave(v, s, amount, active)
      PROVE  PlansTypeOK'
  <2> DEFINE w == [step |-> IF configured THEN "product" ELSE "write", slug |-> s,
                   amount |-> amount, active |-> active, was |-> plan[s].amount,
                   product |-> plan[s].product, price |-> plan[s].price]
  <2>1. plan[s].amount \in Amounts \cup {None}
    <3>1. plan[s] = NoPlan \/ plan[s] \in PlanRow
      BY PlanFields
    <3> QED  BY <3>1 DEF NoPlan, PlanRow
  <2>2. w \in Save
    BY <2>1, PlanFields DEF Save
  <2>3. save' = [save EXCEPT ![v] = w] /\ troubled' \subseteq Slugs
        /\ UNCHANGED <<plan, product, price, configured, offline>>
    BY <1>2 DEF StartSave, PlansTypeOK
  <2> QED  BY <2>2, <2>3 DEF PlansTypeOK
<1>3. ASSUME NEW v \in Saves, ReuseProduct(v) PROVE PlansTypeOK'
  <2>1. save[v] \in Save
    BY <1>3, PlanFields DEF ReuseProduct
  <2>2. Priced(save[v]) \in Save
    BY <2>1 DEF Priced, Save
  <2> QED  BY <1>3, <2>2 DEF ReuseProduct, PlansTypeOK
<1>4. ASSUME NEW v \in Saves, NEW d \in Products, CreateProduct(v, d) PROVE PlansTypeOK'
  <2> DEFINE w == WithProduct(save[v], d)
  <2>1. save[v] \in Save
    BY <1>4, PlanFields DEF CreateProduct
  <2>2. w \in Save
    BY <2>1 DEF Save, WithProduct
  <2>3. /\ save' = [save EXCEPT ![v] = Priced(w)] /\ product' = [product EXCEPT ![d] = "live"]
        /\ UNCHANGED <<plan, price, configured, offline, troubled>>
    BY <1>4 DEF CreateProduct
  <2> HIDE DEF w
  <2>4. Priced(w) \in Save
    BY <2>2 DEF Priced, Save
  <2> QED  BY <2>3, <2>4 DEF PlansTypeOK
<1>5. ASSUME NEW v \in Saves, ArchivePrice(v) PROVE PlansTypeOK'
  <2>1. save[v] \in Save
    BY <1>5, PlanFields DEF ArchivePrice
  <2>2. [save[v] EXCEPT !.step = "price"] \in Save
    BY <2>1 DEF Save
  <2>3. price' \in [Prices -> PriceRow \cup {NoPrice}]
    <3>1. \/ price' = [price EXCEPT ![save[v].price].active = FALSE]
          \/ price' = price
      BY <1>5 DEF ArchivePrice
    <3>2. save[v].price \in Prices => price[save[v].price] # NoPrice
      BY <2>1 DEF Save, PricesAreOwned, Holds, SaveHolds
    <3>3. \A p \in Prices :
            \/ price'[p] = price[p]
            \/ price[p] # NoPrice /\ price'[p] = [price[p] EXCEPT !.active = FALSE]
      BY <3>1, <3>2 DEF PlansTypeOK
    <3>4. price' = [p \in Prices |-> price'[p]]
      BY <3>1 DEF PlansTypeOK
    <3>5. \A p \in Prices : price[p] \in PriceRow \cup {NoPrice}
      BY DEF PlansTypeOK
    <3> QED  BY <3>3, <3>4, <3>5, Archived
  <2> QED  BY <1>5, <2>2, <2>3 DEF ArchivePrice, PlansTypeOK
<1>6. ASSUME NEW v \in Saves, NEW p \in Prices, CreatePrice(v, p) PROVE PlansTypeOK'
  <2> DEFINE row == [amount |-> save[v].amount, product |-> save[v].product, active |-> TRUE]
             w == [save[v] EXCEPT !.step = "write", !.price = p]
  <2>1. save[v] \in Save
    BY <1>6, PlanFields DEF CreatePrice
  <2>2. w \in Save
    BY <2>1 DEF Save
  <2>3. row \in PriceRow
    BY <1>6, <2>1, PlanFields DEF CreatePrice, PriceRow, Save, SavesKnowTheProduct
  <2>4. /\ save' = [save EXCEPT ![v] = w] /\ price' = [price EXCEPT ![p] = row]
        /\ troubled' \subseteq troubled /\ UNCHANGED <<plan, product, configured, offline>>
    BY <1>6 DEF CreatePrice, PlansTypeOK
  <2> QED  BY <2>2, <2>3, <2>4 DEF PlansTypeOK
<1>7. ASSUME NEW v \in Saves, WritePlan(v) PROVE PlansTypeOK'
  <2> DEFINE w == save[v]
  <2>1. w \in Save
    BY <1>7, PlanFields DEF WritePlan
  <2>2. /\ w.slug \in Slugs /\ plan' = [plan EXCEPT ![w.slug] = Saved(plan[w.slug], w)]
        /\ save' = [save EXCEPT ![v] = NoSave] /\ offline' \subseteq offline \cup {w.slug}
        /\ UNCHANGED <<product, price, configured, troubled>>
    BY <1>7, <2>1 DEF WritePlan, Save
  <2>3. plan[w.slug].active \in BOOLEAN
    <3>1. plan[w.slug] = NoPlan \/ plan[w.slug] \in PlanRow
      BY <2>2, PlanFields
    <3>2. NoPlan.active \in BOOLEAN /\ \A row \in PlanRow : row.active \in BOOLEAN
      BY DEF NoPlan, PlanRow
    <3> QED  BY <3>1, <3>2
  <2>4. Saved(plan[w.slug], w) \in PlanRow
    BY <2>1, <2>3 DEF Saved, Save, PlanRow
  <2> HIDE DEF w
  <2> QED  BY <2>2, <2>4 DEF PlansTypeOK
<1>8. ASSUME NEW v \in Saves, SaveFails(v) PROVE PlansTypeOK'
  <2>1. save[v].slug \in Slugs
    BY <1>8, PlanFields DEF SaveFails
  <2> QED  BY <1>8, <2>1 DEF SaveFails, PlansTypeOK
<1>9. ASSUME NEW d \in Products, ProductGone(d) PROVE PlansTypeOK'
  <2>1. \A p \in Prices : price[p].product = d => price[p] # NoPrice
    BY PlanAssumption DEF NoPrice
  <2>2. \A p \in Prices : price[p].product = d => [price[p] EXCEPT !.active = FALSE] \in PriceRow
    BY <2>1, Archived
  <2> QED  BY <1>9, <2>2 DEF ProductGone, PlansTypeOK
<1> QED  BY <1>1, <1>2, <1>3, <1>4, <1>5, <1>6, <1>7, <1>8, <1>9 DEF PlansNext

LEMMA PriceStep == PriceInv /\ PlansNext => PriceInv'
<1> SUFFICES ASSUME PriceInv, PlansNext PROVE PriceInv'
  OBVIOUS
<1> USE DEF PriceInv
<1>0. PlansTypeOK'
  BY PlansTypeStep
<1>1. CASE Boot
  <2>1. \A s \in Slugs : plan'[s].price = plan[s].price \/ plan'[s].price = None
    BY <1>1, PlanFields DEF Boot, Seeded
  <2>2. \A v \in Saves : save'[v].step = "none" /\ save'[v].price = None
    BY <1>1 DEF Boot, NoSave
  <2>3. \A s \in Slugs, p \in Prices : Holds(s, p)' => Holds(s, p)
    BY <2>1, <2>2, PlanFields DEF Holds, PlanHolds, SaveHolds
  <2>4. price' = price /\ offline' = offline
    BY <1>1 DEF Boot
  <2>5. PriceMatchesAmount'
    <3>1. \A s \in Slugs : plan'[s] = plan[s] \/ plan'[s].price = None
      BY <1>1 DEF Boot, Seeded
    <3> QED  BY <2>4, <3>1 DEF PriceMatchesAmount
  <2>6. SavesKnowTheAmount' /\ SavesKnowTheProduct' /\ StepsNeedStripe'
    BY <2>2 DEF SavesKnowTheAmount, SavesKnowTheProduct, StepsNeedStripe
  <2> QED  BY <1>0, <2>3, <2>4, <2>5, <2>6, OwnedKept
<1>2. ASSUME NEW v \in Saves, NEW s \in Slugs, NEW amount \in Amounts,
             NEW active \in BOOLEAN \cup {None}, StartSave(v, s, amount, active)
      PROVE  PriceInv'
  <2> DEFINE w == [step |-> IF configured THEN "product" ELSE "write", slug |-> s,
                   amount |-> amount, active |-> active, was |-> plan[s].amount,
                   product |-> plan[s].product, price |-> plan[s].price]
  <2>1. save' = [save EXCEPT ![v] = w] /\ UNCHANGED <<plan, price, configured, offline>>
    BY <1>2 DEF StartSave
  <2>2. /\ w.slug = s /\ w.price = plan[s].price /\ w.was = plan[s].amount
        /\ w.step = IF configured THEN "product" ELSE "write"
    OBVIOUS
  <2>3. w.price \in Prices \cup {None} /\ (w.price # None => Holds(s, w.price))
    BY <2>2, PlanFields DEF Holds, PlanHolds
  <2>4. s \notin offline /\ w.price # None => price[w.price].amount = w.was
    BY <2>2 DEF PriceMatchesAmount
  <2> HIDE DEF w
  <2> QED  BY <1>0, <2>1, <2>2, <2>3, <2>4, SaveKeepsPrices
<1>3. ASSUME NEW v \in Saves, NEW u \in Save, save[v].step = "product", u.slug = save[v].slug,
             u.was = save[v].was, u.amount = save[v].amount, u.price \in {save[v].price, None},
             u.product # None,
             save' = [save EXCEPT ![v] = Priced(u)], UNCHANGED <<plan, price, configured, offline>>
      PROVE  PriceInv'
  <2> DEFINE w == Priced(u)
  <2>1. /\ w.slug = save[v].slug /\ w.was = save[v].was /\ w.amount = save[v].amount
        /\ w.price \in {save[v].price, None} /\ w.product # None
        /\ w.step \in {"archive", "price", "write"}
        /\ w.step = "write" => w.was = w.amount
    BY <1>3 DEF Priced, NeedsPrice, Save
  <2>2. w.price \in Prices \cup {None} /\ save[v].price \in Prices \cup {None}
    BY <2>1, PlanFields
  <2>3. w.price # None /\ w.slug \in Slugs => Holds(w.slug, w.price)
    BY <2>1 DEF Holds, SaveHolds
  <2>4. configured
    BY <1>3 DEF StepsNeedStripe
  <2>5. w.slug \in Slugs \ offline /\ w.price # None => price[w.price].amount = w.was
    BY <1>3, <2>1 DEF SavesKnowTheAmount
  <2> HIDE DEF w
  <2>6. save' = [save EXCEPT ![v] = w]
    BY <1>3 DEF w
  <2>7. UNCHANGED <<plan, price, configured, offline>>
    BY <1>3
  <2>8. w.slug \in Slugs \ offline /\ w.price # None =>
          /\ w.step = "product" => price[w.price].amount = w.was
          /\ w.step = "write" =>
               price[w.price].amount = IF configured THEN w.amount ELSE w.was
    BY <2>1, <2>4, <2>5
  <2> QED  BY <1>0, <2>1, <2>2, <2>3, <2>4, <2>6, <2>7, <2>8, SaveKeepsPrices
<1>4. ASSUME NEW v \in Saves, ReuseProduct(v) PROVE PriceInv'
  <2>1. save[v] \in Save
    BY <1>4, PlanFields DEF ReuseProduct
  <2> QED  BY <1>3, <1>4, <2>1 DEF ReuseProduct
<1>5. ASSUME NEW v \in Saves, NEW d \in Products, CreateProduct(v, d) PROVE PriceInv'
  <2> DEFINE u == WithProduct(save[v], d)
  <2>1. save[v] \in Save
    BY <1>5, PlanFields DEF CreateProduct
  <2>2. /\ u \in Save /\ u.slug = save[v].slug /\ u.was = save[v].was /\ u.amount = save[v].amount
        /\ u.price \in {save[v].price, None} /\ u.product # None
    BY <2>1, PlanAssumption DEF WithProduct, Save
  <2> HIDE DEF u
  <2>3. /\ save[v].step = "product" /\ save' = [save EXCEPT ![v] = Priced(u)]
        /\ UNCHANGED <<plan, price, configured, offline>>
    BY <1>5 DEF CreateProduct, u
  <2> QED  BY <1>3, <2>2, <2>3
<1>6. ASSUME NEW v \in Saves, ArchivePrice(v) PROVE PriceInv'
  <2> DEFINE w == [save[v] EXCEPT !.step = "price"]
  <2>1. save[v] \in Save /\ save[v].slug \in Slugs
    BY <1>6, PlanFields DEF ArchivePrice
  <2>2. /\ w.step = "price" /\ w.slug = save[v].slug /\ w.price = save[v].price
        /\ w.product = save[v].product
    BY <2>1 DEF Save
  <2>3. /\ save[v].step = "archive" /\ save' = [save EXCEPT ![v] = w]
        /\ UNCHANGED <<plan, configured, offline>>
        /\ \/ price' = [price EXCEPT ![save[v].price].active = FALSE]
           \/ price' = price
    BY <1>6 DEF ArchivePrice
  <2> HIDE DEF w
  <2>4. \A p \in Prices :
          \/ price'[p] = price[p]
          \/ price'[p] = [price[p] EXCEPT !.active = FALSE]
    BY <2>3 DEF PlansTypeOK
  <2>5. \A p \in Prices : price[p] # NoPrice =>
          price'[p] # NoPrice /\ price'[p].amount = price[p].amount
    BY <2>4, Archived
  <2>6. w.price \in Prices \cup {None} /\ (w.price # None => Holds(w.slug, w.price))
    BY <2>2, PlanFields DEF Holds, SaveHolds
  <2>7. configured /\ w.product # None
    BY <2>2, <2>3 DEF StepsNeedStripe, SavesKnowTheProduct
  <2> QED  BY <1>0, <2>2, <2>3, <2>5, <2>6, <2>7, SaveKeepsPrices
<1>7. ASSUME NEW v \in Saves, NEW p \in Prices, CreatePrice(v, p) PROVE PriceInv'
  <2> DEFINE row == [amount |-> save[v].amount, product |-> save[v].product, active |-> TRUE]
             w == [save[v] EXCEPT !.step = "write", !.price = p]
  <2>1. save[v] \in Save /\ save[v].slug \in Slugs
    BY <1>7, PlanFields DEF CreatePrice
  <2>2. /\ w.step = "write" /\ w.slug = save[v].slug /\ w.price = p /\ w.amount = save[v].amount
        /\ w.product = save[v].product
    BY <2>1 DEF Save
  <2>3. row.amount = save[v].amount /\ row.active = TRUE
    OBVIOUS
  <2>4. row # NoPrice
    BY <2>3 DEF NoPrice
  <2>5. /\ save[v].step = "price" /\ price[p] = NoPrice /\ save' = [save EXCEPT ![v] = w]
        /\ price' = [price EXCEPT ![p] = row]
        /\ UNCHANGED <<plan, product, configured, offline>>
    BY <1>7 DEF CreatePrice, PlansTypeOK
  <2> HIDE DEF row, w
  <2>6. /\ save'[v] = w /\ \A x \in Saves \ {v} : save'[x] = save[x]
        /\ price'[p] = row /\ \A q \in Prices \ {p} : price'[q] = price[q]
    BY <2>5 DEF PlansTypeOK
  <2>7. configured
    BY <2>5 DEF StepsNeedStripe
  <2>8. \A s \in Slugs : ~Holds(s, p)
    BY <2>5 DEF PricesAreOwned
  <2>9. \A s \in Slugs, q \in Prices \ {p} : Holds(s, q)' => Holds(s, q)
    BY <2>2, <2>5, <2>6 DEF Holds, PlanHolds, SaveHolds
  <2>10. \A s \in Slugs : Holds(s, p)' => s = w.slug
    BY <2>2, <2>5, <2>6, <2>8 DEF Holds, PlanHolds, SaveHolds
  <2>11. PricesAreOwned'
    BY <2>4, <2>6, <2>9, <2>10 DEF PricesAreOwned
  <2>12. PriceMatchesAmount'
    <3>1. \A s \in Slugs : plan[s].price # p /\ plan[s].price \in Prices \cup {None}
      BY <2>8, PlanFields DEF Holds, PlanHolds
    <3> QED  BY <2>5, <2>6, <3>1 DEF PriceMatchesAmount
  <2>13. SavesKnowTheAmount'
    <3>1. \A x \in Saves : save[x].slug \in Slugs =>
            save[x].price # p /\ save[x].price \in Prices \cup {None}
      BY <2>8, PlanFields DEF Holds, SaveHolds
    <3> QED  BY <2>2, <2>3, <2>5, <2>6, <2>7, <3>1 DEF SavesKnowTheAmount
  <2>14. SavesKnowTheProduct' /\ StepsNeedStripe'
    BY <2>2, <2>5, <2>6 DEF SavesKnowTheProduct, StepsNeedStripe
  <2> QED  BY <1>0, <2>11, <2>12, <2>13, <2>14
<1>8. ASSUME NEW v \in Saves, WritePlan(v) PROVE PriceInv'
  <2> DEFINE w == save[v]
             row == Saved(plan[w.slug], w)
  <2>1. w \in Save /\ w.slug \in Slugs
    BY <1>8, PlanFields DEF WritePlan
  <2>2. /\ w.step = "write" /\ plan' = [plan EXCEPT ![w.slug] = row]
        /\ save' = [save EXCEPT ![v] = NoSave]
        /\ offline' = IF ~configured /\ w.price # None /\ w.amount # w.was
                      THEN offline \cup {w.slug} ELSE offline
        /\ UNCHANGED <<product, price, configured, troubled>>
    BY <1>8 DEF WritePlan
  <2>3. row.amount = w.amount /\ row.price = w.price
    BY DEF Saved
  <2>4. NoSave.step = "none" /\ NoSave.price = None /\ NoSave.slug = None
    BY DEF NoSave
  <2> HIDE DEF row
  <2>5. /\ save'[v] = NoSave /\ \A x \in Saves \ {v} : save'[x] = save[x]
        /\ plan'[w.slug] = row /\ \A s \in Slugs \ {w.slug} : plan'[s] = plan[s]
    BY <2>1, <2>2 DEF PlansTypeOK
  <2>6. \A s \in Slugs, p \in Prices : Holds(s, p)' => Holds(s, p)
    <3> SUFFICES ASSUME NEW s \in Slugs, NEW p \in Prices, Holds(s, p)' PROVE Holds(s, p)
      OBVIOUS
    <3>1. CASE PlanHolds(s, p)' /\ s = w.slug
      BY <2>3, <2>5, <3>1 DEF Holds, PlanHolds, SaveHolds
    <3>2. CASE PlanHolds(s, p)' /\ s # w.slug
      BY <2>5, <3>2 DEF Holds, PlanHolds
    <3>3. ASSUME NEW x \in Saves, SaveHolds(x, s, p)' PROVE Holds(s, p)
      BY <2>4, <2>5, <3>3, PlanFields DEF Holds, SaveHolds
    <3> QED  BY <3>1, <3>2, <3>3 DEF Holds
  <2>7. PricesAreOwned'
    BY <2>2, <2>6, OwnedKept
  <2>8. offline \subseteq offline'
    BY <2>2
  <2>9. SavesKnowTheAmount' /\ SavesKnowTheProduct' /\ StepsNeedStripe'
    BY <2>2, <2>4, <2>5, <2>8 DEF SavesKnowTheAmount, SavesKnowTheProduct, StepsNeedStripe
  <2>10. PriceMatchesAmount'
    <3>1. w.slug \notin offline' /\ row.price # None => price[row.price].amount = row.amount
      BY <2>1, <2>2, <2>3, <2>8 DEF SavesKnowTheAmount
    <3> QED  BY <2>2, <2>5, <2>8, <3>1 DEF PriceMatchesAmount
  <2> QED  BY <1>0, <2>7, <2>9, <2>10
<1>9. ASSUME NEW v \in Saves, SaveFails(v) PROVE PriceInv'
  <2>1. NoSave.step = "none" /\ NoSave.price = None /\ NoSave.slug = None
    BY DEF NoSave
  <2> QED  BY <1>0, <1>9, <2>1, PlanFields, SaveKeepsPrices DEF SaveFails
<1>10. ASSUME NEW d \in Products, ProductGone(d) PROVE PriceInv'
  <2>1. \A p \in Prices : price[p] # NoPrice =>
          price'[p] # NoPrice /\ price'[p].amount = price[p].amount
    BY <1>10, Archived DEF ProductGone
  <2>2. UNCHANGED <<plan, configured, save, offline>>
    BY <1>10 DEF ProductGone
  <2>3. \A s \in Slugs, p \in Prices : Holds(s, p)' <=> Holds(s, p)
    BY <2>2 DEF Holds, PlanHolds, SaveHolds
  <2>4. \A s \in Slugs, p \in Prices : Holds(s, p) => price'[p].amount = price[p].amount
    BY <2>1 DEF PricesAreOwned
  <2>5. PriceMatchesAmount'
    <3>1. \A s \in Slugs : plan[s].price # None => Holds(s, plan[s].price) /\ plan[s].price \in Prices
      BY PlanFields DEF Holds, PlanHolds
    <3> QED  BY <2>2, <2>4, <3>1 DEF PriceMatchesAmount
  <2>6. SavesKnowTheAmount'
    <3>1. \A v \in Saves : save[v].slug \in Slugs /\ save[v].price # None =>
            Holds(save[v].slug, save[v].price) /\ save[v].price \in Prices
      BY PlanFields DEF Holds, SaveHolds
    <3> QED  BY <2>2, <2>4, <3>1 DEF SavesKnowTheAmount
  <2> QED
    BY <1>0, <2>1, <2>2, <2>3, <2>5, <2>6, OwnedKept DEF SavesKnowTheProduct, StepsNeedStripe
<1> QED
  BY <1>1, <1>2, <1>4, <1>5, <1>6, <1>7, <1>8, <1>9, <1>10 DEF PlansNext

-----------------------------------------------------------------------------
(* What a plan is sold through *)

\* A price in hand is one of the product it goes with.
Fits(p, d) == p # None => price[p].product = d

RowsFit == \A s \in Slugs : Fits(plan[s].price, plan[s].product)
SavesFit == \A v \in Saves : Fits(save[v].price, save[v].product)

OneSave(s) == \A v, x \in Saves : save[v].slug = s /\ save[x].slug = s => v = x

Used(d) == d # None => product[d] # "gone"

\* The price of a plan is in use unless its save is about to replace it.
PlanIsSold(s) ==
  plan[s].price # None =>
    price[plan[s].price].active \/ \E v \in Saving(s) : save[v].step \in {"price", "write"}

\* A save begins with the price of the plan, and ends with one that is in use.
SaveWillSell(s) ==
  \A v \in Saving(s) :
    /\ save[v].step = "product" => save[v].price = plan[s].price
    /\ save[v].step = "write" /\ save[v].price # None => price[save[v].price].active

\* Stripe knows the product of a save, and that of the plan unless the save
\* is about to replace it.
ProductIsKnown(s) ==
  /\ \A v \in Saving(s) : Used(save[v].product)
  /\ Used(plan[s].product) \/ \E v \in Saving(s) : save[v].step = "write"

Sound(s) == OneSave(s) /\ PlanIsSold(s) /\ SaveWillSell(s) /\ ProductIsKnown(s)

SaleInv == PriceInv /\ RowsFit /\ SavesFit /\ \A s \in Slugs \ troubled : Sound(s)

LEMMA SaleInitial == PlansInit => SaleInv
<1> SUFFICES ASSUME PlansInit PROVE SaleInv
  OBVIOUS
<1>1. \A s \in Slugs : plan[s].price = None /\ plan[s].product = None
  BY DEF PlansInit, NoPlan
<1>2. \A v \in Saves : save[v].slug = None /\ save[v].price = None
  BY DEF PlansInit, NoSave
<1>3. RowsFit /\ SavesFit
  BY <1>1, <1>2 DEF RowsFit, SavesFit, Fits
<1>4. \A s \in Slugs : Sound(s)
  BY <1>1, <1>2, SubscriptionAssumption
     DEF Sound, OneSave, PlanIsSold, SaveWillSell, ProductIsKnown, Used, Saving
<1> QED  BY <1>3, <1>4, PriceInitial DEF SaleInv

\* What is held was created.
LEMMA HeldExist ==
  ASSUME PriceInv
  PROVE  /\ \A s \in Slugs : plan[s].price # None =>
              plan[s].price \in Prices /\ price[plan[s].price] # NoPrice
         /\ \A v \in Saves : save[v].price # None =>
              save[v].price \in Prices /\ price[save[v].price] # NoPrice
<1> USE DEF PriceInv
<1>1. ASSUME NEW s \in Slugs, plan[s].price # None
      PROVE  plan[s].price \in Prices /\ price[plan[s].price] # NoPrice
  BY <1>1, PlanFields DEF PricesAreOwned, Holds, PlanHolds
<1>2. ASSUME NEW v \in Saves, save[v].price # None
      PROVE  save[v].price \in Prices /\ price[save[v].price] # NoPrice
  <2>1. save[v] # NoSave
    BY <1>2 DEF NoSave
  <2> QED  BY <1>2, <2>1, PlanFields DEF PricesAreOwned, Holds, SaveHolds
<1> QED  BY <1>1, <1>2

\* A price is of one product for good.
LEMMA ProductsStay ==
  ASSUME PriceInv, PlansNext
  PROVE  \A p \in Prices : price[p] # NoPrice => price'[p].product = price[p].product
<1> USE DEF PriceInv
<1>1. ASSUME NEW v \in Saves, ArchivePrice(v)
      PROVE  \A p \in Prices : price[p] # NoPrice => price'[p].product = price[p].product
  <2>1. \A p \in Prices : price'[p] = price[p] \/ price'[p] = [price[p] EXCEPT !.active = FALSE]
    BY <1>1 DEF ArchivePrice, PlansTypeOK
  <2> QED  BY <2>1, Archived
<1>2. ASSUME NEW v \in Saves, NEW q \in Prices, CreatePrice(v, q)
      PROVE  \A p \in Prices : price[p] # NoPrice => price'[p].product = price[p].product
  BY <1>2 DEF CreatePrice, PlansTypeOK
<1>3. ASSUME NEW d \in Products, ProductGone(d)
      PROVE  \A p \in Prices : price[p] # NoPrice => price'[p].product = price[p].product
  BY <1>3, Archived DEF ProductGone
<1>4. CASE price' = price
  BY <1>4
<1> QED
  BY <1>1, <1>2, <1>3, <1>4
     DEF PlansNext, Boot, StartSave, ReuseProduct, CreateProduct, WritePlan, SaveFails

LEMMA FitStep == PriceInv /\ RowsFit /\ SavesFit /\ PlansNext => RowsFit' /\ SavesFit'
<1> SUFFICES ASSUME PriceInv, RowsFit, SavesFit, PlansNext PROVE RowsFit' /\ SavesFit'
  OBVIOUS
<1> DEFINE FitsNext(p, d) == p # None => price'[p].product = d
<1>0. PlansTypeOK
  BY DEF PriceInv
<1>1. \A s \in Slugs : FitsNext(plan[s].price, plan[s].product)
  BY HeldExist, ProductsStay DEF RowsFit, Fits
<1>2. \A v \in Saves : FitsNext(save[v].price, save[v].product)
  BY HeldExist, ProductsStay DEF SavesFit, Fits
<1>3. \A d : FitsNext(None, d)
  OBVIOUS
<1>4. NoSave.price = None /\ NoSave.product = None
  BY DEF NoSave
<1>5. SUFFICES /\ \A s \in Slugs : FitsNext(plan'[s].price, plan'[s].product)
               /\ \A v \in Saves : FitsNext(save'[v].price, save'[v].product)
  BY DEF RowsFit, SavesFit, Fits
<1> HIDE DEF FitsNext
<1>6. CASE Boot
  <2>1. \A v \in Saves : save'[v].price = None
    BY <1>4, <1>6 DEF Boot
  <2>2. \A s \in Slugs : plan'[s] = plan[s] \/ plan'[s].price = None
    BY <1>6 DEF Boot, Seeded
  <2> QED  BY <1>1, <1>3, <2>1, <2>2
<1>7. ASSUME NEW v \in Saves, NEW w, save' = [save EXCEPT ![v] = w],
             FitsNext(w.price, w.product), UNCHANGED plan
      PROVE  /\ \A s \in Slugs : FitsNext(plan'[s].price, plan'[s].product)
             /\ \A x \in Saves : FitsNext(save'[x].price, save'[x].product)
  BY <1>0, <1>1, <1>2, <1>7 DEF PlansTypeOK
<1>8. ASSUME NEW v \in Saves, NEW t \in Slugs, NEW amount \in Amounts,
             NEW active \in BOOLEAN \cup {None}, StartSave(v, t, amount, active)
      PROVE  /\ \A s \in Slugs : FitsNext(plan'[s].price, plan'[s].product)
             /\ \A x \in Saves : FitsNext(save'[x].price, save'[x].product)
  <2> DEFINE w == [step |-> IF configured THEN "product" ELSE "write", slug |-> t,
                   amount |-> amount, active |-> active, was |-> plan[t].amount,
                   product |-> plan[t].product, price |-> plan[t].price]
  <2>1. save' = [save EXCEPT ![v] = w] /\ UNCHANGED plan
    BY <1>8 DEF StartSave
  <2>2. w.price = plan[t].price /\ w.product = plan[t].product
    OBVIOUS
  <2> HIDE DEF w
  <2> QED  BY <1>1, <1>7, <2>1, <2>2
<1>9. ASSUME NEW v \in Saves, NEW u \in Save, save' = [save EXCEPT ![v] = Priced(u)],
             FitsNext(u.price, u.product), UNCHANGED plan
      PROVE  /\ \A s \in Slugs : FitsNext(plan'[s].price, plan'[s].product)
             /\ \A x \in Saves : FitsNext(save'[x].price, save'[x].product)
  <2>1. Priced(u).price = u.price /\ Priced(u).product = u.product
    BY DEF Priced, Save
  <2> QED  BY <1>7, <1>9, <2>1
<1>10. ASSUME NEW v \in Saves, ReuseProduct(v)
       PROVE  /\ \A s \in Slugs : FitsNext(plan'[s].price, plan'[s].product)
              /\ \A x \in Saves : FitsNext(save'[x].price, save'[x].product)
  <2>1. save[v] \in Save
    BY <1>0, <1>10, PlanFields DEF ReuseProduct
  <2> QED  BY <1>2, <1>9, <1>10, <2>1 DEF ReuseProduct
<1>11. ASSUME NEW v \in Saves, NEW d \in Products, CreateProduct(v, d)
       PROVE  /\ \A s \in Slugs : FitsNext(plan'[s].price, plan'[s].product)
              /\ \A x \in Saves : FitsNext(save'[x].price, save'[x].product)
  <2> DEFINE u == WithProduct(save[v], d)
  <2>1. save[v] \in Save
    BY <1>0, <1>11, PlanFields DEF CreateProduct
  <2>2. u \in Save /\ u.price = IF save[v].product = None THEN save[v].price ELSE None
    BY <2>1 DEF WithProduct, Save
  <2>3. save' = [save EXCEPT ![v] = Priced(u)] /\ UNCHANGED plan
    BY <1>11 DEF CreateProduct
  <2> HIDE DEF u
  <2>4. u.price = None
    <3>1. save[v].price # None => save[v].product \in Products
      BY <1>0, HeldExist, PlanFields DEF SavesFit, Fits
    <3> QED  BY <2>2, <3>1, PlanFields, <1>0
  <2> QED  BY <1>3, <1>9, <2>2, <2>3, <2>4
<1>12. ASSUME NEW v \in Saves, ArchivePrice(v)
       PROVE  /\ \A s \in Slugs : FitsNext(plan'[s].price, plan'[s].product)
              /\ \A x \in Saves : FitsNext(save'[x].price, save'[x].product)
  <2> DEFINE w == [save[v] EXCEPT !.step = "price"]
  <2>1. save[v] \in Save
    BY <1>0, <1>12, PlanFields DEF ArchivePrice
  <2>2. w.price = save[v].price /\ w.product = save[v].product
    BY <2>1 DEF Save
  <2>3. save' = [save EXCEPT ![v] = w] /\ UNCHANGED plan
    BY <1>12 DEF ArchivePrice
  <2> HIDE DEF w
  <2> QED  BY <1>2, <1>7, <2>2, <2>3
<1>13. ASSUME NEW v \in Saves, NEW p \in Prices, CreatePrice(v, p)
       PROVE  /\ \A s \in Slugs : FitsNext(plan'[s].price, plan'[s].product)
              /\ \A x \in Saves : FitsNext(save'[x].price, save'[x].product)
  <2> DEFINE w == [save[v] EXCEPT !.step = "write", !.price = p]
  <2>1. save[v] \in Save
    BY <1>0, <1>13, PlanFields DEF CreatePrice
  <2>2. w.price = p /\ w.product = save[v].product
    BY <2>1 DEF Save
  <2>3. /\ save' = [save EXCEPT ![v] = w] /\ UNCHANGED plan
        /\ price' = [price EXCEPT ![p] = [amount |-> save[v].amount,
                                          product |-> save[v].product, active |-> TRUE]]
    BY <1>13 DEF CreatePrice
  <2> HIDE DEF w
  <2>4. FitsNext(w.price, w.product)
    BY <1>0, <2>2, <2>3 DEF FitsNext, PlansTypeOK
  <2> QED  BY <1>7, <2>3, <2>4
<1>14. ASSUME NEW v \in Saves, WritePlan(v)
       PROVE  /\ \A s \in Slugs : FitsNext(plan'[s].price, plan'[s].product)
              /\ \A x \in Saves : FitsNext(save'[x].price, save'[x].product)
  <2> DEFINE row == Saved(plan[save[v].slug], save[v])
  <2>1. /\ plan' = [plan EXCEPT ![save[v].slug] = row]
        /\ save' = [save EXCEPT ![v] = NoSave]
    BY <1>14 DEF WritePlan
  <2>2. row.price = save[v].price /\ row.product = save[v].product
    BY DEF Saved
  <2> HIDE DEF row
  <2> QED  BY <1>0, <1>1, <1>2, <1>3, <1>4, <2>1, <2>2 DEF PlansTypeOK
<1>15. ASSUME NEW v \in Saves, SaveFails(v)
       PROVE  /\ \A s \in Slugs : FitsNext(plan'[s].price, plan'[s].product)
              /\ \A x \in Saves : FitsNext(save'[x].price, save'[x].product)
  BY <1>3, <1>4, <1>7, <1>15 DEF SaveFails
<1>16. ASSUME NEW d \in Products, ProductGone(d)
       PROVE  /\ \A s \in Slugs : FitsNext(plan'[s].price, plan'[s].product)
              /\ \A x \in Saves : FitsNext(save'[x].price, save'[x].product)
  BY <1>1, <1>2, <1>16 DEF ProductGone
<1> QED
  BY <1>6, <1>8, <1>10, <1>11, <1>12, <1>13, <1>14, <1>15, <1>16 DEF PlansNext

\* The step takes no product from the plan or from a save of it.
KeepsProducts(s) ==
  \A d \in Products : product[d] # "gone" =>
    \/ product'[d] # "gone"
    \/ plan[s].product # d /\ \A v \in Saving(s) : save[v].product # d

\* A step that concerns neither the plan nor a save of it.
LEMMA Untouched ==
  ASSUME PriceInv, NEW s \in Slugs, Sound(s), plan'[s] = plan[s],
         \A v \in Saves : save[v].slug = s \/ save'[v].slug = s => save'[v] = save[v],
         \A p \in Prices : Holds(s, p) => price'[p] = price[p],
         KeepsProducts(s)
  PROVE  Sound(s)'
<1>1. Saving(s)' = Saving(s) /\ \A v \in Saving(s) : v \in Saves /\ save'[v] = save[v]
  BY DEF Saving
<1>2. plan[s].price # None => price'[plan[s].price] = price[plan[s].price]
  BY PlanFields DEF Holds, PlanHolds, PriceInv
<1>3. \A v \in Saving(s) : save[v].price # None => price'[save[v].price] = price[save[v].price]
  BY PlanFields DEF Holds, SaveHolds, PriceInv, Saving
<1>4. OneSave(s)'
  BY DEF Sound, OneSave
<1>5. PlanIsSold(s)'
  BY <1>1, <1>2 DEF Sound, PlanIsSold
<1>6. SaveWillSell(s)'
  BY <1>1, <1>3 DEF Sound, SaveWillSell
<1>7. ProductIsKnown(s)'
  <2>1. Used(plan[s].product) => Used(plan[s].product)'
    BY PlanFields DEF Used, PriceInv, KeepsProducts
  <2>2. \A v \in Saving(s) : Used(save[v].product) => Used(save[v].product)'
    BY <1>1, PlanFields DEF Used, PriceInv, KeepsProducts
  <2> QED  BY <1>1, <2>1, <2>2 DEF Sound, ProductIsKnown, Used
<1> QED  BY <1>4, <1>5, <1>6, <1>7 DEF Sound

\* A step of the only save of a plan, with w what the save becomes.
LEMMA OwnStep ==
  ASSUME PriceInv, NEW v \in Saves, NEW w, NEW s \in Slugs, OneSave(s), save[v].slug = s,
         save' = [save EXCEPT ![v] = w], w.slug = s, UNCHANGED plan,
         plan[s].price # None => price'[plan[s].price].active \/ w.step \in {"price", "write"},
         w.step # "product",
         w.step = "write" /\ w.price # None => price'[w.price].active,
         w.product # None => product'[w.product] # "gone",
         \/ plan[s].product # None => product'[plan[s].product] # "gone"
         \/ w.step = "write"
  PROVE  Sound(s)'
<1>1. save'[v] = w /\ \A x \in Saves \ {v} : save'[x] = save[x]
  BY DEF PriceInv, PlansTypeOK
<1>2. Saving(s)' = {v}
  BY <1>1 DEF Saving, OneSave
<1>3. OneSave(s)'
  BY <1>1 DEF OneSave
<1>4. PlanIsSold(s)'
  BY <1>1, <1>2 DEF PlanIsSold
<1>5. SaveWillSell(s)'
  BY <1>1, <1>2 DEF SaveWillSell
<1>6. ProductIsKnown(s)'
  BY <1>1, <1>2 DEF ProductIsKnown, Used
<1> QED  BY <1>3, <1>4, <1>5, <1>6 DEF Sound

LEMMA SaleStep == SaleInv /\ PlansNext => SaleInv'
<1> SUFFICES ASSUME SaleInv, PlansNext PROVE SaleInv'
  OBVIOUS
<1> USE DEF SaleInv
<1>0. PriceInv' /\ PlansTypeOK /\ RowsFit' /\ SavesFit'
  BY PriceStep, FitStep DEF PriceInv
<1>1. CASE Boot
  <2> SUFFICES ASSUME NEW s \in Slugs \ troubled' PROVE Sound(s)'
    BY <1>0
  <2>1. s \notin troubled /\ \A v \in Saves : save[v].slug # s
    BY <1>0, <1>1, PlanFields DEF Boot
  <2>2. \A v \in Saves : save'[v].slug = None
    BY <1>1 DEF Boot, NoSave
  <2>3. plan'[s] = plan[s] \/ (plan'[s].price = None /\ plan'[s].product = None)
    BY <1>1 DEF Boot, Seeded
  <2>4. /\ plan[s].price # None => price[plan[s].price].active
        /\ Used(plan[s].product)
    BY <2>1 DEF Sound, PlanIsSold, ProductIsKnown, Saving
  <2>5. UNCHANGED <<price, product>>
    BY <1>1 DEF Boot
  <2>6. OneSave(s)' /\ SaveWillSell(s)'
    BY <2>2, SubscriptionAssumption DEF OneSave, SaveWillSell, Saving
  <2>7. PlanIsSold(s)'
    BY <2>3, <2>4, <2>5 DEF PlanIsSold
  <2>8. ProductIsKnown(s)'
    BY <2>2, <2>3, <2>4, <2>5, SubscriptionAssumption DEF ProductIsKnown, Used, Saving
  <2> QED  BY <2>6, <2>7, <2>8 DEF Sound
<1>2. ASSUME NEW v \in Saves, NEW t \in Slugs, NEW amount \in Amounts,
             NEW active \in BOOLEAN \cup {None}, StartSave(v, t, amount, active)
      PROVE  SaleInv'
  <2> DEFINE w == [step |-> IF configured THEN "product" ELSE "write", slug |-> t,
                   amount |-> amount, active |-> active, was |-> plan[t].amount,
                   product |-> plan[t].product, price |-> plan[t].price]
  <2>1. /\ save[v] = NoSave /\ save' = [save EXCEPT ![v] = w]
        /\ troubled' = IF Saving(t) = {} THEN troubled ELSE troubled \cup {t}
        /\ UNCHANGED <<plan, product, price, configured, offline>>
    BY <1>2 DEF StartSave
  <2>2. /\ w.slug = t /\ w.price = plan[t].price /\ w.product = plan[t].product
        /\ w.step \in {"product", "write"}
    OBVIOUS
  <2> HIDE DEF w
  <2>3. save'[v] = w /\ \A x \in Saves \ {v} : save'[x] = save[x]
    BY <1>0, <2>1 DEF PlansTypeOK
  <2>4. ASSUME NEW s \in Slugs \ troubled' PROVE Sound(s)'
    <3>1. s \notin troubled
      BY <2>1
    <3>2. CASE s # t
      <4>1. save[v].slug = None /\ KeepsProducts(s)
        BY <2>1 DEF NoSave, KeepsProducts
      <4> QED  BY <2>1, <2>2, <2>3, <3>1, <3>2, <4>1, Untouched, SubscriptionAssumption
    <3>3. CASE s = t
      <4>1. Saving(s) = {} /\ Saving(s)' = {v}
        BY <2>1, <2>2, <2>3, <3>3 DEF Saving
      <4>2. /\ plan[s].price # None => price[plan[s].price].active
            /\ Used(plan[s].product)
        BY <3>1, <4>1 DEF Sound, PlanIsSold, ProductIsKnown
      <4>3. OneSave(s)'
        BY <4>1 DEF OneSave, Saving
      <4>4. PlanIsSold(s)'
        BY <2>1, <4>2 DEF PlanIsSold
      <4>5. SaveWillSell(s)'
        BY <2>1, <2>2, <2>3, <3>3, <4>1, <4>2 DEF SaveWillSell
      <4>6. ProductIsKnown(s)'
        BY <2>1, <2>2, <2>3, <3>3, <4>1, <4>2 DEF ProductIsKnown, Used
      <4> QED  BY <4>3, <4>4, <4>5, <4>6 DEF Sound
    <3> QED  BY <3>2, <3>3
  <2> QED  BY <1>0, <2>4
<1>3. ASSUME NEW v \in Saves, NEW u \in Save, save[v].step = "product", u.slug = save[v].slug,
             save' = [save EXCEPT ![v] = Priced(u)], UNCHANGED <<plan, price, troubled>>,
             \A d \in Products : product[d] # "gone" => product'[d] # "gone",
             u.price = save[v].price \/ u.price = None,
             save[v].slug \notin troubled => (u.product # None => product'[u.product] # "gone")
      PROVE  SaleInv'
  <2> DEFINE w == Priced(u)
             t == save[v].slug
  <2>1. t \in Slugs
    BY <1>0, <1>3, PlanFields
  <2>2. /\ w.slug = t /\ w.price = u.price /\ w.product = u.product
        /\ w.step \in {"archive", "price", "write"}
        /\ w.step = "write" => w.price # None
        /\ w.price = None => w.step = "price"
    BY <1>3 DEF Priced, NeedsPrice, Save
  <2> HIDE DEF w
  <2>3. save' = [save EXCEPT ![v] = w] /\ save'[v] = w /\ \A x \in Saves \ {v} : save'[x] = save[x]
    BY <1>0, <1>3 DEF PlansTypeOK, w
  <2>4. ASSUME NEW s \in Slugs \ troubled' PROVE Sound(s)'
    <3>1. s \notin troubled
      BY <1>3
    <3>2. CASE s # t
      <4>1. KeepsProducts(s)
        BY <1>3 DEF KeepsProducts
      <4> QED  BY <1>3, <2>2, <2>3, <3>1, <3>2, <4>1, Untouched
    <3>3. CASE s = t
      <4>1. OneSave(s) /\ Saving(s) = {v}
        BY <3>1, <3>3 DEF Saving, Sound, OneSave
      <4>2. save[v].price = plan[s].price
        BY <1>3, <3>1, <4>1 DEF Sound, SaveWillSell
      <4>3. plan[s].price # None => price[plan[s].price].active
        BY <1>3, <3>1, <4>1 DEF Sound, PlanIsSold
      <4>4. w.step = "write" => w.price = plan[s].price
        BY <1>3, <2>2, <4>2
      <4>5. plan[s].product # None => product'[plan[s].product] # "gone"
        BY <1>0, <1>3, <3>1, <4>1, PlanFields DEF Sound, ProductIsKnown, Used
      <4> QED  BY <1>3, <2>2, <2>3, <3>1, <3>3, <4>1, <4>3, <4>4, <4>5, OwnStep
    <3> QED  BY <3>2, <3>3
  <2> QED  BY <1>0, <2>4
<1>4. ASSUME NEW v \in Saves, ReuseProduct(v) PROVE SaleInv'
  <2>1. save[v] \in Save
    BY <1>0, <1>4, PlanFields DEF ReuseProduct
  <2>2. product[save[v].product] # "gone" /\ UNCHANGED product
    BY <1>4 DEF ReuseProduct
  <2> QED  BY <1>3, <1>4, <2>1, <2>2 DEF ReuseProduct
<1>5. ASSUME NEW v \in Saves, NEW d \in Products, CreateProduct(v, d) PROVE SaleInv'
  <2> DEFINE u == WithProduct(save[v], d)
             t == save[v].slug
  <2>1. save[v] \in Save /\ t \in Slugs
    BY <1>0, <1>5, PlanFields DEF CreateProduct
  <2>2. u \in Save /\ u.slug = t /\ u.product = d /\ (u.price = save[v].price \/ u.price = None)
    BY <2>1 DEF WithProduct, Save
  <2>3. /\ save[v].step = "product" /\ save' = [save EXCEPT ![v] = Priced(u)]
        /\ product' = [product EXCEPT ![d] = "live"]
        /\ UNCHANGED <<plan, price, configured, offline, troubled>>
    BY <1>5 DEF CreateProduct
  <2> HIDE DEF u
  <2>4. /\ \A e \in Products : product[e] # "gone" => product'[e] # "gone"
        /\ product'[u.product] # "gone"
    BY <1>0, <2>2, <2>3 DEF PlansTypeOK
  <2> QED  BY <1>3, <2>2, <2>3, <2>4
<1>6. ASSUME NEW v \in Saves, ArchivePrice(v) PROVE SaleInv'
  <2> DEFINE w == [save[v] EXCEPT !.step = "price"]
             t == save[v].slug
  <2>1. save[v] \in Save /\ t \in Slugs
    BY <1>0, <1>6, PlanFields DEF ArchivePrice
  <2>2. w.step = "price" /\ w.slug = t /\ w.product = save[v].product
    BY <2>1 DEF Save
  <2>3. /\ save' = [save EXCEPT ![v] = w] /\ save[v].step = "archive"
        /\ UNCHANGED <<plan, product, configured, offline, troubled>>
        /\ \/ price' = [price EXCEPT ![save[v].price].active = FALSE]
           \/ price' = price
    BY <1>6 DEF ArchivePrice
  <2> HIDE DEF w
  <2>4. \A p \in Prices : price'[p] = price[p] \/ p = save[v].price
    BY <1>0, <2>3 DEF PlansTypeOK
  <2>5. save'[v] = w /\ \A x \in Saves \ {v} : save'[x] = save[x]
    BY <1>0, <2>3 DEF PlansTypeOK
  <2>6. ASSUME NEW s \in Slugs \ troubled' PROVE Sound(s)'
    <3>1. s \notin troubled
      BY <2>3
    <3>2. CASE s # t
      <4>1. ASSUME NEW p \in Prices, Holds(s, p) PROVE price'[p] = price[p]
        <5>1. CASE p = save[v].price
          <6>1. Holds(t, p)
            BY <5>1 DEF Holds, SaveHolds
          <6> QED  BY <2>1, <3>2, <4>1, <6>1 DEF PriceInv, PricesAreOwned
        <5> QED  BY <2>4, <5>1
      <4>2. KeepsProducts(s)
        BY <2>3 DEF KeepsProducts
      <4> QED  BY <2>2, <2>3, <2>5, <3>1, <3>2, <4>1, <4>2, Untouched
    <3>3. CASE s = t
      <4>1. OneSave(s) /\ Saving(s) = {v}
        BY <3>1, <3>3 DEF Saving, Sound, OneSave
      <4>2. Used(save[v].product) /\ Used(plan[s].product)
        BY <2>3, <3>1, <4>1 DEF Sound, ProductIsKnown
      <4> QED  BY <2>2, <2>3, <3>3, <4>1, <4>2, OwnStep DEF Used
    <3> QED  BY <3>2, <3>3
  <2> QED  BY <1>0, <2>6
<1>7. ASSUME NEW v \in Saves, NEW p \in Prices, CreatePrice(v, p) PROVE SaleInv'
  <2> DEFINE row == [amount |-> save[v].amount, product |-> save[v].product, active |-> TRUE]
             w == [save[v] EXCEPT !.step = "write", !.price = p]
             t == save[v].slug
  <2>1. save[v] \in Save /\ t \in Slugs
    BY <1>0, <1>7, PlanFields DEF CreatePrice
  <2>2. /\ w.step = "write" /\ w.slug = t /\ w.price = p /\ w.product = save[v].product
        /\ row.active
    BY <2>1 DEF Save
  <2>3. /\ price[p] = NoPrice /\ save' = [save EXCEPT ![v] = w]
        /\ price' = [price EXCEPT ![p] = row]
        /\ product[save[v].product] = "live"
        /\ troubled' = IF Saving(t) = {v} THEN troubled \ {t} ELSE troubled
        /\ UNCHANGED <<plan, product, configured, offline>>
    BY <1>7 DEF CreatePrice
  <2> HIDE DEF row, w
  <2>4. /\ save'[v] = w /\ \A x \in Saves \ {v} : save'[x] = save[x]
        /\ price'[p] = row /\ \A q \in Prices \ {p} : price'[q] = price[q]
    BY <1>0, <2>3 DEF PlansTypeOK
  <2>5. \A s \in Slugs : ~Holds(s, p)
    BY <2>3 DEF PriceInv, PricesAreOwned
  <2>6. ASSUME NEW s \in Slugs \ troubled' PROVE Sound(s)'
    <3>1. CASE s # t
      <4>1. s \notin troubled
        BY <2>3, <3>1
      <4>2. \A q \in Prices : Holds(s, q) => price'[q] = price[q]
        BY <2>4, <2>5
      <4>3. KeepsProducts(s)
        BY <2>3 DEF KeepsProducts
      <4> QED  BY <2>2, <2>3, <2>4, <3>1, <4>1, <4>2, <4>3, Untouched
    <3>2. CASE s = t
      <4>1. OneSave(s)
        <5>1. CASE Saving(t) = {v}
          BY <3>2, <5>1 DEF Saving, OneSave
        <5>2. CASE s \notin troubled
          BY <5>2 DEF Sound
        <5> QED  BY <2>3, <3>2, <5>1, <5>2
      <4>2. w.step = "write" /\ price'[w.price].active
        BY <2>2, <2>4
      <4>3. product'[w.product] # "gone"
        BY <2>2, <2>3
      <4> QED  BY <2>2, <2>3, <3>2, <4>1, <4>2, <4>3, OwnStep
    <3> QED  BY <3>1, <3>2
  <2> QED  BY <1>0, <2>6
<1>8. ASSUME NEW v \in Saves, WritePlan(v) PROVE SaleInv'
  <2> DEFINE w == save[v]
             row == Saved(plan[w.slug], w)
  <2>1. w \in Save /\ w.slug \in Slugs
    BY <1>0, <1>8, PlanFields DEF WritePlan
  <2>2. /\ w.step = "write" /\ plan' = [plan EXCEPT ![w.slug] = row]
        /\ save' = [save EXCEPT ![v] = NoSave]
        /\ UNCHANGED <<product, price, configured, troubled>>
    BY <1>8 DEF WritePlan
  <2>3. row.product = w.product /\ row.price = w.price /\ NoSave.slug = None
    BY DEF Saved, NoSave
  <2> HIDE DEF row
  <2>4. /\ save'[v] = NoSave /\ \A x \in Saves \ {v} : save'[x] = save[x]
        /\ plan'[w.slug] = row /\ \A s \in Slugs \ {w.slug} : plan'[s] = plan[s]
    BY <1>0, <2>1, <2>2 DEF PlansTypeOK
  <2>5. ASSUME NEW s \in Slugs \ troubled' PROVE Sound(s)'
    <3>1. s \notin troubled
      BY <2>2
    <3>2. CASE s # w.slug
      <4>1. KeepsProducts(s)
        BY <2>2 DEF KeepsProducts
      <4> QED  BY <2>2, <2>3, <2>4, <3>1, <3>2, <4>1, Untouched, SubscriptionAssumption
    <3>3. CASE s = w.slug
      <4>1. Saving(s) = {v} /\ Saving(s)' = {}
        BY <2>3, <2>4, <3>1, <3>3, SubscriptionAssumption DEF Saving, Sound, OneSave
      <4>2. (w.price # None => price[w.price].active) /\ Used(w.product)
        BY <2>2, <3>1, <4>1 DEF Sound, SaveWillSell, ProductIsKnown
      <4>3. OneSave(s)' /\ SaveWillSell(s)'
        BY <4>1 DEF OneSave, SaveWillSell, Saving
      <4>4. PlanIsSold(s)'
        BY <2>2, <2>3, <2>4, <3>3, <4>2 DEF PlanIsSold
      <4>5. ProductIsKnown(s)'
        BY <2>2, <2>3, <2>4, <3>3, <4>1, <4>2 DEF ProductIsKnown, Used
      <4> QED  BY <4>3, <4>4, <4>5 DEF Sound
    <3> QED  BY <3>2, <3>3
  <2> QED  BY <1>0, <2>5
<1>9. ASSUME NEW v \in Saves, SaveFails(v) PROVE SaleInv'
  <2>1. /\ save' = [save EXCEPT ![v] = NoSave] /\ troubled' = troubled \cup {save[v].slug}
        /\ UNCHANGED <<plan, product, price, configured, offline>>
    BY <1>9 DEF SaveFails
  <2>2. save'[v] = NoSave /\ \A x \in Saves \ {v} : save'[x] = save[x]
    BY <1>0, <2>1 DEF PlansTypeOK
  <2>3. \A s \in Slugs : KeepsProducts(s)
    BY <2>1 DEF KeepsProducts
  <2>4. \A s \in Slugs \ troubled' : Sound(s)'
    BY <2>1, <2>2, <2>3, Untouched, SubscriptionAssumption DEF NoSave
  <2> QED  BY <1>0, <2>4
<1>10. ASSUME NEW d \in Products, ProductGone(d) PROVE SaleInv'
  <2>1. /\ product' = [product EXCEPT ![d] = "gone"]
        /\ troubled' = troubled \cup
             {s \in Slugs : plan[s].product = d \/ \E v \in Saving(s) : save[v].product = d}
        /\ \A p \in Prices : price[p].product # d => price'[p] = price[p]
        /\ UNCHANGED <<plan, save>>
    BY <1>10 DEF ProductGone
  <2>2. \A e \in Products : product'[e] = IF e = d THEN "gone" ELSE product[e]
    BY <1>0, <2>1 DEF PlansTypeOK
  <2>3. ASSUME NEW s \in Slugs \ troubled' PROVE Sound(s)'
    <3>1. s \notin troubled /\ plan[s].product # d /\ \A v \in Saving(s) : save[v].product # d
      BY <2>1
    <3>2. ASSUME NEW p \in Prices, Holds(s, p) PROVE price'[p] = price[p]
      <4>1. p # None
        BY <1>0, PlanFields
      <4>2. CASE PlanHolds(s, p)
        BY <2>1, <3>1, <4>1, <4>2 DEF PlanHolds, RowsFit, Fits
      <4>3. ASSUME NEW v \in Saves, SaveHolds(v, s, p) PROVE price'[p] = price[p]
        BY <2>1, <3>1, <4>1, <4>3 DEF SaveHolds, SavesFit, Fits, Saving
      <4> QED  BY <3>2, <4>2, <4>3 DEF Holds
    <3>3. KeepsProducts(s)
      BY <2>2, <3>1 DEF KeepsProducts
    <3> QED  BY <2>1, <3>1, <3>2, <3>3, Untouched
  <2> QED  BY <1>0, <2>3
<1> QED
  BY <1>1, <1>2, <1>4, <1>5, <1>6, <1>7, <1>8, <1>9, <1>10 DEF PlansNext

LEMMA SaleUnchanged == SaleInv /\ UNCHANGED planVars => SaleInv'
BY DEF planVars, SaleInv, PriceInv, PlansTypeOK, PricesAreOwned, SavesKnowTheAmount,
       SavesKnowTheProduct, StepsNeedStripe, PriceMatchesAmount, RowsFit, SavesFit, Fits, Sound,
       OneSave, PlanIsSold, SaveWillSell, ProductIsKnown, Used, Saving, Holds, PlanHolds,
       SaveHolds

LEMMA PricesStay ==
  ASSUME PriceInv, PlansNext PROVE \A p \in Prices : price[p] # NoPrice => price'[p] # NoPrice
<1> USE DEF PriceInv
<1>1. ASSUME NEW v \in Saves, ArchivePrice(v)
      PROVE  \A p \in Prices : price[p] # NoPrice => price'[p] # NoPrice
  <2>1. \A p \in Prices : price'[p] = price[p] \/ price'[p] = [price[p] EXCEPT !.active = FALSE]
    BY <1>1 DEF ArchivePrice, PlansTypeOK
  <2> QED  BY <2>1, Archived
<1>2. ASSUME NEW v \in Saves, NEW q \in Prices, CreatePrice(v, q)
      PROVE  \A p \in Prices : price[p] # NoPrice => price'[p] # NoPrice
  BY <1>2 DEF CreatePrice, PlansTypeOK
<1>3. ASSUME NEW d \in Products, ProductGone(d)
      PROVE  \A p \in Prices : price[p] # NoPrice => price'[p] # NoPrice
  BY <1>3, Archived DEF ProductGone
<1>4. CASE price' = price
  BY <1>4
<1> QED
  BY <1>1, <1>2, <1>3, <1>4
     DEF PlansNext, Boot, StartSave, ReuseProduct, CreateProduct, WritePlan, SaveFails

-----------------------------------------------------------------------------
(* Types of the subscriptions *)

\* A request knows its customer once it has one, and a price that exists.
RequestsKnow ==
  /\ \A x \in Checkouts :
       /\ checkout[x].step \in {"store", "open"} => checkout[x].customer \in Customers
       /\ checkout[x].slug # None =>
            checkout[x].price \in Prices /\ price[checkout[x].price] # NoPrice
  /\ \A e \in session : price[e.price] # NoPrice

BaseInv == TypeOK /\ SaleInv /\ RequestsKnow

LEMMA Fields ==
  ASSUME TypeOK
  PROVE  /\ \A x \in Checkouts :
              /\ checkout[x] = NoCheckout \/ checkout[x] \in Checkout
              /\ checkout[x].customer \in Customers \cup {None}
              /\ checkout[x] = NoCheckout => checkout[x].step = "none" /\ checkout[x].user = None
              /\ checkout[x] # NoCheckout => checkout[x].user \in Users
         /\ \A u \in Users :
              /\ mirror[u] = NoMirror \/ mirror[u] \in Mirror
              /\ mirror[u].customer \in Customers \cup {None}
              /\ mirror[u] = NoMirror => mirror[u].customer = None /\ mirror[u].sub = None
              /\ mirror[u] # NoMirror => mirror[u].customer \in Customers
              /\ changes[u] \in Nat /\ changes[u] \in 0..MaxChanges /\ seen[u] \in Nat
         /\ \A s \in Subs :
              /\ sub[s] = NoSub \/ sub[s] \in Snapshot
              /\ sub[s].version \in Nat
              /\ sub[s] = NoSub => sub[s].user = None /\ sub[s].status = "none"
              /\ sub[s] # NoSub => sub[s].user \in Users /\ sub[s].version \in 1..MaxChanges
         /\ \A e \in event : e.sub \in Subs /\ e.of \in Snapshot
         /\ \A e \in session :
              e.user \in Users /\ e.customer \in Customers /\ e.slug \in Slugs /\ e.price \in Prices
         /\ \A c \in Customers :
              /\ customer[c] = NoCustomer \/ customer[c] \in CustomerRow
              /\ customer[c] = NoCustomer => ~customer[c].live /\ customer[c].user = None
         /\ None \notin Users \cup Customers \cup Subs
<1>1. ASSUME NEW x \in Checkouts
      PROVE  /\ checkout[x] = NoCheckout \/ checkout[x] \in Checkout
             /\ checkout[x].customer \in Customers \cup {None}
             /\ checkout[x] = NoCheckout => checkout[x].step = "none" /\ checkout[x].user = None
             /\ checkout[x] # NoCheckout => checkout[x].user \in Users
  <2>1. checkout[x] = NoCheckout \/ checkout[x] \in Checkout
    BY DEF TypeOK
  <2> QED  BY <2>1 DEF NoCheckout, Checkout
<1>2. ASSUME NEW u \in Users
      PROVE  /\ mirror[u] = NoMirror \/ mirror[u] \in Mirror
             /\ mirror[u].customer \in Customers \cup {None}
             /\ mirror[u] = NoMirror => mirror[u].customer = None /\ mirror[u].sub = None
             /\ mirror[u] # NoMirror => mirror[u].customer \in Customers
             /\ changes[u] \in Nat /\ changes[u] \in 0..MaxChanges /\ seen[u] \in Nat
  <2>1. mirror[u] = NoMirror \/ mirror[u] \in Mirror
    BY DEF TypeOK
  <2>2. changes[u] \in 0..MaxChanges /\ seen[u] \in 0..MaxChanges /\ MaxChanges \in Nat
    BY SubscriptionAssumption DEF TypeOK
  <2> QED  BY <2>1, <2>2 DEF NoMirror, Mirror
<1>3. ASSUME NEW s \in Subs
      PROVE  /\ sub[s] = NoSub \/ sub[s] \in Snapshot
             /\ sub[s].version \in Nat
             /\ sub[s] = NoSub => sub[s].user = None /\ sub[s].status = "none"
             /\ sub[s] # NoSub => sub[s].user \in Users /\ sub[s].version \in 1..MaxChanges
  <2>1. sub[s] = NoSub \/ sub[s] \in Snapshot
    BY DEF TypeOK
  <2> QED  BY <2>1, SubscriptionAssumption DEF NoSub, Snapshot
<1>4. \A e \in event : e.sub \in Subs /\ e.of \in Snapshot
  BY DEF TypeOK
<1>5. \A e \in session :
        e.user \in Users /\ e.customer \in Customers /\ e.slug \in Slugs /\ e.price \in Prices
  BY DEF TypeOK
<1>6. \A c \in Customers :
        /\ customer[c] = NoCustomer \/ customer[c] \in CustomerRow
        /\ customer[c] = NoCustomer => ~customer[c].live /\ customer[c].user = None
  BY DEF TypeOK, NoCustomer
<1> QED  BY <1>1, <1>2, <1>3, <1>4, <1>5, <1>6, SubscriptionAssumption

LEMMA BaseInitial == Init => BaseInv
<1> SUFFICES ASSUME Init PROVE BaseInv
  OBVIOUS
<1>1. SaleInv /\ PlansTypeOK
  BY SaleInitial DEF Init, SaleInv, PriceInv
<1>2. TypeOK
  BY <1>1, SubscriptionAssumption DEF Init, SubscriptionsInit, TypeOK
<1>3. RequestsKnow
  BY DEF Init, SubscriptionsInit, RequestsKnow, NoCheckout
<1> QED  BY <1>1, <1>2, <1>3 DEF BaseInv

\* A step of one request.
LEMMA RequestTyped ==
  ASSUME BaseInv, NEW x \in Checkouts, NEW w \in Checkout \cup {NoCheckout},
         checkout' = [checkout EXCEPT ![x] = w], UNCHANGED planVars, TypeOK',
         w.step \in {"store", "open"} => w.customer \in Customers,
         w.slug # None => w.price \in Prices /\ price[w.price] # NoPrice,
         \A e \in session' : e \in session \/ price[e.price] # NoPrice
  PROVE  BaseInv'
<1> USE DEF BaseInv
<1>1. checkout'[x] = w /\ \A y \in Checkouts \ {x} : checkout'[y] = checkout[y]
  BY DEF TypeOK
<1>2. RequestsKnow'
  BY <1>1 DEF RequestsKnow, planVars
<1>3. SaleInv'
  BY SaleUnchanged
<1> QED  BY <1>2, <1>3

\* A step of Stripe or of a handler, which changes no request.
LEMMA BaseKept ==
  ASSUME BaseInv, TypeOK', UNCHANGED planVars, UNCHANGED checkout, session' \subseteq session
  PROVE  BaseInv'
<1>1. SaleInv'
  BY SaleUnchanged DEF BaseInv
<1>2. price' = price
  BY DEF planVars
<1> QED  BY <1>1, <1>2 DEF BaseInv, RequestsKnow

LEMMA PlansTypeUnchanged == PlansTypeOK /\ UNCHANGED planVars => PlansTypeOK'
BY DEF planVars, PlansTypeOK

\* The state a report leaves is typed.
LEMMA ReportTyped ==
  ASSUME TypeOK, NEW s \in Subs, NEW now \in Snapshot, Report(s, now)
  PROVE  /\ sub' = [sub EXCEPT ![s] = [now EXCEPT !.version = changes[now.user] + 1]]
         /\ [now EXCEPT !.version = changes[now.user] + 1] \in Snapshot
         /\ event' = event \cup {[sub |-> s, of |-> sub'[s]]}
         /\ changes' = [changes EXCEPT ![now.user] = changes[now.user] + 1]
         /\ changes[now.user] + 1 \in 0..MaxChanges
         /\ sub' \in [Subs -> Snapshot \cup {NoSub}]
         /\ event' \subseteq [sub: Subs, of: Snapshot]
         /\ changes' \in [Users -> 0..MaxChanges]
<1>1. now.user \in Users /\ changes[now.user] < MaxChanges
  BY DEF Report, Snapshot
<1>2. changes[now.user] + 1 \in 1..MaxChanges /\ changes[now.user] + 1 \in 0..MaxChanges
  BY <1>1, Fields, SubscriptionAssumption
<1>3. [now EXCEPT !.version = changes[now.user] + 1] \in Snapshot
  BY <1>2 DEF Snapshot
<1>4. /\ sub' = [sub EXCEPT ![s] = [now EXCEPT !.version = changes[now.user] + 1]]
      /\ event' = event \cup {[sub |-> s, of |-> sub'[s]]}
      /\ changes' = [changes EXCEPT ![now.user] = changes[now.user] + 1]
  BY DEF Report
<1>5. sub' \in [Subs -> Snapshot \cup {NoSub}] /\ sub'[s] \in Snapshot
  BY <1>3, <1>4 DEF TypeOK
<1>6. event' \subseteq [sub: Subs, of: Snapshot]
  BY <1>4, <1>5 DEF TypeOK
<1>7. changes' \in [Users -> 0..MaxChanges]
  BY <1>1, <1>2, <1>4 DEF TypeOK
<1> QED  BY <1>2, <1>3, <1>4, <1>5, <1>6, <1>7

\* What a subscription, or its pause, becomes.
Changed(s) ==
  {[sub[s] EXCEPT !.status = to] : to \in Stripe}
    \cup {[sub[s] EXCEPT !.status = to, !.paused = FALSE] : to \in Stripe}
    \cup {[sub[s] EXCEPT !.paused = ~sub[s].paused]}

LEMMA ChangedTyped ==
  ASSUME NEW s \in Subs, sub[s] \in Snapshot, NEW now \in Changed(s)
  PROVE  /\ now \in Snapshot
         /\ now.user = sub[s].user /\ now.customer = sub[s].customer /\ now.amount = sub[s].amount
BY DEF Changed, Snapshot

LEMMA MirroredTyped ==
  ASSUME TypeOK, NEW e \in event
  PROVE  /\ Mirrored(mirror[e.of.user], e) \in Mirror
         /\ Mirrored(mirror[e.of.user], e).sub = e.sub
         /\ Mirrored(mirror[e.of.user], e).amount = e.of.amount
         /\ Mirrored(mirror[e.of.user], e).status = mapStripeStatus(e.of.status, e.of.paused)
         /\ mapStripeStatus(e.of.status, e.of.paused) = "CANCELLED" =>
              Mirrored(mirror[e.of.user], e).grace
         /\ Mirrored(mirror[e.of.user], e).customer =
              IF mirror[e.of.user] = NoMirror THEN e.of.customer ELSE mirror[e.of.user].customer
<1> DEFINE row == mirror[e.of.user]
           base == IF row = NoMirror
                   THEN [NoMirror EXCEPT !.customer = e.of.customer, !.plan = e.of.slug]
                   ELSE row
           status == mapStripeStatus(e.of.status, e.of.paused)
           Rows == [customer: Customers, sub: Subs \cup {None}, plan: Slugs \cup {None},
                    amount: Amounts \cup {None}, grace: BOOLEAN,
                    status: {"none", "PENDING", "ACTIVE", "PAUSED", "PAST_DUE", "CANCELLED"}]
<1>1. e.sub \in Subs /\ e.of \in Snapshot /\ e.of.user \in Users
  BY Fields DEF Snapshot
<1>2. base \in Rows /\ base.customer = IF row = NoMirror THEN e.of.customer ELSE row.customer
  <2>1. CASE row = NoMirror
    BY <1>1, <2>1 DEF NoMirror, Snapshot
  <2>2. CASE row \in Mirror /\ row # NoMirror
    BY <2>2 DEF Mirror
  <2> QED  BY <1>1, <2>1, <2>2, Fields
<1>3. status \in {"PENDING", "ACTIVE", "PAUSED", "PAST_DUE", "CANCELLED"}
  BY DEF mapStripeStatus
<1>4. Mirrored(row, e) =
        [base EXCEPT !.status = status, !.sub = e.sub, !.amount = e.of.amount,
                     !.grace = IF status = "CANCELLED" THEN TRUE ELSE @]
  BY DEF Mirrored
<1>5. e.of.amount \in Amounts
  BY <1>1 DEF Snapshot
<1> HIDE DEF base, status
<1>6. /\ Mirrored(row, e) \in Mirror
      /\ Mirrored(row, e).sub = e.sub
      /\ Mirrored(row, e).amount = e.of.amount
      /\ Mirrored(row, e).status = status
      /\ status = "CANCELLED" => Mirrored(row, e).grace
      /\ Mirrored(row, e).customer = base.customer
  BY <1>1, <1>2, <1>3, <1>4, <1>5 DEF Mirror
<1> QED  BY <1>2, <1>6 DEF status

\* A running subscription is reported with a change.
LEMMA ChangeReported ==
  ASSUME TypeOK, NEW s \in Subs,
         PauseChanges(s) \/ \E to \in Stripe : StatusChanges(s, to)
  PROVE  /\ sub[s] \in Snapshot
         /\ \E now \in Changed(s) :
              /\ Report(s, now)
              /\ now.status # "canceled" => sub[s].status # "canceled"
              /\ sub[s].status # "none" /\ sub[s].status # "canceled"
         /\ UNCHANGED <<planVars, customer, invoice, session, mirror, checkout, welcomed, marker,
                        seen, disturbed, overlapped, orphaned>>
<1>1. CASE PauseChanges(s)
  <2>1. sub[s].status = "active" /\ Report(s, [sub[s] EXCEPT !.paused = ~sub[s].paused])
    BY <1>1 DEF PauseChanges
  <2>2. sub[s] \in Snapshot
    BY <2>1, Fields
  <2>3. [sub[s] EXCEPT !.paused = ~sub[s].paused].status = "active"
    BY <2>1, <2>2 DEF Snapshot
  <2> QED  BY <1>1, <2>1, <2>2, <2>3 DEF PauseChanges, Changed
<1>2. ASSUME NEW to \in Stripe, StatusChanges(s, to)
      PROVE  /\ sub[s] \in Snapshot
             /\ \E now \in Changed(s) :
                  /\ Report(s, now)
                  /\ now.status # "canceled" => sub[s].status # "canceled"
                  /\ sub[s].status # "none" /\ sub[s].status # "canceled"
             /\ UNCHANGED <<planVars, customer, invoice, session, mirror, checkout, welcomed,
                            marker, seen, disturbed, overlapped, orphaned>>
  <2>1. sub[s].status # "none" /\ sub[s].status # "canceled"
    BY <1>2 DEF StatusChanges, Reached
  <2>2. sub[s] \in Snapshot
    BY <2>1, Fields
  <2>3. CASE Report(s, [sub[s] EXCEPT !.status = to])
    <3>1. [sub[s] EXCEPT !.status = to].status = to
          /\ [sub[s] EXCEPT !.status = to].paused = sub[s].paused
      BY <2>2 DEF Snapshot
    <3> QED  BY <1>2, <2>1, <2>2, <2>3, <3>1 DEF StatusChanges, Changed
  <2>4. CASE Report(s, [sub[s] EXCEPT !.status = to, !.paused = FALSE])
    <3>1. [sub[s] EXCEPT !.status = to, !.paused = FALSE].status = to
          /\ [sub[s] EXCEPT !.status = to, !.paused = FALSE].paused = FALSE
      BY <2>2 DEF Snapshot
    <3> QED  BY <1>2, <2>1, <2>2, <2>4, <3>1 DEF StatusChanges, Changed
  <2> QED  BY <1>2, <2>3, <2>4 DEF StatusChanges
<1> QED  BY <1>1, <1>2

\* What is reported of a new subscription.
Opened(e, status) ==
  [user |-> e.user, customer |-> e.customer, slug |-> e.slug, amount |-> price[e.price].amount,
   status |-> status, paused |-> FALSE, version |-> 1]

LEMMA OpeningReported ==
  ASSUME BaseInv, NEW e \in session, NEW s \in Subs, NEW status \in Stripe,
         Subscribed(e, s, status)
  PROVE  /\ Opened(e, status) \in Snapshot /\ Report(s, Opened(e, status))
         /\ customer[e.customer].live /\ sub[s] = NoSub /\ status \in {"incomplete", "active"}
         /\ session' = session \ {e}
         /\ UNCHANGED <<planVars, customer, invoice, mirror, checkout, welcomed, marker, seen,
                        disturbed, overlapped, orphaned>>
<1>1. changes[e.user] < MaxChanges /\ changes[e.user] \in Nat
  BY Fields DEF Subscribed, Report, BaseInv
<1>2. 1 \in 1..MaxChanges
  BY <1>1, SubscriptionAssumption
<1>3. price[e.price].amount \in Amounts
  BY Fields, PlanFields DEF BaseInv, RequestsKnow, PriceRow, TypeOK
<1>4. Opened(e, status) \in Snapshot
  BY <1>2, <1>3, Fields DEF Opened, Snapshot, BaseInv
<1> QED  BY <1>4 DEF Subscribed, Opened

LEMMA BaseStep == BaseInv /\ [Next]_vars => BaseInv'
<1> SUFFICES ASSUME BaseInv, [Next]_vars PROVE BaseInv'
  OBVIOUS
<1> USE DEF BaseInv
<1>1. CASE PlanSteps
  <2>1. SaleInv' /\ PriceInv
    BY <1>1, SaleStep DEF PlanSteps, SaleInv
  <2>2. TypeOK'
    BY <1>1, <2>1 DEF PlanSteps, TypeOK, SaleInv, PriceInv, subscriptionVars, stripeVars
  <2>3. \A p \in Prices : price[p] # NoPrice => price'[p] # NoPrice
    BY <1>1, <2>1, PricesStay DEF PlanSteps
  <2>4. UNCHANGED <<checkout, session>>
    BY <1>1 DEF PlanSteps, subscriptionVars, stripeVars
  <2>5. RequestsKnow'
    BY <2>3, <2>4, Fields DEF RequestsKnow
  <2> QED  BY <2>1, <2>2, <2>5
<1>2. ASSUME NEW x \in Checkouts, NEW u \in Users, NEW slug \in Slugs \cup {None},
             NEW p \in Prices \cup {None}, StartCheckout(x, u, slug, p),
             slug # None => p \in Prices /\ price[p] # NoPrice
      PROVE  BaseInv'
  <2> DEFINE c == mirror[u].customer
             w == [step |-> IF Usable(c) THEN "open" ELSE "customer", user |-> u, slug |-> slug,
                   price |-> p, customer |-> IF Usable(c) THEN c ELSE None]
  <2>1. /\ checkout' = [checkout EXCEPT ![x] = w] /\ overlapped' \subseteq overlapped \cup {u}
        /\ UNCHANGED <<planVars, stripeVars, event, mirror, welcomed, marker, changes, seen,
                       disturbed, orphaned>>
    BY <1>2 DEF StartCheckout
  <2>2. /\ w \in Checkout /\ w.slug = slug /\ w.price = p
        /\ w.step \in {"store", "open"} => w.customer \in Customers
    BY Fields DEF Checkout, Usable
  <2> HIDE DEF w, c
  <2>3. TypeOK'
    BY <2>1, <2>2, PlansTypeUnchanged DEF TypeOK, stripeVars
  <2>4. planVars' = planVars /\ session' = session
    BY <2>1 DEF stripeVars
  <2> QED  BY <1>2, <2>1, <2>2, <2>3, <2>4, RequestTyped
<1>3. ASSUME NEW x \in Checkouts, NEW u \in Users, NEW slug \in Slugs, Subscribe(x, u, slug)
      PROVE  BaseInv'
  <2>1. plan[slug].price \in Prices /\ price[plan[slug].price] # NoPrice
    BY <1>3, PlanFields
       DEF Subscribe, SaleInv, PriceInv, PricesAreOwned, Holds, PlanHolds
  <2> QED  BY <1>2, <1>3, <2>1 DEF Subscribe
<1>4. ASSUME NEW x \in Checkouts, NEW u \in Users, Portal(x, u) PROVE BaseInv'
  BY <1>2, <1>4 DEF Portal
<1>5. ASSUME NEW x \in Checkouts, NEW c \in Customers, CreateCustomer(x, c) PROVE BaseInv'
  <2> DEFINE w == [checkout[x] EXCEPT !.step = "store", !.customer = c]
             row == [user |-> checkout[x].user, live |-> TRUE]
  <2>1. /\ checkout[x].step = "customer" /\ checkout' = [checkout EXCEPT ![x] = w]
        /\ customer' = [customer EXCEPT ![c] = row]
        /\ UNCHANGED <<planVars, sub, invoice, session, event, mirror, welcomed, marker,
                       changes, seen, disturbed, overlapped, orphaned>>
    BY <1>5 DEF CreateCustomer, TypeOK
  <2>2. checkout[x] \in Checkout /\ checkout[x].user \in Users
    BY <2>1, Fields
  <2>3. /\ w \in Checkout /\ w.customer = c /\ w.slug = checkout[x].slug
        /\ w.price = checkout[x].price /\ row \in CustomerRow
    BY <2>2 DEF Checkout, CustomerRow
  <2> HIDE DEF w, row
  <2>4. TypeOK'
    BY <2>1, <2>3, PlansTypeUnchanged DEF TypeOK
  <2>5. w.slug # None => w.price \in Prices /\ price[w.price] # NoPrice
    BY <2>3 DEF RequestsKnow
  <2> QED  BY <2>1, <2>3, <2>4, <2>5, RequestTyped
<1>6. ASSUME NEW x \in Checkouts, StoreCustomer(x) PROVE BaseInv'
  <2> DEFINE w == [checkout[x] EXCEPT !.step = "open"]
             u == checkout[x].user
             row == Stored(mirror[u], checkout[x].customer)
  <2>1. /\ checkout[x].step = "store" /\ checkout' = [checkout EXCEPT ![x] = w]
        /\ mirror' = [mirror EXCEPT ![u] = row]
        /\ UNCHANGED <<planVars, stripeVars, event, welcomed, marker, changes, seen,
                       disturbed, overlapped, orphaned>>
    BY <1>6 DEF StoreCustomer, TypeOK
  <2>2. checkout[x] \in Checkout /\ u \in Users /\ checkout[x].customer \in Customers
    BY <2>1, Fields DEF RequestsKnow
  <2>3. /\ w \in Checkout /\ w.customer = checkout[x].customer /\ w.slug = checkout[x].slug
        /\ w.price = checkout[x].price
    BY <2>2 DEF Checkout
  <2>4. row \in Mirror
    <3>1. CASE mirror[u] = NoMirror
      BY <2>2, <3>1 DEF Stored, NoMirror, Mirror
    <3>2. CASE mirror[u] \in Mirror /\ mirror[u] # NoMirror
      BY <2>2, <3>2 DEF Stored, Mirror
    <3> QED  BY <2>2, <3>1, <3>2, Fields
  <2> HIDE DEF w, row
  <2>5. TypeOK'
    BY <2>1, <2>3, <2>4, PlansTypeUnchanged DEF TypeOK, stripeVars
  <2>6. w.slug # None => w.price \in Prices /\ price[w.price] # NoPrice
    BY <2>3 DEF RequestsKnow
  <2>7. planVars' = planVars /\ session' = session
    BY <2>1 DEF stripeVars
  <2> QED  BY <2>1, <2>2, <2>3, <2>5, <2>6, <2>7, RequestTyped
<1>7. ASSUME NEW x \in Checkouts, OpenSession(x) PROVE BaseInv'
  <2> DEFINE w == checkout[x]
             e == [user |-> w.user, customer |-> w.customer, slug |-> w.slug, price |-> w.price]
  <2>1. /\ w.step = "open" /\ w.slug # None /\ session' = session \cup {e}
        /\ checkout' = [checkout EXCEPT ![x] = NoCheckout]
        /\ UNCHANGED <<planVars, customer, sub, invoice, event, mirror, welcomed, marker,
                       changes, seen, disturbed, overlapped, orphaned>>
    BY <1>7 DEF OpenSession
  <2>2. /\ w \in Checkout /\ w.customer \in Customers
        /\ w.price \in Prices /\ price[w.price] # NoPrice
    BY <2>1, Fields DEF RequestsKnow
  <2>3. e \in [user: Users, customer: Customers, slug: Slugs, price: Prices] /\ e.price = w.price
    BY <2>1, <2>2 DEF Checkout
  <2>4. NoCheckout.step = "none" /\ NoCheckout.slug = None
    BY DEF NoCheckout
  <2> HIDE DEF w, e
  <2>5. TypeOK'
    BY <2>1, <2>3, PlansTypeUnchanged DEF TypeOK
  <2> QED  BY <2>1, <2>2, <2>3, <2>4, <2>5, RequestTyped
<1>8. ASSUME NEW x \in Checkouts, CheckoutEnds(x) PROVE BaseInv'
  <2>1. checkout[x].user \in Users
    BY <1>8, Fields DEF CheckoutEnds
  <2>2. TypeOK'
    BY <1>8, <2>1, PlansTypeUnchanged DEF CheckoutEnds, TypeOK, stripeVars
  <2>3. NoCheckout.step = "none" /\ NoCheckout.slug = None
    BY DEF NoCheckout
  <2>4. /\ checkout' = [checkout EXCEPT ![x] = NoCheckout]
        /\ planVars' = planVars /\ session' = session
    BY <1>8 DEF CheckoutEnds, stripeVars
  <2> QED  BY <2>2, <2>3, <2>4, RequestTyped
<1>9. ASSUME NEW e \in session, NEW s \in Subs, NEW status \in Stripe, Subscribed(e, s, status)
      PROVE  BaseInv'
  <2>1. /\ Opened(e, status) \in Snapshot /\ Report(s, Opened(e, status))
        /\ session' = session \ {e}
        /\ UNCHANGED <<planVars, customer, invoice, mirror, checkout, welcomed, marker, seen,
                       disturbed, overlapped, orphaned>>
    BY <1>9, OpeningReported
  <2>2. TypeOK'
    BY <2>1, ReportTyped, PlansTypeUnchanged DEF TypeOK
  <2> QED  BY <2>1, <2>2, BaseKept
<1>10. ASSUME NEW s \in Subs, PauseChanges(s) \/ \E to \in Stripe : StatusChanges(s, to)
       PROVE  BaseInv'
  <2>1. /\ sub[s] \in Snapshot
        /\ \E now \in Changed(s) : Report(s, now)
        /\ UNCHANGED <<planVars, customer, invoice, session, mirror, checkout, welcomed, marker,
                       seen, disturbed, overlapped, orphaned>>
    BY <1>10, ChangeReported
  <2>2. PICK now \in Changed(s) : Report(s, now)
    BY <2>1
  <2>3. now \in Snapshot
    BY <2>1, ChangedTyped
  <2>4. TypeOK'
    BY <2>1, <2>2, <2>3, ReportTyped, PlansTypeUnchanged DEF TypeOK
  <2> QED  BY <2>1, <2>4, BaseKept
<1>11. ASSUME NEW c \in Customers, DeleteCustomer(c) PROVE BaseInv'
  <2>1. customer[c] \in CustomerRow
    BY <1>11, Fields DEF DeleteCustomer
  <2>2. [customer[c] EXCEPT !.live = FALSE] \in CustomerRow
    BY <2>1 DEF CustomerRow
  <2>3. TypeOK'
    BY <1>11, <2>2, PlansTypeUnchanged DEF DeleteCustomer, TypeOK
  <2> QED  BY <1>11, <2>3, BaseKept DEF DeleteCustomer
<1>12. ASSUME NEW i \in Invoices, OnInvoicePaid(i) \/ \E s \in Subs : Collect(i, s)
       PROVE  BaseInv'
  <2>1. invoice' \in [Invoices -> [sub: Subs \cup {None},
                                   state: {"none", "due", "credited", "dropped"}]]
    <3>1. CASE OnInvoicePaid(i)
      <4> DEFINE known == \E u \in Users : mirror[u].sub = invoice[i].sub
                 row == [invoice[i] EXCEPT !.state = IF known THEN "credited" ELSE "dropped"]
      <4>1. row \in [sub: Subs \cup {None}, state: {"none", "due", "credited", "dropped"}]
        BY DEF TypeOK
      <4>2. invoice' = [invoice EXCEPT ![i] = row]
        BY <3>1 DEF OnInvoicePaid
      <4> QED  BY <4>1, <4>2 DEF TypeOK
    <3>2. ASSUME NEW s \in Subs, Collect(i, s)
          PROVE  invoice' \in [Invoices -> [sub: Subs \cup {None},
                                            state: {"none", "due", "credited", "dropped"}]]
      BY <3>2 DEF Collect, TypeOK
    <3> QED  BY <1>12, <3>1, <3>2
  <2>2. UNCHANGED <<planVars, customer, sub, session, event, mirror, checkout, welcomed,
                    marker, changes, seen, disturbed, overlapped, orphaned>>
    BY <1>12 DEF OnInvoicePaid, Collect
  <2>3. TypeOK'
    BY <2>1, <2>2, PlansTypeUnchanged DEF TypeOK
  <2> QED  BY <2>2, <2>3, BaseKept
<1>13. ASSUME NEW e \in event, OnSubscriptionEvent(e) PROVE BaseInv'
  <2> DEFINE u == e.of.user
  <2>1. u \in Users /\ e.sub \in Subs /\ e.of.version \in 1..MaxChanges
    BY Fields DEF Snapshot
  <2>2. /\ mirror' = [mirror EXCEPT ![u] = Mirrored(mirror[u], e)]
        /\ event' = event \ {e} /\ disturbed' \subseteq disturbed \cup {u}
        /\ UNCHANGED <<planVars, stripeVars, checkout, changes, overlapped, orphaned>>
    BY <1>13 DEF OnSubscriptionEvent
  <2>3. Mirrored(mirror[u], e) \in Mirror
    BY MirroredTyped
  <2>4. seen' \in [Users -> 0..MaxChanges]
    <3>1. seen' = [seen EXCEPT ![u] = e.of.version]
      BY <1>13 DEF OnSubscriptionEvent
    <3>2. e.of.version \in 0..MaxChanges
      BY <2>1, SubscriptionAssumption
    <3> QED  BY <2>1, <3>1, <3>2 DEF TypeOK
  <2>5. welcomed' \in [Subs -> 0..2] /\ marker' \subseteq Subs
    <3>1. welcomed[e.sub] \in 0..2
      BY <2>1 DEF TypeOK
    <3>2. (IF welcomed[e.sub] < 2 THEN welcomed[e.sub] + 1 ELSE welcomed[e.sub]) \in 0..2
      BY <3>1
    <3>3. \/ UNCHANGED <<welcomed, marker>>
          \/ /\ marker' \subseteq marker \cup {e.sub}
             /\ welcomed' = [welcomed EXCEPT ![e.sub] =
                               IF welcomed[e.sub] < 2 THEN welcomed[e.sub] + 1 ELSE welcomed[e.sub]]
      BY <1>13 DEF OnSubscriptionEvent, Welcome
    <3> QED  BY <2>1, <3>2, <3>3 DEF TypeOK
  <2>6. TypeOK'
    BY <2>1, <2>2, <2>3, <2>4, <2>5, PlansTypeUnchanged DEF TypeOK, stripeVars
  <2> QED  BY <2>2, <2>6, BaseKept DEF stripeVars
<1>14. ASSUME NEW e \in event, EventLost(e) PROVE BaseInv'
  <2>1. e.of.user \in Users
    BY Fields DEF Snapshot
  <2>2. TypeOK'
    BY <1>14, <2>1, PlansTypeUnchanged DEF EventLost, TypeOK, stripeVars
  <2> QED  BY <1>14, <2>2, BaseKept DEF EventLost, stripeVars
<1>15. CASE UNCHANGED vars
  <2>1. TypeOK'
    BY <1>15, PlansTypeUnchanged DEF vars, TypeOK, subscriptionVars, stripeVars
  <2> QED  BY <1>15, <2>1, BaseKept DEF vars, subscriptionVars, stripeVars
<1> QED
  BY <1>1, <1>3, <1>4, <1>5, <1>6, <1>7, <1>8, <1>9, <1>10, <1>11, <1>12, <1>13, <1>14, <1>15
     DEF Next

-----------------------------------------------------------------------------
(* The mirror of a subscription *)

\* The changes of a user are numbered, and the event of the last one tells
\* the state that is.
Reported ==
  /\ \A s \in Subs : sub[s] # NoSub => sub[s].version <= changes[sub[s].user]
  /\ \A s, t \in Subs :
       sub[s] # NoSub /\ sub[s].user = sub[t].user /\ sub[s].version = sub[t].version => s = t
  /\ \A e \in event :
       /\ e.of.version <= changes[e.of.user]
       /\ e.of.version = changes[e.of.user] => sub[e.sub] = e.of
  /\ \A u \in Users : seen[u] <= changes[u]

Shows(row, s, now) ==
  /\ row.sub = s /\ row.amount = now.amount
  /\ row.status = mapStripeStatus(now.status, now.paused)
  /\ mapStripeStatus(now.status, now.paused) = "CANCELLED" => row.grace

\* The last change of a user is shown if it was the last one handled.
LastIsShown ==
  \A u \in Users, s \in Subs :
    sub[s].user = u /\ sub[s].version = changes[u] /\ seen[u] = changes[u] =>
      Shows(mirror[u], s, sub[s])

\* It is on its way, or was the last one handled, if none was lost or overtaken.
LatestIsKnown ==
  \A u \in Users \ disturbed, s \in Subs :
    sub[s].user = u /\ sub[s].version = changes[u] =>
      [sub |-> s, of |-> sub[s]] \in event \/ seen[u] = changes[u]

MirrorInv == Reported /\ LastIsShown /\ LatestIsKnown

LEMMA MirrorInitial == Init => MirrorInv
<1> SUFFICES ASSUME Init PROVE MirrorInv
  OBVIOUS
<1>1. \A s \in Subs : sub[s] = NoSub
  BY DEF Init, SubscriptionsInit
<1>2. NoSub.user \notin Users /\ NoSub.status = "none"
  BY SubscriptionAssumption DEF NoSub
<1> QED
  BY <1>1, <1>2
     DEF Init, SubscriptionsInit, MirrorInv, Reported, LastIsShown, LatestIsKnown

\* A change that Stripe reports.
LEMMA ReportKeepsMirror ==
  ASSUME TypeOK, MirrorInv, NEW s \in Subs, NEW now \in Snapshot, Report(s, now),
         sub[s] = NoSub \/ sub[s].user = now.user,
         UNCHANGED <<mirror, seen, disturbed>>
  PROVE  MirrorInv'
<1> USE DEF MirrorInv
<1> DEFINE u == now.user
           new == [now EXCEPT !.version = changes[u] + 1]
<1>1. /\ sub' = [sub EXCEPT ![s] = new] /\ new \in Snapshot
      /\ event' = event \cup {[sub |-> s, of |-> sub'[s]]}
      /\ changes' = [changes EXCEPT ![u] = changes[u] + 1]
  BY ReportTyped
<1>2. /\ u \in Users /\ new.user = u /\ new.version = changes[u] + 1
      /\ new.status = now.status /\ new.paused = now.paused
  BY DEF Snapshot
<1> HIDE DEF new
<1>3. /\ sub'[s] = new /\ \A t \in Subs \ {s} : sub'[t] = sub[t]
      /\ changes'[u] = changes[u] + 1 /\ \A x \in Users \ {u} : changes'[x] = changes[x]
  BY <1>1, <1>2 DEF TypeOK
<1>4. \A x \in Users : changes[x] \in Nat /\ seen[x] \in Nat
  BY Fields
<1>5. \A x \in Users : changes[x] <= changes'[x] /\ seen[x] <= changes'[x]
  BY <1>2, <1>3, <1>4 DEF Reported
<1>6. \A t \in Subs : sub[t] # NoSub =>
        /\ sub[t].user \in Users /\ sub[t].version \in Nat
        /\ sub[t].version <= changes[sub[t].user] /\ sub[t].version <= changes'[sub[t].user]
  <2>1. \A t \in Subs : sub[t] # NoSub => sub[t].user \in Users /\ sub[t].version \in Nat
    BY Fields
  <2> QED  BY <1>4, <1>5, <2>1, <1>2, <1>3 DEF Reported
<1>7. new # NoSub
  BY <1>2, SubscriptionAssumption DEF NoSub
<1>8. \A t, z \in Subs :
        sub'[t] # NoSub /\ sub'[t].user = sub'[z].user /\ sub'[t].version = sub'[z].version => t = z
  <2> SUFFICES ASSUME NEW t \in Subs, NEW z \in Subs, sub'[t] # NoSub,
                      sub'[t].user = sub'[z].user, sub'[t].version = sub'[z].version
               PROVE  t = z
    OBVIOUS
  <2>1. CASE t = s /\ z # s
    <3>1. sub[z] # NoSub
      BY <1>2, <1>3, <2>1, SubscriptionAssumption DEF NoSub
    <3> QED  BY <1>2, <1>3, <1>4, <1>6, <2>1, <3>1
  <2>2. CASE z = s /\ t # s
    BY <1>2, <1>3, <1>4, <1>6, <2>2
  <2>3. CASE t # s /\ z # s
    BY <1>3, <2>3 DEF Reported
  <2> QED  BY <2>1, <2>2, <2>3
<1>9. \A e \in event' :
        /\ e.of.version <= changes'[e.of.user]
        /\ e.of.version = changes'[e.of.user] => sub'[e.sub] = e.of
  <2> SUFFICES ASSUME NEW e \in event'
               PROVE  /\ e.of.version <= changes'[e.of.user]
                      /\ e.of.version = changes'[e.of.user] => sub'[e.sub] = e.of
    OBVIOUS
  <2>1. CASE e \in event
    <3>1. /\ e.of \in Snapshot /\ e.of.user \in Users /\ e.of.version \in Nat /\ e.sub \in Subs
          /\ e.of.version <= changes[e.of.user]
          /\ e.of.version = changes[e.of.user] => sub[e.sub] = e.of
      <4>1. e.of \in Snapshot /\ e.sub \in Subs
        BY <2>1, Fields
      <4>2. e.of.user \in Users /\ e.of.version \in Nat
        BY <4>1, SubscriptionAssumption DEF Snapshot
      <4> QED  BY <2>1, <4>1, <4>2 DEF Reported
    <3>2. CASE e.of.user = u
      BY <1>2, <1>3, <1>4, <3>1, <3>2
    <3>3. CASE e.of.user # u
      <4>1. e.of.version = changes[e.of.user] => e.sub # s
        <5>1. e.of # NoSub
          BY <3>1, SubscriptionAssumption DEF NoSub
        <5> QED  BY <3>1, <3>3, <5>1
      <4> QED  BY <1>3, <3>1, <3>3, <4>1
    <3> QED  BY <3>2, <3>3
  <2>2. CASE e = [sub |-> s, of |-> sub'[s]]
    BY <1>2, <1>3, <1>4, <2>2
  <2> QED  BY <1>1, <2>1, <2>2
<1>10. Reported'
  <2>1. \A t \in Subs : sub'[t] # NoSub => sub'[t].version <= changes'[sub'[t].user]
    BY <1>2, <1>3, <1>4, <1>6
  <2> QED  BY <1>5, <1>8, <1>9, <2>1 DEF Reported
<1>11. LastIsShown'
  <2> SUFFICES ASSUME NEW x \in Users, NEW t \in Subs,
                      sub'[t].user = x, sub'[t].version = changes'[x], seen[x] = changes'[x]
               PROVE  Shows(mirror[x], t, sub'[t])
    BY DEF LastIsShown
  <2>1. x # u
    BY <1>2, <1>3, <1>4 DEF Reported
  <2>2. t # s
    BY <1>2, <1>3, <2>1
  <2> QED  BY <1>3, <2>1, <2>2 DEF LastIsShown
<1>12. LatestIsKnown'
  <2> SUFFICES ASSUME NEW x \in Users \ disturbed, NEW t \in Subs,
                      sub'[t].user = x, sub'[t].version = changes'[x]
               PROVE  [sub |-> t, of |-> sub'[t]] \in event' \/ seen[x] = changes'[x]
    BY DEF LatestIsKnown
  <2>1. CASE t = s
    BY <1>1, <2>1
  <2>2. CASE t # s
    <3>1. sub[t] # NoSub
      BY <1>3, <2>2, SubscriptionAssumption DEF NoSub
    <3>2. x # u
      BY <1>2, <1>3, <1>4, <1>6, <2>2, <3>1
    <3> QED  BY <1>1, <1>3, <2>2, <3>2 DEF LatestIsKnown
  <2> QED  BY <2>1, <2>2
<1> QED  BY <1>10, <1>11, <1>12

\* A step that reports nothing and handles no event.
LEMMA MirrorKept ==
  ASSUME TypeOK, MirrorInv, UNCHANGED <<sub, event, changes, seen, disturbed>>,
         \A u \in Users, s \in Subs : Shows(mirror[u], s, sub[s]) => Shows(mirror'[u], s, sub[s])
  PROVE  MirrorInv'
<1>1. Reported'
  BY DEF MirrorInv, Reported
<1>2. LastIsShown' /\ LatestIsKnown'
  BY DEF MirrorInv, LastIsShown, LatestIsKnown
<1> QED  BY <1>1, <1>2 DEF MirrorInv

LEMMA EventKeepsMirror ==
  ASSUME TypeOK, MirrorInv, NEW e \in event, OnSubscriptionEvent(e) PROVE MirrorInv'
<1> USE DEF MirrorInv
<1> DEFINE u == e.of.user
<1>1. /\ mirror' = [mirror EXCEPT ![u] = Mirrored(mirror[u], e)]
      /\ event' = event \ {e} /\ UNCHANGED <<sub, changes>>
      /\ seen' = [seen EXCEPT ![u] = e.of.version]
      /\ disturbed' = IF e.of.version < seen[u] THEN disturbed \cup {u} ELSE disturbed
  BY DEF OnSubscriptionEvent, stripeVars
<1>2. e.of \in Snapshot /\ u \in Users /\ e.sub \in Subs /\ e.of.version \in Nat
  <2>1. e.of \in Snapshot /\ e.sub \in Subs
    BY Fields
  <2> QED  BY <2>1, SubscriptionAssumption DEF Snapshot
<1>3. /\ mirror'[u] = Mirrored(mirror[u], e) /\ \A x \in Users \ {u} : mirror'[x] = mirror[x]
      /\ seen'[u] = e.of.version
      /\ \A x \in Users \ {u} : seen'[x] = seen[x]
  BY <1>1, <1>2 DEF TypeOK
<1>4. changes[u] \in Nat /\ seen[u] \in Nat /\ seen[u] <= changes[u]
      /\ e.of.version <= changes[u]
  BY <1>2, Fields DEF Reported
<1>5. Reported'
  BY <1>1, <1>3, <1>4 DEF Reported
<1>6. Shows(mirror'[u], e.sub, e.of)
  BY <1>3, MirroredTyped DEF Shows
<1>8. LastIsShown'
  <2> SUFFICES ASSUME NEW x \in Users, NEW t \in Subs,
                      sub[t].user = x, sub[t].version = changes[x], seen'[x] = changes[x]
               PROVE  Shows(mirror'[x], t, sub[t])
    BY <1>1 DEF LastIsShown
  <2>1. CASE x # u
    BY <1>3, <2>1 DEF LastIsShown
  <2>2. CASE x = u
    <3>1. e.of.version = changes[u] /\ sub[e.sub] = e.of
      BY <1>3, <2>2 DEF Reported
    <3>2. e.of # NoSub
      BY <1>2, SubscriptionAssumption DEF NoSub
    <3>3. t = e.sub
      BY <1>2, <2>2, <3>1, <3>2 DEF Reported
    <3> QED  BY <1>6, <2>2, <3>1, <3>3
  <2> QED  BY <2>1, <2>2
<1>7. LatestIsKnown'
  <2> SUFFICES ASSUME NEW x \in Users \ disturbed', NEW t \in Subs,
                      sub[t].user = x, sub[t].version = changes[x]
               PROVE  [sub |-> t, of |-> sub[t]] \in event' \/ seen'[x] = changes[x]
    BY <1>1 DEF LatestIsKnown
  <2>1. /\ x \notin disturbed
        /\ [sub |-> t, of |-> sub[t]] \in event \/ seen[x] = changes[x]
    BY <1>1 DEF LatestIsKnown
  <2>2. CASE x # u
    <3>1. [sub |-> t, of |-> sub[t]] # e
      BY <2>2
    <3> QED  BY <1>1, <1>3, <2>1, <2>2, <3>1
  <2>3. CASE x = u /\ e.of.version = changes[u]
    BY <1>3, <2>3
  <2>4. CASE x = u /\ e.of.version # changes[u]
    <3>1. ~(e.of.version < seen[u])
      BY <1>1, <2>4
    <3>2. seen[u] # changes[u]
      BY <1>2, <1>4, <2>4, <3>1
    <3>3. [sub |-> t, of |-> sub[t]] # e
      BY <2>4
    <3> QED  BY <1>1, <2>1, <2>4, <3>2, <3>3
  <2> QED  BY <2>2, <2>3, <2>4
<1> QED  BY <1>5, <1>7, <1>8

LEMMA MirrorStep == BaseInv /\ MirrorInv /\ [Next]_vars => MirrorInv'
<1> SUFFICES ASSUME BaseInv, MirrorInv, [Next]_vars PROVE MirrorInv'
  OBVIOUS
<1>0. TypeOK
  BY DEF BaseInv
<1>1. ASSUME UNCHANGED <<sub, event, mirror, changes, seen, disturbed>> PROVE MirrorInv'
  BY <1>0, <1>1, MirrorKept
<1>2. ASSUME NEW x \in Checkouts, StoreCustomer(x) PROVE MirrorInv'
  <2> DEFINE u == checkout[x].user
             c == checkout[x].customer
  <2>1. /\ u \in Users /\ mirror' = [mirror EXCEPT ![u] = Stored(mirror[u], c)]
        /\ UNCHANGED <<sub, event, changes, seen, disturbed>>
    BY <1>0, <1>2, Fields DEF StoreCustomer, stripeVars
  <2>2. ASSUME NEW z \in Users, NEW s \in Subs, Shows(mirror[z], s, sub[s])
        PROVE  Shows(mirror'[z], s, sub[s])
    <3>1. CASE z # u
      BY <1>0, <2>1, <2>2, <3>1 DEF TypeOK
    <3>2. CASE z = u
      <4>1. mirror[u] # NoMirror
        BY <1>0, <2>1, <2>2, <3>2, Fields DEF Shows
      <4>2. mirror'[u] = [mirror[u] EXCEPT !.customer = c]
        BY <1>0, <2>1, <4>1 DEF Stored, TypeOK
      <4>3. mirror[u] \in Mirror
        BY <1>0, <2>1, <4>1, Fields
      <4>4. /\ mirror'[u].sub = mirror[u].sub /\ mirror'[u].amount = mirror[u].amount
            /\ mirror'[u].status = mirror[u].status /\ mirror'[u].grace = mirror[u].grace
        BY <4>2, <4>3 DEF Mirror
      <4> QED  BY <2>2, <3>2, <4>4 DEF Shows
    <3> QED  BY <3>1, <3>2
  <2> QED  BY <1>0, <2>1, <2>2, MirrorKept
<1>3. ASSUME NEW e \in session, NEW s \in Subs, NEW status \in Stripe, Subscribed(e, s, status)
      PROVE  MirrorInv'
  <2>1. /\ Opened(e, status) \in Snapshot /\ Report(s, Opened(e, status)) /\ sub[s] = NoSub
        /\ status \in {"incomplete", "active"} /\ UNCHANGED <<mirror, seen, disturbed>>
    BY <1>3, OpeningReported
  <2> QED  BY <1>0, <2>1, ReportKeepsMirror
<1>4. ASSUME NEW s \in Subs, PauseChanges(s) \/ \E to \in Stripe : StatusChanges(s, to)
      PROVE  MirrorInv'
  <2>1. PICK now \in Changed(s) :
          /\ sub[s] \in Snapshot /\ Report(s, now)
          /\ UNCHANGED <<mirror, seen, disturbed>>
    BY <1>0, <1>4, ChangeReported
  <2>2. now \in Snapshot /\ now.user = sub[s].user
    BY <2>1, ChangedTyped
  <2> QED  BY <1>0, <2>1, <2>2, ReportKeepsMirror
<1>5. ASSUME NEW e \in event, EventLost(e) PROVE MirrorInv'
  <2>1. /\ event' = event \ {e} /\ disturbed' = disturbed \cup {e.of.user}
        /\ UNCHANGED <<sub, mirror, changes, seen>>
    BY <1>5 DEF EventLost, stripeVars
  <2>2. Reported'
    BY <2>1 DEF MirrorInv, Reported
  <2>3. LastIsShown' /\ LatestIsKnown'
    BY <2>1 DEF MirrorInv, LastIsShown, LatestIsKnown
  <2> QED  BY <2>2, <2>3 DEF MirrorInv
<1>6. ASSUME NEW e \in event, OnSubscriptionEvent(e) PROVE MirrorInv'
  BY <1>0, <1>6, EventKeepsMirror
<1>7. CASE PlanSteps
  BY <1>1, <1>7 DEF PlanSteps, subscriptionVars, stripeVars
<1>8. ASSUME NEW x \in Checkouts,
             \/ \E u \in Users : Portal(x, u) \/ \E slug \in Slugs : Subscribe(x, u, slug)
             \/ \E c \in Customers : CreateCustomer(x, c)
             \/ OpenSession(x) \/ CheckoutEnds(x)
      PROVE  MirrorInv'
  BY <1>1, <1>8
     DEF Portal, Subscribe, StartCheckout, CreateCustomer, OpenSession, CheckoutEnds, stripeVars
<1>9. ASSUME NEW c \in Customers, DeleteCustomer(c) PROVE MirrorInv'
  BY <1>1, <1>9 DEF DeleteCustomer
<1>10. ASSUME NEW i \in Invoices, OnInvoicePaid(i) \/ \E s \in Subs : Collect(i, s)
       PROVE  MirrorInv'
  BY <1>1, <1>10 DEF OnInvoicePaid, Collect
<1>11. CASE UNCHANGED vars
  BY <1>1, <1>11 DEF vars, subscriptionVars, stripeVars
<1> QED
  BY <1>2, <1>3, <1>4, <1>5, <1>6, <1>7, <1>8, <1>9, <1>10, <1>11 DEF Next

LEMMA MirrorShows == TypeOK /\ MirrorInv => MirrorIsCurrent
<1> SUFFICES ASSUME TypeOK, MirrorInv, NEW u \in Users, NEW s \in Subs,
                    sub[s].user = u, sub[s].version = changes[u], ToldOfLast(u)
             PROVE  /\ mirror[u].sub = s
                    /\ mirror[u].amount = sub[s].amount
                    /\ mirror[u].status = "CANCELLED"
                         <=> sub[s].status = "canceled" /\ ~sub[s].paused
                    /\ mirror[u].status = "PAUSED" <=> sub[s].paused
                    /\ mirror[u].status = "ACTIVE" <=> sub[s].status = "active" /\ ~sub[s].paused
                    /\ mirror[u].status = "CANCELLED" => mirror[u].grace
  BY DEF MirrorIsCurrent
<1>1. seen[u] = changes[u]
  <2> SUFFICES ASSUME u \notin disturbed, Pending(u) = {} PROVE seen[u] = changes[u]
    BY DEF ToldOfLast
  <2>1. [sub |-> s, of |-> sub[s]] \notin event
    BY DEF Pending
  <2> QED  BY <2>1 DEF MirrorInv, LatestIsKnown
<1>2. Shows(mirror[u], s, sub[s])
  BY <1>1 DEF MirrorInv, LastIsShown
<1>3. sub[s].paused \in BOOLEAN
  <2>1. sub[s] # NoSub
    BY SubscriptionAssumption DEF NoSub
  <2>2. sub[s] \in Snapshot
    BY <2>1 DEF TypeOK
  <2> QED  BY <2>2 DEF Snapshot
<1> QED  BY <1>2, <1>3 DEF Shows, mapStripeStatus

-----------------------------------------------------------------------------
(* The customer of a user *)

Finder(x, u) == checkout[x].user = u /\ checkout[x].step \in {"customer", "store"}

Running(s) == sub[s] # NoSub /\ sub[s].status # "canceled"

\* A customer that anything refers to was created.
CustomersKnown ==
  /\ \A x \in Checkouts : checkout[x].customer # None => customer[checkout[x].customer] # NoCustomer
  /\ \A e \in session : customer[e.customer] # NoCustomer
  /\ \A s \in Subs : sub[s] # NoSub => customer[sub[s].customer] # NoCustomer
  /\ \A u \in Users : mirror[u] # NoMirror => customer[mirror[u].customer] # NoCustomer

\* Who reaches Stripe has a row.
RowsExist ==
  /\ \A x \in Checkouts : checkout[x].step = "open" => mirror[checkout[x].user] # NoMirror
  /\ \A e \in session : mirror[e.user] # NoMirror
  /\ \A s \in Subs : sub[s] # NoSub => mirror[sub[s].user] # NoMirror
  /\ \A e \in event : mirror[e.of.user] # NoMirror

\* One request looks for a customer, and only while the row has none to use.
OneFinder(u) ==
  /\ \A x, y \in Checkouts : Finder(x, u) /\ Finder(y, u) => x = y
  /\ \A x \in Checkouts : Finder(x, u) => ~Usable(mirror[u].customer)

\* Whatever a user has open or running with a customer that exists has the
\* one in the row.
OneInUse(u) ==
  /\ \A x \in Checkouts :
       checkout[x].user = u /\ checkout[x].step = "open" /\ Usable(checkout[x].customer) =>
         checkout[x].customer = mirror[u].customer
  /\ \A e \in session :
       e.user = u /\ Usable(e.customer) => e.customer = mirror[u].customer
  /\ \A s \in Subs :
       sub[s].user = u /\ Running(s) =>
         Usable(sub[s].customer) /\ sub[s].customer = mirror[u].customer

\* A customer that is not in the row is about to be stored.
AllStored(u) ==
  \A c \in Customers :
    customer[c].live /\ customer[c].user = u =>
      \/ c = mirror[u].customer
      \/ \E x \in Checkouts : Finder(x, u) /\ checkout[x].step = "store" /\ checkout[x].customer = c

PortalInv ==
  /\ CustomersKnown /\ RowsExist
  /\ \A u \in Users \ overlapped : OneFinder(u) /\ OneInUse(u)
  /\ \A u \in Users \ (overlapped \cup orphaned) : AllStored(u)

LEMMA PortalInitial == Init => PortalInv
<1> SUFFICES ASSUME Init PROVE PortalInv
  OBVIOUS
<1>1. /\ \A x \in Checkouts : checkout[x] = NoCheckout
      /\ \A s \in Subs : sub[s] = NoSub
      /\ \A u \in Users : mirror[u] = NoMirror
      /\ \A c \in Customers : customer[c] = NoCustomer
      /\ session = {} /\ event = {}
  BY DEF Init, SubscriptionsInit
<1>2. NoCheckout.step = "none" /\ NoCheckout.customer = None /\ ~NoCustomer.live
  BY DEF NoCheckout, NoCustomer
<1> QED
  BY <1>1, <1>2
     DEF PortalInv, CustomersKnown, RowsExist, OneFinder, OneInUse, AllStored, Finder, Running

\* A step that creates no customer, moves no request and starts nothing.
LEMMA PortalKept ==
  ASSUME TypeOK, TypeOK', PortalInv, UNCHANGED <<customer, checkout, overlapped, orphaned>>,
         session' \subseteq session,
         \A u \in Users : mirror'[u].customer = mirror[u].customer,
         \A u \in Users : mirror[u] # NoMirror <=> mirror'[u] # NoMirror,
         \A s \in Subs : sub'[s] # NoSub =>
           /\ sub[s] # NoSub /\ sub'[s].user = sub[s].user /\ sub'[s].customer = sub[s].customer
           /\ sub'[s].status # "canceled" => sub[s].status # "canceled",
         \A e \in event' : e \in event \/ \E s \in Subs : sub[s] # NoSub /\ e.of.user = sub[s].user
  PROVE  PortalInv'
<1> USE DEF PortalInv
<1>1. \A s \in Subs : sub[s] # NoSub => sub[s].user \in Users
  BY Fields
<1>2. \A x \in Checkouts : checkout[x].step = "open" => checkout[x].user \in Users
  BY Fields
<1>3. CustomersKnown'
  BY DEF CustomersKnown
<1>4. RowsExist'
  <2>1. \A e \in session : e.user \in Users
    BY Fields
  <2>2. \A e \in event : e.of.user \in Users
    BY Fields DEF Snapshot
  <2>3. \A e \in event' : mirror'[e.of.user] # NoMirror
    BY <1>1, <2>2 DEF RowsExist
  <2> QED  BY <1>1, <1>2, <2>1, <2>3 DEF RowsExist
<1>5. \A c : Usable(c)' <=> Usable(c)
  BY DEF Usable
<1>6. ASSUME NEW u \in Users \ overlapped PROVE OneFinder(u)' /\ OneInUse(u)'
  <2>1. mirror'[u].customer = mirror[u].customer
    OBVIOUS
  <2>2. OneFinder(u)'
    BY <1>5, <2>1 DEF OneFinder, Finder
  <2>3. OneInUse(u)'
    <3>1. \A s \in Subs : sub'[s].user = u /\ Running(s)' => sub[s].user = u /\ Running(s)
      BY DEF Running
    <3>2. \A s \in Subs : Running(s)' => sub'[s].customer = sub[s].customer
      BY DEF Running
    <3> QED  BY <1>5, <2>1, <3>1, <3>2 DEF OneInUse
  <2> QED  BY <2>2, <2>3
<1>7. ASSUME NEW u \in Users \ (overlapped \cup orphaned) PROVE AllStored(u)'
  BY DEF AllStored, Finder
<1> QED  BY <1>3, <1>4, <1>6, <1>7

LEMMA StartKeepsPortal ==
  ASSUME TypeOK, PortalInv, NEW x \in Checkouts, NEW u \in Users, NEW slug, NEW p,
         StartCheckout(x, u, slug, p)
  PROVE  PortalInv'
<1> USE DEF PortalInv
<1> DEFINE c == mirror[u].customer
           w == [step |-> IF Usable(c) THEN "open" ELSE "customer", user |-> u, slug |-> slug,
                 price |-> p, customer |-> IF Usable(c) THEN c ELSE None]
<1>1. /\ checkout[x] = NoCheckout /\ checkout' = [checkout EXCEPT ![x] = w]
      /\ overlapped' = IF Usable(c) \/ Finding(u) = {} THEN overlapped ELSE overlapped \cup {u}
      /\ UNCHANGED <<customer, sub, session, event, mirror, orphaned>>
  BY DEF StartCheckout, stripeVars
<1>2. /\ w.user = u /\ w.step = (IF Usable(c) THEN "open" ELSE "customer")
      /\ w.customer = IF Usable(c) THEN c ELSE None
  OBVIOUS
<1> HIDE DEF w
<1>3. checkout'[x] = w /\ \A y \in Checkouts \ {x} : checkout'[y] = checkout[y]
  BY <1>1 DEF TypeOK
<1>4. \A d : Usable(d)' <=> Usable(d)
  BY <1>1 DEF Usable
<1>5. Usable(c) => c \in Customers /\ customer[c] # NoCustomer /\ mirror[u] # NoMirror
  BY Fields DEF Usable
<1>6. checkout[x].step = "none"
  BY <1>1 DEF NoCheckout
<1>7. CustomersKnown'
  BY <1>1, <1>2, <1>3, <1>5 DEF CustomersKnown
<1>8. RowsExist'
  BY <1>1, <1>2, <1>3, <1>5 DEF RowsExist
<1>9. \A y \in Checkouts, z \in Users : z # u \/ Usable(c) => (Finder(y, z)' <=> Finder(y, z))
  BY <1>2, <1>3, <1>6 DEF Finder
<1>10. ASSUME NEW z \in Users \ overlapped' PROVE OneFinder(z)' /\ OneInUse(z)'
  <2>1. OneFinder(z) /\ OneInUse(z)
    BY <1>1
  <2>2. OneFinder(z)'
    <3>1. CASE z # u \/ Usable(c)
      BY <1>1, <1>4, <1>9, <2>1, <3>1 DEF OneFinder
    <3>2. CASE z = u /\ ~Usable(c)
      <4>1. \A y \in Checkouts : ~Finder(y, u)
        BY <1>1, <3>2 DEF Finding, Finder
      <4>2. \A y \in Checkouts : Finder(y, u)' => y = x
        BY <1>3, <4>1 DEF Finder
      <4> QED  BY <1>1, <1>4, <3>2, <4>2 DEF OneFinder
    <3> QED  BY <3>1, <3>2
  <2>3. OneInUse(z)'
    <3>1. \A y \in Checkouts :
            checkout'[y].user = z /\ checkout'[y].step = "open" /\ Usable(checkout'[y].customer) =>
              checkout'[y].customer = mirror[z].customer
      BY <1>2, <1>3, <2>1 DEF OneInUse
    <3> QED  BY <1>1, <1>4, <2>1, <3>1 DEF OneInUse, Running
  <2> QED  BY <2>2, <2>3
<1>11. ASSUME NEW z \in Users \ (overlapped' \cup orphaned') PROVE AllStored(z)'
  <2>1. \A y \in Checkouts : checkout[y].step = "store" => checkout'[y] = checkout[y]
    BY <1>3, <1>6
  <2>2. AllStored(z)
    BY <1>1
  <2> QED  BY <1>1, <2>1, <2>2 DEF AllStored, Finder
<1> QED  BY <1>7, <1>8, <1>10, <1>11

LEMMA CreateKeepsPortal ==
  ASSUME TypeOK, PortalInv, NEW x \in Checkouts, NEW c \in Customers, CreateCustomer(x, c)
  PROVE  PortalInv'
<1> USE DEF PortalInv
<1> DEFINE w == [checkout[x] EXCEPT !.step = "store", !.customer = c]
           row == [user |-> checkout[x].user, live |-> TRUE]
<1>1. /\ checkout[x].step = "customer" /\ customer[c] = NoCustomer
      /\ checkout' = [checkout EXCEPT ![x] = w] /\ customer' = [customer EXCEPT ![c] = row]
      /\ UNCHANGED <<sub, session, event, mirror, overlapped, orphaned>>
  BY DEF CreateCustomer, TypeOK
<1>2. checkout[x] \in Checkout
  BY <1>1, Fields
<1>3. /\ w.step = "store" /\ w.customer = c /\ w.user = checkout[x].user
      /\ row.user = checkout[x].user /\ row # NoCustomer
  <2>1. checkout[x].user # None
    BY <1>2, Fields DEF Checkout
  <2> QED  BY <1>2, <2>1 DEF Checkout, NoCustomer
<1> HIDE DEF w, row
<1>4. /\ checkout'[x] = w /\ \A y \in Checkouts \ {x} : checkout'[y] = checkout[y]
      /\ customer'[c] = row /\ \A d \in Customers \ {c} : customer'[d] = customer[d]
  BY <1>1 DEF TypeOK
<1>5. \A d \in (Customers \cup {None}) \ {c} : Usable(d)' <=> Usable(d)
  BY <1>4 DEF Usable
<1>6. /\ \A y \in Checkouts : checkout[y].customer \in (Customers \cup {None}) \ {c}
      /\ \A e \in session : e.customer \in Customers \ {c}
      /\ \A s \in Subs : sub[s] # NoSub => sub[s].customer \in Customers \ {c}
      /\ \A u \in Users : mirror[u].customer \in (Customers \cup {None}) \ {c}
  <2>1. \A s \in Subs : sub[s] # NoSub => sub[s].customer \in Customers
    BY Fields DEF Snapshot
  <2> QED  BY <1>1, <2>1, Fields DEF CustomersKnown
<1>7. CustomersKnown'
  BY <1>1, <1>3, <1>4, <1>6, Fields DEF CustomersKnown
<1>8. RowsExist'
  BY <1>1, <1>3, <1>4 DEF RowsExist
<1>9. \A y \in Checkouts, u \in Users : Finder(y, u)' <=> Finder(y, u)
  BY <1>1, <1>3, <1>4 DEF Finder
<1>10. ASSUME NEW u \in Users \ overlapped PROVE OneFinder(u)' /\ OneInUse(u)'
  <2>1. OneFinder(u)'
    BY <1>1, <1>5, <1>6, <1>9 DEF OneFinder
  <2>2. \A y \in Checkouts : checkout'[y].step = "open" => checkout'[y] = checkout[y]
    BY <1>3, <1>4
  <2>3. OneInUse(u)'
    BY <1>1, <1>5, <1>6, <2>2 DEF OneInUse, Running
  <2> QED  BY <2>1, <2>3
<1>11. ASSUME NEW u \in Users \ (overlapped \cup orphaned), NEW d \in Customers,
              customer'[d].live, customer'[d].user = u
       PROVE  \/ d = mirror[u].customer
              \/ \E y \in Checkouts :
                   Finder(y, u)' /\ checkout'[y].step = "store" /\ checkout'[y].customer = d
  <2>1. CASE d = c
    BY <1>3, <1>4, <1>11, <2>1 DEF Finder
  <2>2. CASE d # c
    <3>1. \/ d = mirror[u].customer
          \/ \E y \in Checkouts :
               Finder(y, u) /\ checkout[y].step = "store" /\ checkout[y].customer = d
      BY <1>4, <1>11, <2>2 DEF AllStored
    <3> QED  BY <1>1, <1>4, <1>9, <3>1
  <2> QED  BY <2>1, <2>2
<1>12. \A u \in Users \ (overlapped' \cup orphaned') : AllStored(u)'
  BY <1>1, <1>11 DEF AllStored
<1> QED  BY <1>1, <1>7, <1>8, <1>10, <1>12

LEMMA StoreKeepsPortal ==
  ASSUME TypeOK, TypeOK', PortalInv, RequestsKnow, NEW x \in Checkouts, StoreCustomer(x)
  PROVE  PortalInv'
<1> USE DEF PortalInv
<1>0. PICK u \in Users : u = checkout[x].user
  BY Fields DEF StoreCustomer
<1> DEFINE c == checkout[x].customer
           w == [checkout[x] EXCEPT !.step = "open"]
<1>1. /\ checkout[x].step = "store" /\ mirror' = [mirror EXCEPT ![u] = Stored(mirror[u], c)]
      /\ checkout' = [checkout EXCEPT ![x] = w]
      /\ UNCHANGED <<customer, sub, session, event, overlapped, orphaned>>
  BY <1>0 DEF StoreCustomer, stripeVars, TypeOK
<1>2. checkout[x] \in Checkout /\ c \in Customers
  BY <1>1, Fields DEF RequestsKnow
<1>3. w.step = "open" /\ w.customer = c /\ w.user = u
  BY <1>0, <1>2 DEF Checkout
<1> HIDE DEF w
<1>4. /\ checkout'[x] = w /\ \A y \in Checkouts \ {x} : checkout'[y] = checkout[y]
      /\ \A z \in Users \ {u} : mirror'[z] = mirror[z]
      /\ mirror'[u] = Stored(mirror[u], c)
  BY <1>1, <1>2 DEF TypeOK
<1>5. mirror'[u].customer = c /\ mirror'[u] # NoMirror
  <2>1. Stored(mirror[u], c).customer = c
    <3>1. CASE mirror[u] = NoMirror
      BY <3>1 DEF Stored, NoMirror
    <3>2. CASE mirror[u] \in Mirror /\ mirror[u] # NoMirror
      BY <3>2 DEF Stored, Mirror
    <3> QED  BY <1>2, <3>1, <3>2, Fields
  <2>2. c # None
    BY <1>2, Fields
  <2> QED  BY <1>4, <2>1, <2>2 DEF NoMirror
<1>6. \A d : Usable(d)' <=> Usable(d)
  BY <1>1 DEF Usable
<1>7. \A z \in Users : mirror[z] # NoMirror => mirror'[z] # NoMirror
  BY <1>4, <1>5
<1>8. CustomersKnown'
  <2>1. c # None
    BY <1>2, Fields
  <2>2. customer[c] # NoCustomer
    BY <2>1 DEF CustomersKnown
  <2> QED  BY <1>1, <1>3, <1>4, <1>5, <2>2 DEF CustomersKnown
<1>9. RowsExist'
  <2>1. /\ \A y \in Checkouts : checkout[y].step = "open" => checkout[y].user \in Users
        /\ \A e \in session : e.user \in Users
        /\ \A s \in Subs : sub[s] # NoSub => sub[s].user \in Users
        /\ \A e \in event : e.of.user \in Users
    BY Fields DEF Snapshot
  <2> QED  BY <1>1, <1>3, <1>4, <1>5, <1>7, <2>1 DEF RowsExist
<1>10. \A y \in Checkouts, z \in Users : Finder(y, z)' <=> Finder(y, z) /\ y # x
  BY <1>0, <1>3, <1>4 DEF Finder
<1>11. Finder(x, u)
  BY <1>0, <1>1 DEF Finder
<1>12. ASSUME NEW z \in Users \ overlapped PROVE OneFinder(z)' /\ OneInUse(z)'
  <2>1. CASE z # u
    <3>1. OneFinder(z)'
      BY <1>4, <1>6, <1>10, <2>1 DEF OneFinder
    <3>2. \A y \in Checkouts : checkout'[y].user = z => checkout'[y] = checkout[y]
      BY <1>3, <1>4, <2>1
    <3>3. OneInUse(z)'
      BY <1>1, <1>4, <1>6, <2>1, <3>2 DEF OneInUse, Running
    <3> QED  BY <3>1, <3>3
  <2>2. CASE z = u
    <3>1. ~Usable(mirror[u].customer) /\ \A y \in Checkouts : ~Finder(y, u)'
      BY <1>10, <1>11, <2>2 DEF OneFinder
    <3>2. OneFinder(u)'
      BY <3>1 DEF OneFinder
    <3>3. /\ \A y \in Checkouts \ {x} :
               ~(checkout[y].user = u /\ checkout[y].step = "open" /\ Usable(checkout[y].customer))
          /\ \A e \in session : ~(e.user = u /\ Usable(e.customer))
          /\ \A s \in Subs : ~(sub[s].user = u /\ Running(s))
      BY <2>2, <3>1 DEF OneInUse
    <3>4. OneInUse(u)'
      BY <1>1, <1>3, <1>4, <1>5, <1>6, <3>3 DEF OneInUse, Running
    <3> QED  BY <2>2, <3>2, <3>4
  <2> QED  BY <2>1, <2>2
<1>13. ASSUME NEW z \in Users \ (overlapped \cup orphaned), NEW d \in Customers,
              customer[d].live, customer[d].user = z
       PROVE  \/ d = mirror'[z].customer
              \/ \E y \in Checkouts :
                   Finder(y, z)' /\ checkout'[y].step = "store" /\ checkout'[y].customer = d
  <2>1. \/ d = mirror[z].customer
        \/ \E y \in Checkouts :
             Finder(y, z) /\ checkout[y].step = "store" /\ checkout[y].customer = d
    BY <1>13 DEF AllStored
  <2>2. CASE z # u
    <3>1. \A y \in Checkouts : Finder(y, z) => y # x
      BY <1>0, <2>2 DEF Finder
    <3> QED  BY <1>4, <1>10, <2>1, <2>2, <3>1
  <2>3. CASE z = u
    <3>1. d # None
      BY Fields
    <3>2. d # mirror[u].customer
      BY <1>11, <1>13, <2>3, <3>1 DEF OneFinder, Usable
    <3>3. \A y \in Checkouts : Finder(y, u) => y = x
      BY <1>11, <2>3 DEF OneFinder
    <3> QED  BY <1>5, <2>1, <2>3, <3>2, <3>3
  <2> QED  BY <2>2, <2>3
<1>14. \A z \in Users \ (overlapped' \cup orphaned') : AllStored(z)'
  BY <1>1, <1>13 DEF AllStored
<1> QED  BY <1>1, <1>8, <1>9, <1>12, <1>14

\* A request ends, and may leave an open session.
LEMMA EndKeepsPortal ==
  ASSUME TypeOK, PortalInv, NEW x \in Checkouts, OpenSession(x) \/ CheckoutEnds(x)
  PROVE  PortalInv'
<1> USE DEF PortalInv
<1>1. /\ checkout[x] # NoCheckout /\ checkout' = [checkout EXCEPT ![x] = NoCheckout]
      /\ orphaned \subseteq orphaned'
      /\ checkout[x].step = "store" => checkout[x].user \in orphaned'
      /\ UNCHANGED <<customer, sub, event, mirror, overlapped>>
  BY DEF OpenSession, CheckoutEnds, stripeVars, NoCheckout
<1>2. ASSUME NEW e \in session', e \notin session
      PROVE  /\ checkout[x].step = "open" /\ e.user = checkout[x].user
             /\ e.customer = checkout[x].customer /\ Usable(e.customer)
  BY <1>2 DEF OpenSession, CheckoutEnds, stripeVars
<1>3. /\ NoCheckout.step = "none" /\ NoCheckout.customer = None
  BY DEF NoCheckout
<1>4. checkout'[x] = NoCheckout /\ \A y \in Checkouts \ {x} : checkout'[y] = checkout[y]
  BY <1>1 DEF TypeOK
<1>5. \A d : Usable(d)' <=> Usable(d)
  BY <1>1 DEF Usable
<1>6. CustomersKnown'
  <2>1. \A e \in session' : customer[e.customer] # NoCustomer
    BY <1>2 DEF CustomersKnown, Usable
  <2> QED  BY <1>1, <1>3, <1>4, <2>1 DEF CustomersKnown
<1>7. RowsExist'
  <2>1. \A e \in session' : mirror[e.user] # NoMirror
    BY <1>2 DEF RowsExist
  <2> QED  BY <1>1, <1>3, <1>4, <2>1 DEF RowsExist
<1>8. \A y \in Checkouts, u \in Users : Finder(y, u)' => Finder(y, u) /\ y # x
  BY <1>3, <1>4 DEF Finder
<1>9. ASSUME NEW u \in Users \ overlapped PROVE OneFinder(u)' /\ OneInUse(u)'
  <2>1. OneFinder(u)'
    BY <1>1, <1>5, <1>8 DEF OneFinder
  <2>2. \A e \in session' : e.user = u /\ Usable(e.customer) => e.customer = mirror[u].customer
    BY <1>2 DEF OneInUse
  <2>3. \A y \in Checkouts : checkout'[y].step = "open" => checkout'[y] = checkout[y]
    BY <1>3, <1>4
  <2>4. OneInUse(u)'
    BY <1>1, <1>5, <2>2, <2>3 DEF OneInUse, Running
  <2> QED  BY <2>1, <2>4
<1>10. ASSUME NEW u \in Users \ (overlapped \cup orphaned') PROVE AllStored(u)'
  <2>1. u \notin orphaned /\ ~(Finder(x, u) /\ checkout[x].step = "store")
    BY <1>1 DEF Finder
  <2>2. \A y \in Checkouts : y # x => (Finder(y, u) => Finder(y, u)')
    BY <1>4 DEF Finder
  <2>3. AllStored(u)
    BY <2>1
  <2> QED  BY <1>1, <1>4, <2>1, <2>2, <2>3 DEF AllStored
<1> QED  BY <1>1, <1>6, <1>7, <1>9, <1>10

\* A session is paid: the subscription is of the customer in the row.
LEMMA OpeningKeepsPortal ==
  ASSUME BaseInv, PortalInv, NEW e \in session, NEW s \in Subs, NEW status \in Stripe,
         Subscribed(e, s, status)
  PROVE  PortalInv'
<1> USE DEF PortalInv
<1>0. TypeOK
  BY DEF BaseInv
<1> DEFINE now == Opened(e, status)
           new == [now EXCEPT !.version = changes[now.user] + 1]
<1>1. /\ now \in Snapshot /\ Report(s, now) /\ customer[e.customer].live /\ sub[s] = NoSub
      /\ session' = session \ {e}
      /\ UNCHANGED <<customer, mirror, checkout, overlapped, orphaned>>
  BY OpeningReported
<1>2. now.user = e.user /\ now.customer = e.customer
  BY DEF Opened
<1> HIDE DEF now
<1>3. /\ sub' = [sub EXCEPT ![s] = new] /\ new \in Snapshot
      /\ event' = event \cup {[sub |-> s, of |-> sub'[s]]}
  BY <1>0, <1>1, ReportTyped
<1>4. new.user = e.user /\ new.customer = e.customer
  BY <1>1, <1>2 DEF Snapshot
<1> HIDE DEF new
<1>5. sub'[s] = new /\ \A t \in Subs \ {s} : sub'[t] = sub[t]
  BY <1>0, <1>3 DEF TypeOK
<1>6. \A d : Usable(d)' <=> Usable(d)
  BY <1>1 DEF Usable
<1>7. Usable(e.customer) /\ e.user \in Users
  BY <1>0, <1>1, Fields DEF Usable
<1>8. CustomersKnown'
  BY <1>1, <1>4, <1>5 DEF CustomersKnown
<1>9. RowsExist'
  BY <1>1, <1>3, <1>4, <1>5 DEF RowsExist
<1>10. ASSUME NEW u \in Users \ overlapped PROVE OneFinder(u)' /\ OneInUse(u)'
  <2>1. OneFinder(u)'
    BY <1>1, <1>6 DEF OneFinder, Finder
  <2>2. \A t \in Subs : sub'[t].user = u /\ Running(t)' =>
          Usable(sub'[t].customer) /\ sub'[t].customer = mirror[u].customer
    <3> SUFFICES ASSUME NEW t \in Subs, sub'[t].user = u, Running(t)'
                 PROVE  Usable(sub'[t].customer) /\ sub'[t].customer = mirror[u].customer
      OBVIOUS
    <3>1. CASE t = s
      BY <1>4, <1>5, <1>7, <3>1 DEF OneInUse
    <3>2. CASE t # s
      BY <1>5, <3>2 DEF OneInUse, Running
    <3> QED  BY <3>1, <3>2
  <2>3. OneInUse(u)'
    BY <1>1, <1>6, <2>2 DEF OneInUse
  <2> QED  BY <2>1, <2>3
<1>11. ASSUME NEW u \in Users \ (overlapped \cup orphaned) PROVE AllStored(u)'
  BY <1>1 DEF AllStored, Finder
<1> QED  BY <1>1, <1>8, <1>9, <1>10, <1>11

LEMMA DeleteKeepsPortal ==
  ASSUME TypeOK, PortalInv, NEW c \in Customers, DeleteCustomer(c) PROVE PortalInv'
<1> USE DEF PortalInv
<1>1. /\ customer[c].live
      /\ \A s \in Subs : sub[s].customer = c => sub[s].status = "canceled"
      /\ customer' = [customer EXCEPT ![c] = [customer[c] EXCEPT !.live = FALSE]]
      /\ UNCHANGED <<sub, session, event, mirror, checkout, overlapped, orphaned>>
  BY DEF DeleteCustomer
<1>2. customer[c] \in CustomerRow
  BY <1>1, Fields
<1>3. /\ [customer[c] EXCEPT !.live = FALSE] # NoCustomer
      /\ ~[customer[c] EXCEPT !.live = FALSE].live
  <2>1. \A row \in CustomerRow : row.user # None
    BY Fields DEF CustomerRow
  <2> QED  BY <1>2, <2>1 DEF CustomerRow, NoCustomer
<1>4. /\ customer'[c] = [customer[c] EXCEPT !.live = FALSE]
      /\ \A d \in Customers \ {c} : customer'[d] = customer[d]
  BY <1>1 DEF TypeOK
<1>5. \A d \in Customers \cup {None} : Usable(d)' => Usable(d) /\ d # c
  BY <1>3, <1>4 DEF Usable
<1>6. \A d \in Customers \ {c} : Usable(d) => Usable(d)'
  BY <1>4 DEF Usable
<1>7. /\ \A y \in Checkouts : checkout[y].customer \in Customers \cup {None}
      /\ \A e \in session : e.customer \in Customers
      /\ \A s \in Subs : sub[s] # NoSub => sub[s].customer \in Customers
      /\ \A u \in Users : mirror[u].customer \in Customers \cup {None}
      /\ \A u \in Users : mirror[u] # NoMirror => mirror[u].customer \in Customers
  BY Fields DEF Snapshot
<1>8. CustomersKnown'
  <2>1. \A d \in Customers : customer[d] # NoCustomer => customer'[d] # NoCustomer
    BY <1>3, <1>4
  <2> QED  BY <1>1, <1>7, <2>1 DEF CustomersKnown
<1>9. RowsExist'
  BY <1>1 DEF RowsExist
<1>10. ASSUME NEW u \in Users \ overlapped PROVE OneFinder(u)' /\ OneInUse(u)'
  <2>1. OneFinder(u)'
    BY <1>1, <1>5, <1>7 DEF OneFinder, Finder
  <2>2. OneInUse(u)'
    <3>1. \A s \in Subs : Running(s) => sub[s].customer \in Customers \ {c}
      BY <1>1, <1>7 DEF Running
    <3> QED  BY <1>1, <1>5, <1>6, <1>7, <3>1 DEF OneInUse, Running
  <2> QED  BY <2>1, <2>2
<1>11. ASSUME NEW u \in Users \ (overlapped \cup orphaned) PROVE AllStored(u)'
  BY <1>1, <1>3, <1>4 DEF AllStored, Finder
<1> QED  BY <1>1, <1>8, <1>9, <1>10, <1>11

LEMMA PortalStep == BaseInv /\ BaseInv' /\ PortalInv /\ [Next]_vars => PortalInv'
<1> SUFFICES ASSUME BaseInv, BaseInv', PortalInv, [Next]_vars PROVE PortalInv'
  OBVIOUS
<1>0. TypeOK /\ TypeOK' /\ RequestsKnow
  BY DEF BaseInv
<1>1. ASSUME UNCHANGED <<customer, checkout, overlapped, orphaned, session, mirror, sub>>,
             event' \subseteq event
      PROVE  PortalInv'
  BY <1>0, <1>1, PortalKept
<1>2. ASSUME NEW s \in Subs, PauseChanges(s) \/ \E to \in Stripe : StatusChanges(s, to)
      PROVE  PortalInv'
  <2>1. /\ sub[s] \in Snapshot /\ sub[s].status # "canceled"
        /\ UNCHANGED <<customer, checkout, overlapped, orphaned, session, mirror>>
    BY <1>0, <1>2, ChangeReported
  <2>2. PICK now \in Changed(s) : Report(s, now)
    BY <1>0, <1>2, ChangeReported
  <2>3. now \in Snapshot /\ now.user = sub[s].user /\ now.customer = sub[s].customer
    BY <2>1, ChangedTyped
  <2> DEFINE new == [now EXCEPT !.version = changes[now.user] + 1]
  <2>4. /\ sub' = [sub EXCEPT ![s] = new] /\ new \in Snapshot
        /\ event' = event \cup {[sub |-> s, of |-> sub'[s]]}
    BY <1>0, <2>2, <2>3, ReportTyped
  <2>5. new.user = sub[s].user /\ new.customer = sub[s].customer
    BY <2>3 DEF Snapshot
  <2> HIDE DEF new
  <2>6. sub'[s] = new /\ \A t \in Subs \ {s} : sub'[t] = sub[t]
    BY <1>0, <2>4 DEF TypeOK
  <2>7. sub[s] # NoSub
    BY <2>1, SubscriptionAssumption DEF NoSub, Snapshot
  <2>8. \A t \in Subs : sub'[t] # NoSub =>
          /\ sub[t] # NoSub /\ sub'[t].user = sub[t].user /\ sub'[t].customer = sub[t].customer
          /\ sub'[t].status # "canceled" => sub[t].status # "canceled"
    BY <2>1, <2>5, <2>6, <2>7
  <2>9. \A e \in event' : e \in event \/ \E t \in Subs : sub[t] # NoSub /\ e.of.user = sub[t].user
    BY <2>4, <2>5, <2>6, <2>7
  <2> QED  BY <1>0, <2>1, <2>8, <2>9, PortalKept
<1>3. ASSUME NEW e \in event, OnSubscriptionEvent(e) PROVE PortalInv'
  <2> DEFINE row == Mirrored(mirror[e.of.user], e)
  <2>1. /\ mirror' = [mirror EXCEPT ![e.of.user] = row]
        /\ event' = event \ {e}
        /\ UNCHANGED <<customer, checkout, overlapped, orphaned, session, sub>>
    BY <1>3 DEF OnSubscriptionEvent, stripeVars
  <2>2. e.of.user \in Users
    BY <1>0, Fields DEF Snapshot
  <2>3. mirror[e.of.user] # NoMirror
    BY DEF PortalInv, RowsExist
  <2>4. row \in Mirror /\ row.customer = mirror[e.of.user].customer
    BY <1>0, <2>3, MirroredTyped
  <2> HIDE DEF row
  <2>5. row # NoMirror
    BY <1>0, <2>4, Fields DEF Mirror, NoMirror
  <2>6. mirror'[e.of.user] = row /\ \A u \in Users \ {e.of.user} : mirror'[u] = mirror[u]
    BY <1>0, <2>1, <2>2 DEF TypeOK
  <2>7. \A u \in Users : /\ mirror'[u].customer = mirror[u].customer
                         /\ mirror[u] # NoMirror <=> mirror'[u] # NoMirror
    BY <2>3, <2>4, <2>5, <2>6
  <2> QED  BY <1>0, <2>1, <2>7, PortalKept
<1>4. ASSUME NEW e \in event, EventLost(e) PROVE PortalInv'
  BY <1>1, <1>4 DEF EventLost, stripeVars
<1>5. CASE PlanSteps
  BY <1>1, <1>5 DEF PlanSteps, subscriptionVars, stripeVars
<1>6. ASSUME NEW x \in Checkouts, NEW u \in Users,
             Portal(x, u) \/ \E slug \in Slugs : Subscribe(x, u, slug)
      PROVE  PortalInv'
  BY <1>0, <1>6, StartKeepsPortal DEF Portal, Subscribe
<1>7. ASSUME NEW i \in Invoices, OnInvoicePaid(i) \/ \E s \in Subs : Collect(i, s)
      PROVE  PortalInv'
  BY <1>1, <1>7 DEF OnInvoicePaid, Collect
<1>8. CASE UNCHANGED vars
  BY <1>1, <1>8 DEF vars, subscriptionVars, stripeVars
<1> QED
  BY <1>0, <1>2, <1>3, <1>4, <1>5, <1>6, <1>7, <1>8, CreateKeepsPortal, StoreKeepsPortal,
     EndKeepsPortal, OpeningKeepsPortal, DeleteKeepsPortal
     DEF Next

LEMMA PortalShows == TypeOK /\ PortalInv => PortalShowsSubscription
<1> SUFFICES ASSUME TypeOK, PortalInv, NEW u \in Users \ overlapped
             PROVE  /\ \A s \in Subs :
                         sub[s].user = u /\ sub[s].status \in {"incomplete", "active", "past_due"} =>
                           mirror[u].customer = sub[s].customer
                    /\ u \notin orphaned =>
                         Cardinality({c \in Customers : customer[c].live /\ customer[c].user = u}) <= 1
  BY DEF PortalShowsSubscription
<1> DEFINE live == {c \in Customers : customer[c].live /\ customer[c].user = u}
<1>1. \A s \in Subs :
        sub[s].user = u /\ sub[s].status \in {"incomplete", "active", "past_due"} =>
          mirror[u].customer = sub[s].customer
  BY DEF PortalInv, OneInUse, Running, NoSub
<1>2. ASSUME u \notin orphaned PROVE Cardinality(live) <= 1
  <2>1. AllStored(u) /\ OneFinder(u)
    BY <1>2 DEF PortalInv
  <2>2. ASSUME NEW c \in live, NEW d \in live PROVE c = d
    <3>1. c # None /\ d # None
      BY Fields
    <3>2. CASE c = mirror[u].customer
      <4>1. \A x \in Checkouts : ~Finder(x, u)
        BY <2>1, <3>1, <3>2 DEF OneFinder, Usable
      <4> QED  BY <2>1, <3>2, <4>1 DEF AllStored
    <3>3. CASE c # mirror[u].customer
      <4>1. PICK x \in Checkouts : Finder(x, u) /\ checkout[x].customer = c
        BY <2>1, <3>3 DEF AllStored
      <4>2. d # mirror[u].customer
        BY <2>1, <3>1, <4>1 DEF OneFinder, Usable
      <4> QED  BY <2>1, <4>1, <4>2 DEF AllStored, OneFinder
    <3> QED  BY <3>2, <3>3
  <2>3. CASE live = {}
    BY <2>3, FS_EmptySet
  <2>4. CASE live # {}
    <3>1. PICK c \in live : TRUE
      BY <2>4
    <3>2. live = {c}
      BY <2>2, <3>1
    <3>3. Cardinality({c}) = 1
      BY FS_Singleton
    <3> HIDE DEF live
    <3> QED  BY <3>2, <3>3
  <2> QED  BY <2>3, <2>4
<1> QED  BY <1>1, <1>2

-----------------------------------------------------------------------------
(* Theorems *)

LEMMA Invariants == Spec => [](BaseInv /\ MirrorInv /\ PortalInv)
<1>1. Init => BaseInv /\ MirrorInv /\ PortalInv
  BY BaseInitial, MirrorInitial, PortalInitial
<1>2. BaseInv /\ MirrorInv /\ PortalInv /\ [Next]_vars => (BaseInv /\ MirrorInv /\ PortalInv)'
  BY BaseStep, MirrorStep, PortalStep
<1> QED  BY <1>1, <1>2, PTL DEF Spec

\* Every variable of the plans and of the subscriptions keeps its type: rows
\* and Stripe's objects are complete or absent.
THEOREM TypesHold == Spec => []TypeOK
<1>1. BaseInv => TypeOK
  BY DEF BaseInv
<1> QED  BY <1>1, Invariants, PTL

\* A plan is charged at the amount its page shows, however saves of it
\* overlap, fail or are cut short by a deploy: upsertPlan, unless the amount
\* was changed while Stripe was not configured.
THEOREM ChargedAsShown == Spec => []PriceMatchesAmount
<1>1. BaseInv => PriceMatchesAmount
  BY DEF BaseInv, SaleInv, PriceInv
<1> QED  BY <1>1, Invariants, PTL

\* The price of a published plan is one of its product, and it is in use or
\* being replaced, unless a save of the plan failed or met another, or its
\* product was removed, and no save alone has made a price since: upsertPlan.
THEOREM CanBeSubscribed == Spec => []PublishedIsSellable
<1>1. BaseInv => PublishedIsSellable
  BY DEF BaseInv, SaleInv, Sound, PlanIsSold, PublishedIsSellable, RowsFit, Fits
<1> QED  BY <1>1, Invariants, PTL

\* The event of the last change leaves the row as the subscription is,
\* whatever was lost or overtaken before it, as long as none is handled after
\* it; and it is the last one handled when they all are, in order:
\* onSubscriptionEvent and mapStripeStatus, which shows an ended subscription
\* that is paused as paused.
THEOREM MirrorCatchesUp == Spec => []MirrorIsCurrent
<1>1. BaseInv /\ MirrorInv => MirrorIsCurrent
  BY MirrorShows DEF BaseInv
<1> QED  BY <1>1, Invariants, PTL

\* The portal opens on the customer that owns the running subscriptions, and
\* a user has one customer: ensureStripeCustomer, unless two requests of the
\* user searched at a time or one died between creating and storing.
THEOREM PortalOpensRight == Spec => []PortalShowsSubscription
<1>1. BaseInv /\ PortalInv => PortalShowsSubscription
  BY PortalShows DEF BaseInv
<1> QED  BY <1>1, Invariants, PTL
=============================================================================
