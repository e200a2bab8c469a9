# Verification of the Nimi backend

TLA+ models of the backend in `src/` (NestJS, Prisma on PostgreSQL, Stripe), the
TLC configurations that check them on small instances, and proofs checked by
TLAPS for every instance. File and line references are to `src/`;
`PROJECT.json` maps every definition to the lines it stands for.

## 1. The system

Requests arrive at several Node processes and share nothing but one PostgreSQL
database. An `await` on a database statement or on Stripe is a point at which
any other request may run. There are no locks and no version columns: what
protects a row is a transaction, a filter on an `updateMany`, a unique index, or
nothing.

| Component | State | Operations | Talks to |
|---|---|---|---|
| Pastry cart (`pastry-cart`) | `PastryCart`, `PastryCartItem` | add, bulk-add, update, remove, clear, view; per-item minimum and batch limit | reads orders of the day, the credit ledger; cleared by the completion |
| Pastry orders (`pastry-orders`) | `PastryOrder`, its timestamps, `stripeSessionId`, `creditTransactionId` | `startCheckout`, `onCheckoutCompleted`, `reconcileFromSession`, `adminUpdateStatus` | cart, promo codes, shipping, ledger, Stripe |
| Promo codes (`promo-codes`) | `PromoCode` (cap, count, `redeemedAt`, owner, expiry) | preview, redeem (inside the order's transaction), birthday issue | cron, orders |
| Stripe webhook (`webhooks`) | `StripeEvent` ids | record, then dispatch by event type | orders, gifting, cravings |
| Gift orders (`gifting`) | `GiftOrder`, its timestamps, session and payment-intent ids | `createCheckoutSession`, completion, asynchronous result, reconcile, refund, `adminUpdateOrder` | Stripe |
| Credit ledger (`cravings`) | `CreditTransaction` | accrue, adjust, refund | Stripe events, orders, the sweep of `cron` |
| Plans and subscriptions (`cravings`) | `CravingsPlan`, `Subscription`, the customers, products and prices in Stripe | save a plan, subscribe, open the portal, mirror an event, welcome mail | Stripe |
| Scheduled jobs (`cron`) | none of its own; markers in `AuditLog` | credit expiry, reminders, notices, birthday codes | ledger, promo codes, mail |
| Refresh tokens (`auth/refresh.service`) | `RefreshToken` | issue, rotate, revoke, revoke all | login, password reset |
| Accounts, MFA (`auth`) | `User`, verification and reset tokens, the second factor | register, verify, log in, answer a challenge, ask for and use a reset link, enrol, confirm, cancel, disable | refresh tokens, mail |
| Content, blog (`content`, `blog`) | `ContentBlock` versions, `BlogPost` | save, publish, roll back; write, publish, schedule, withdraw, promote, list | none |
| Enquiries, notifications (`contact`, `notifications`) | `ContactEnquiry`, `Notification` | create, decide, reply; fan out, mark read | mail, `User.role` |
| Newsletter (`newsletter`) | `NewsletterSubscriber`, signed links | subscribe, confirm, unsubscribe | mail |
| Catalogues, tiers, images, settings, testimonials | a table each | seed, create, edit, delete | gift orders hold on to collections |
| Shipping (`shipping`) | `ShippingZone` | create, edit, delete, resolve a fee | pastry orders |
| Profile, KPIs, guards, mailer, Klaviyo, shell | the birthday; otherwise none | reads and wording | |

`PROJECT.json` lists every part with its status.

**What is hard here.** (1) Read-then-write with other requests in between: the
status test of a completion, the admin transitions, the batch limit, the token
rotation, the lockout counter, the ledger's running balance, two editors of one
row. (2) One logical operation split into a row, a Stripe call and a second row:
checkouts, plans with their prices, customers. (3) Stripe's at-least-once,
unordered delivery against record-then-dispatch. (4) Two paths, webhook and
success page, to the same completion. (5) Money computed twice, by the backend
and by Stripe. (6) Jobs that are triggered again, links that are opened late or
twice. `PROJECT.json` has the list of hazards, each at its line, with the
properties that watch it or the reason why none does.

**What makes each part correct.**

* Pastry orders: a promo code is spent on one order only; credit is debited
  once, with the first payment and in full; Stripe asks for the stored total;
  a paid order is a funded one; the timeline has no gap; a paid session ends as
  a paid order.
* Cart: no more of an item is booked for a day than the kitchen makes.
* Gift orders: `paidAt` means money; nothing ships unapproved; the outcome of a
  payment, early or late, reaches the order.
* Ledger: an invoice is accrued or forfeited to the penny, the cap holds, a
  refund takes what was accrued, no credit expires twice.
* Plans: a plan is charged at the amount its page shows and, once published,
  can be bought. Subscriptions: the mirror shows what became of the
  subscription; the portal opens on the customer who pays.
* Tokens: a token has at most one live successor, an ended session stays ended.
* Accounts: wrong passwords are counted, one reset link is valid, the second
  factor is one whose secret the owner has shown a code of.
* Mail jobs: a user has one birthday code to spend, and the mailed one is theirs.
* Content: what the public sees moves forward only; a due post is listed.
* Enquiries, newsletter: who closed may close; who is on the list has asked.
* Catalogues: an edit changes what it names. Shipping: one zone, one fee.

## 2. Modules

| Module | Models | Kind |
|---|---|---|
| `PastryOrders` | checkout, promo codes, completion by webhook and reconcile, admin transitions | state machine, properties, inductive invariant |
| `Settlement` | what a checkout promises: placed once, code claimed once, credit debited in the step that settles | abstract specification |
| `PastryOrders_proofs` | its theorems | proofs |
| `MCPastryOrders` | prices, codes and moves of the instances | model checking |
| `PastryCart`, `PastryCart_proofs`, `MCPastryCart` | cart mutations, bookings of the day, batch limits | state machine, proofs, model checking |
| `Kitchen` | what a kitchen's book promises: an order is booked against all that others hold, but for what was taken since the customer looked | abstract specification |
| `GiftOrders` | gift checkout, its Stripe events, reconcile, admin transitions | state machine, properties, inductive invariant |
| `GiftOrders_proofs` | its theorems | proofs |
| `CreditLedger`, `CreditLedger_proofs`, `MCCreditLedger` | every writer of one customer's ledger, with the clock | state machine, proofs, model checking |
| `RefreshTokens` | issue, rotation, reuse, revocation | state machine, properties |
| `LoginSessions` | what a login promises: one owner, one token that refreshes, an end that is final | abstract specification |
| `Accounts`, `Accounts_proofs`, `MCAccounts` | the account handlers, composed with `RefreshTokens`, which they implement; the proofs of both | state machine, refinement, proofs, model checking |
| `Plans` | saving a plan and its Stripe product and price | state machine, properties |
| `Subscriptions`, `Subscriptions_proofs`, `MCSubscriptions` | customers, checkouts, Stripe's reports and the mirror, composed with `Plans` | state machine, proofs, model checking |
| `MailJobs`, `MCMailJobs` | the three mail jobs, markers, birthday codes | state machine, model checking |
| `Catalogues` | six tables edited by operators and seeded by starting instances | state machine, properties |
| `Publishing` | versions of a content block; blog posts and their readers | state machine, properties |
| `Enquiries` | enquiries, decisions, replies, notifications | state machine, properties |
| `Newsletter` | double opt-in by link | state machine, properties |
| `Shipping` | zones and the resolver of fees, against a reference definition | state machine, algorithm |
| `Nulls` | the value of an empty column | constant |
| `BackOffice` | the five before `Nulls` in one specification | composition |
| `MCBackOffice` | its instances | model checking |
| `BackOffice_proofs` | theorems about the five, their composition and `MailJobs` | proofs |
| `SumTheorems` | laws of sums over finite sets | lemmas of the ledger and the cart |

### How the state and the actions correspond

The unit of interleaving is one database statement or transaction, or one call
to Stripe. A handler that awaits *n* times is *n* actions; what it has read and
not yet used is a variable of its own (`req`, `verifying`, `completing`, `admin`
in `PastryOrders` and `GiftOrders`; `call`, `rotation`, `save`, `checkout`,
`run`, `form`, `editing`, `read`, `decision`, `visit` elsewhere), because it is
the memory of a request and not a row. Statements whose order nobody can observe
are one action: the parallel reads of `view` are separate actions where the
other parts of the model can change what they read, the two writes of one
transaction are not. A PostgreSQL transaction is one action because its first
write locks the row the others compete for: `redeem`'s filtered update on the
code, the completion's update of the order row. Variables marked *ghost* are
written by the model only, for the properties: most of them record that two
requests overlapped where the code says nothing of that case.

`PastryOrders`, `startCheckout`: `StartCheckout`, `ReadCart`, `ReadBalance`
(the reads of `view`), `Quote` (guards, discount, credit, delivery), then
`CreatePaid` (nothing left to charge: order, code, debit and cart in one
transaction) or `CreatePending`, `CreateSession` or `SessionRefused`,
`StampSession`. `CheckoutEnds` is a guard that refuses or a process that dies
between two of these. The completion is `WebhookReceive` (the event id is
recorded and the order's status tested: `AlreadyProcessed`) or `ReconcileRead`
and `ReconcileVerify` (status test, `sessions.retrieve`, the same status test),
and then `CompleteTx`. `CompletionFails` is the handler that throws, or the
process that dies, after the event id was recorded; Stripe's retry is then a
duplicate, so nothing else happens. `AdminRead` and `AdminWrite` are the two
statements of `adminUpdateStatus`. `AddLine`, `RemoveLine`, `MoveCredit` and
`ExpireCode` are what the rest of the system does meanwhile to the rows a
checkout has read. Stripe is external: a session is open, then paid, unpaid
(submitted with a method that settles later) or expired, and an unpaid one
becomes paid or failed.

`PastryCart`: a request begins by reading the line (`AddItem`, `UpdateItem`,
`BulkAdd`) or the cart (`Checkout`), reads the bookings of everyone
(`ReadTotal`), then those of the customer (`ReadOwn`), and writes (`FinishAdd`,
`FinishUpdate`, `FinishBulk`, `CreateOrder`). `Occupies` is
`BATCH_OCCUPYING_STATUSES` of an order of today; `NewDay` is midnight in London.
Order statuses are abstracted to open, paid (PAID to SHIPPED) and freed. `since`
and `unseen` are ghosts: the units taken after a checkout's first read, and those
an order was created, or paid late, without having seen.

`GiftOrders`: `CreateOrder`, `CreateSession`, `StampSession` are the statements
of `createCheckoutSession`. A completion is `ReceiveCompleted` or
`ReconcileRead`, `ReconcileVerify` (up to its test of status and
`payment_status`) and `CompletionWrite`, an update by id. The asynchronous
results are one filtered update each (`ReceiveSucceeded`, `ReceiveFailed`),
`ReceiveRefunded` finds its order by the payment intent. `failed` is a ghost:
the orders of which a handler or a completion failed.

`CreditLedger`: the ledger is a function from the unique key of a row,
(`sourceType`, `sourceId`), to the row. `ReceivePaid`, `ReceiveRefund` and
`Adjust` are `applyTransaction` up to its balance; its lookup of the source and
its sum are one action because the unique key repeats the lookup when the row is
written. `WriteAccrual` and `WriteOther` are the rest of the transaction, a taken
key rolling it back. `Redeem` is the debit of a pastry order, whose quote
(`Quote`) was computed from the balance of a cart view. The sweep is
`SweepStart` (what has aged, by the clock and the day of its start), `SweepSum`
(the redemptions and earlier forfeits) and `SweepWrite`. `Tick` is time, which is
counted in ticks of which `TicksPerDay` make a day. `credited` is a ghost: what
other calls credited since a call read its balance.

`RefreshTokens`: `Issue` founds a family, named by its first token. `rotate` is
`Present` (the row is read, its expiry and revocation tested), then `Mint` (the
transaction that revokes and creates, which tests nothing again) or
`RevokeFamily` for a token that was revoked. `Revoke` is a logout,
`RevokeAllForUser` a reset. `raced` has the families of which a rotation found
its token revoked at its write.

`Accounts`: `Login` reads the user, `LoginFails` or `LoginPasses` writes the
count or clears it after the hash was verified, `IssueSession` calls `Issue`.
`ForgotPassword`, `InvalidateLinks`, `MintLink` are the statements of the
request for a reset link; `ResetPassword`, `WritePassword`, `RevokeSessions`
those of its use. `BeginSetup`, `ConfirmSetup`, `CancelSetup`, `Disable` read
the row, `WriteMfa` writes it by id. `Lapse` is time: a lockout, a link, a
challenge or the cooldown of mails ends.

`Plans`: `StartSave` is `upsertPlan` up to its first Stripe call, then
`ReuseProduct` or `CreateProduct`, `ArchivePrice` (whose failure is swallowed),
`CreatePrice`, `WritePlan`; `SaveFails` at any of them. `Boot` seeds what is
missing and reads whether there is a key. `offline` and `troubled` are ghosts: the
plans saved without Stripe, and those a save of which was cut off or met another. `Subscriptions`: `Subscribe` and
`Portal` begin with `ensureStripeCustomer`, `CreateCustomer`, `StoreCustomer`,
`OpenSession`. `Report` is Stripe's snapshot of a subscription after a change;
`OnSubscriptionEvent` takes any one that is under way, `EventLost` is the
handler that throws after the event id was recorded. `changes` and `seen` are
ghosts that number the snapshots, so that the properties can tell the latest.

`MailJobs`: `StartRun` takes the list, `Take` tests the marker of an entry,
`FindCode` and `CreateCode` are `issueBirthdayCode`, `Send` and `Mark` the mail
and its marker. The two other jobs differ in their list and key. `again` has
what was mailed more than once.

`Catalogues` keeps one column of each sort (unique, required, nullable, shown,
counted) for six tables, and says of each table what its service does with a
field that is absent, null or given. An edit is `Begin` (the read) and
`Update...` or `Delete...`; `UpsertImage` and `UpsertSetting` are the upserts.
`CountRows` and `Seed...` are `onModuleInit`. `meant` is a ghost: by row and
column, what was last asked for. `Publishing`: `StartDraft`, `StartRollback`,
`CreateVersion` are the read of the highest version and the insert, which the
unique index refuses to the second; `PublishBlock` stamps. `Promote` and
`ListPosts` are the two statements of a public read of the blog.
`Enquiries`: `StartUpdate` or `StartReply`, `MailReply`, `UpdateEnquiry` or
`FinishReply`; `notifyStaff` runs when it runs, without the caller.
`Newsletter`: `StartSubscribe` and `FinishSubscribe`, `OpenLink` and
`FinishConfirm`, `Unsubscribe`. `Shipping`: `resolveFee` walks the sorted list
(`ActiveZones`, the listing of the active zones that `Precedes` orders) twice,
for the first of `Specific` places and then of `CatchAlls`;
`normalisePostcode`, `applyFreeOver`; the edits choose every table of zones.

## 3. What is checked

Bounds are named constants: `MaxInFlight` (simultaneous completions of one
order), `MinBalance`/`MaxBalance` and `CreditMoves` (other rows of the ledger),
`MaxQuantity` and `Quantities` (cart lines), `Calls`, `Rotations`, `Saves`,
`Checkouts`, `Runs`, `Forms`, `Editors`, `Readers`, `Decisions`, `Visits`
(requests in progress), `MaxChanges` (reports of a user's subscriptions),
`MaxMissed` (units taken while a checkout is in progress), `Horizon`, `MaxTime`,
`MaxDay` (time), `MaxVersion` (versions of a block).

### Runs that pass

| Run | Question | Instance |
|---|---|---|
| `pastry_lifecycle` | `DebitedOnceWhenSettled`, `TimelineComplete`, `PaidIsFunded`: two administrators, the webhook and two completions at once, any of which may fail, over a balance that may be overdrawn | 1 order, 2 admins, with and without delivery fee, delayed methods, failures |
| `pastry_payment` | `PaidIsSettled`, under fairness | 1 order, 1 admin, delayed methods |
| `pastry_promise` | `PromoBinding`, `ChargeMatchesTotal`: two checkouts race for one code, one cart and one balance; `OverdrawnByTwo`: where nothing else takes credit, no order alone overdraws; `PromiseKept`: `PastryOrders` implements `Settlement`; `IInv` is an invariant | 1 customer, 2 orders, 1 line, 1 code, delayed methods, failures |
| `cart` | `TypeOK`; `OrderFitsKitchen`: no order exceeds the limit, however the two sums are interleaved with orders; `OnlyOwnOrdersOverbook`: racing checkouts of two customers overbook an item by no more than was taken between their reads and their orders, or by late completions; `BookedAgainstOthers`: `PastryCart` implements `Kitchen` | 2 customers, 2 orders, 2 requests, an item sold in pairs and one sold singly, 2 units a day of each |
| `gift_lifecycle` | `IInv`, `PaidStampIsFunded`, `ApprovedBeforeShipped`; `OutcomeLeavesPending` under fairness | 1 order, 2 admins, delayed methods, failures |
| `credit_ledger` | `TypeOK`, `NothingExpiresTwice`, `BooksReconcile`: invoices, partial refunds, an adjustment, a redemption and overlapping sweeps; `AccrualWithinCap`: accruals that overlap pass the cap by what was credited meanwhile and no more | 2 invoices of 2 units, cap 3, 1 order; 2 calls and a sweep on 2 days, or 2 sweeps on 3 days |
| `sessions` | `FailuresAreCounted`, `ActiveSecretWasProved`; `SessionsKept`: the tokens implement `LoginSessions`; `OverIsFinal`: no session that is over comes back, raced ones included | 1 user, 3 tokens, 2 refreshes, 2 requests, 2 secrets, 2 links, lockout after 2 |
| `subscriptions` | `TypeOK`, `PriceMatchesAmount`, `PublishedIsSellable`, `MirrorIsCurrent`, `PortalShowsSubscription`; `CancellationIsMirrored` under fairness | 1 plan, 2 amounts, 2 saves, 2 products, 3 prices; 1 user, 2 subscriptions, 2 customers, 4 changes, pauses that outlive the subscription or not |
| `mail_jobs` | `TypeOK`, `OneCodeToSpend` | 2 users, 3 codes, 2 runs, 2 days |
| `back_office` | `BackOfficeTypeOK`, `NoLostEdit`, `DuePostsAreListed`, `FeeIsDefined`, `HistoryMovesOn`, `ClosedByEditor`, `OptedIn` | 2 rows and 2 operators; 4 versions and 2 editors; 1 post and 2 readers; 1 enquiry, 2 staff; 1 address; 3 zones, free ones included |

Why these bounds are enough to be interesting: every race in this code is
between two requests over one row, so two orders, two administrators, two
completions or two overlapping requests show it; a promo code with one use and a
batch limit of two, with carts of one or two, give two customers a last unit to
want; one
line of four units, one percentage code and credit reach a total of zero, with
and without a delivery fee. The runs have no fixed code: its clamp at the
subtotal is in `ComputeDiscount` and covered by the proof of `ChargeMatchesTotal` only.
Three tokens are a session, its successor
and a second login or a second successor; two subscriptions of one user are the
fewest in which the wrong one can be shown; three days are the fewest in which a
second sweep can forget what the first one took; three zones are a prefix, a
longer prefix and a catch-all, in every order. For most safety properties the
proofs remove the bounds altogether.

The ledger's cap of three lets one invoice in whole, the next in part and, after
the adjustment, one not at all. Its run keeps two conditions, which are
constants: an invoice is the subject of one event (`Redelivered`), without which
`BooksReconcile` fails (`LedgerRedelivered`), and a sweep is over before midnight
(`SpansMidnight`).

**Scenes.** Six MC modules have a variable `scene` that says what a behaviour is
about, because the product of independent parts would only multiply states.
`MCBackOffice` runs the five modules of `BackOffice`, whose services share no
state: a behaviour is about one. `MCMailJobs` runs one job, or two birthday runs over one
user. `MCSubscriptions` saves plans, or starts with a plan published and has
concurrent requests of a customer, or one request at a time and all that Stripe
may report (two saves meet while there is at most one price and the plan has had
no trouble, and a user of whom an event was lost or overtaken has one change
less); `MCAccounts` joins two of four groups of handlers that meet in a
login only; `MCPastryCart` has all requests of one customer, overlapping, or
checkouts of two customers that race, with late completions; `MCCreditLedger` has
calls that overlap, or sweeps that do. Where a scene excludes more than its name says (an order in
which identifiers are taken, a birthday that is no run's, two rows edited in
their slugs only), a comment at the definition says so. The modules themselves
are not restricted, and the theorems are about them.

Symmetry is used in `PastryCart`, `CreditLedger`, `Accounts` and `MailJobs`:
the identifiers named there are interchangeable, their runs have no liveness
property, and no definition chooses among the symmetric ones, except for the
next free code in `MCMailJobs`, which are not in its symmetry. Deadlock checking
is off where a finite set of orders, tokens, events or days comes to its end and
nothing more can happen; it is on for the runs of `PastryOrders` and
`PastryCart`.

### Fairness

`FairSpec` of `PastryOrders` asks for weak fairness of the webhook's delivery
(Stripe retries until it gets a 2xx) and of a completion that has started (a
transaction of a process that lives commits). Nothing is assumed of customers,
administrators, the reconcile call, session expiry or delayed results: a
customer may never come back. The run `pastry_payment` sets `HandlerMayFail` to
false, because with it the property is false (`pastry_event_lost`). `GiftOrders`
assumes the same of its three payment events and of `CompletionWrite`, and
`OutcomeLeavesPending` excepts the orders of which a handler failed.
`Subscriptions` assumes weak fairness of `OnSubscriptionEvent` for each
subscription: while events of it are under way, one of them is handled in the
end, in an order Stripe does not promise. `CancellationIsMirrored` excepts the
users of whom an event was lost or overtaken. `MCFairSpec` is the same over the
scenes.

### Runs that find a disagreement

Each checks one statement quoted from a comment of the repository and TLC's
trace shows what the code does instead.

| Run | Statement | What happens |
|---|---|---|
| `pastry_event_lost` | "Don't mark processed - Stripe will retry" | the retry is a duplicate; the paid order stays PENDING_PAYMENT |
| `ledger_refund_swept` | "writes a fresh EXPIRY transaction with the unspent remainder negated" | refunds are left out of the remainder: a refunded accrual is forfeited again and the balance ends below zero |

More disagreements are smaller, or variants of these. Each has a
configuration to replay it by hand (`tlc -config X.cfg M`), which is not part of
the runs:

| Configuration | Property | Statement | What happens |
|---|---|---|---|
| `PastryUnconfirmedDebit` | `DebitIsConfirmed` | "a credit is never debited without a confirmed payment" (`schema.prisma:1095`) | `payment_status` is not looked at; a delayed method is taken for paid |
| `PastryNotifiedTwice` | `NotifiedAtMostOnce` | "never twice, even if the webhook lands later" (`pastry-orders.controller.ts:79`) | webhook and reconcile pass the status test before either writes; both notify |
| `GiftNotifiedTwice` | `GiftNotifiedAtMostOnce` | "a race between webhook + reconcile cannot double-dispatch" (`gifting.service.ts:723`) | the same |
| `GiftIllegalMove` | `OnlyLegalTransitions` | "Ban illegal status transitions" (`gifting.service.ts:1037`) | a completion overwrites CANCELLED |
| `PastryCartLost` | `ClearsOnlyPaidLines` | "Clear the cart of the items we just paid for" (`pastry-orders.service.ts:762`) | every line is deleted, also those added since |
| `PastryAbandoned` | `AbandonedIsCleared` | "a separate auto-cancel job clears the row" (`pastry-cart.service.ts:18`) | there is no such job, and no case for `checkout.session.expired` |
| `PastryCodeCapped` | `RedeemableUpToCap` | "Per-code redemption cap. 1 = single-use" (`schema.prisma:1325`) | a second use is always refused, whatever the cap |
| `CartLastUnit` | `CustomersNeverOverbook` | "prevents two customers from both successfully checking out for the same last unit" (`pastry-cart.service.ts:20`) | bookings are read outside the transaction that adds to them |
| `CartOwnOrders` | `WithinBatchLimit` | "sum the quantity of any open order ... reject if the total exceeds this cap" (`schema.prisma:991`) | the customer's own open orders are subtracted |
| `LedgerCapRace` | `AccrualKeepsCap` | "with cap enforcement" (`cravings.service.ts:768`) | two accruals start from the same sum and exceed the cap together |
| `LedgerRedelivered` | `BooksReconcile` | "Idempotent on the (userId, "stripe.invoice", invoice.id) tuple" (`cravings.service.ts:674`) | an invoice forfeited in full has no row under that key; applied again, it is credited |

The same for these, with the configuration of a run, or of the table above,
whose properties are replaced by the one named; for `subscriptions` the specification is then
`MCSpec`.

| Configuration of | Property | Statement | What happens |
|---|---|---|---|
| `PastryNotifiedTwice`, `Admins = {a1}` | PROPERTY `CompletionIsIdempotent` | "Idempotent - if the order is already PAID we no-op" (`pastry-orders.service.ts:688`) | READY, SHIPPED, ... are set back to PAID by a completion that comes late |
| `PastryNotifiedTwice`, `Admins = {a1, a2}` | PROPERTY `AdminsGoForward` | "Forward-only; we never let admins reverse a status" (`pastry-orders.service.ts:974`) | the second of two administrators overwrites the first |
| `pastry_lifecycle` | INVARIANT `CancellableUnlessTerminal` | CANCELLED "is allowed from any non-terminal state" (`pastry-orders.service.ts:977`) | not from SHIPPED |
| `sessions` | INVARIANT `ResetEndsSessions` | "Revoke every refresh token for this user - force a fresh login everywhere" (`auth.service.ts:348`) | a login or rotation that had read its row before mints after |
| `sessions` | INVARIANT `LockoutKeepsCount` | "per-account lockout" (`auth.service.ts:36`) | of two wrong passwords at a time one is counted |
| `sessions` | PROPERTY `FactorLeavesByCode` | "disable(userId, code) requires a valid code" (`mfa.service.ts:32`) | a setup that is begun, or cancelled, and has read the row before the confirmation was written, writes after it |
| `sessions`, `Rehash = TRUE`, 2 passwords | PROPERTY `ResetPasswordStays` | a password set by a reset is the password | a login that rehashes writes the old one back |
| `subscriptions` | INVARIANT `WelcomeSentOnce` | "exactly once per Stripe subscription" (`cravings.service.ts:896`) | the marker is an audit row signed `system`, which is no user's id: it is refused, the refusal is logged, and the next event sends again |
| `subscriptions` | INVARIANT `PlanIsMirrored` | "mirror Stripe state into our Subscription row" (`cravings.service.ts:572`) | the row exists since the customer was stored, and the update leaves the plan out |
| `subscriptions` | INVARIANT `InvoiceIsCredited` | "accrue credit" (`cravings.service.ts:674`) | an invoice that comes before its subscription finds no user |
| `subscriptions` | PROPERTY `SaveRestoresPrice` | "Same logic for the price" (`cravings.service.ts:402`) | a save that failed after it had archived the price leaves it on the row; the next one, at the same amount, keeps it |
| `subscriptions` | INVARIANT `EndIsMirrored` | a cancelled subscription is mirrored as cancelled | one that ends paused is mirrored as paused: `mapStripeStatus` looks at the pause first (`cravings.service.ts`) |
| `mail_jobs` | INVARIANT `MailedOnce` | "Triggering the cron twice in one day is therefore safe" (`cron.service.ts:88`) | the marker is signed `system` as well and refused |
| `back_office` | INVARIANT `NoLostAlt` | an upload without `alt` keeps the alt text (`site-images.service.ts:91`) | it writes the alt text it read, over one that was set meanwhile |
| `back_office` | PROPERTY `PublishShows` | "Publishing sets publishedAt on a draft" (`content.service.ts:35`) | an older version is stamped, and the public still reads the highest |
| `back_office` | INVARIANT `PublishedIsWritten` | "Post body is empty - write something before publishing." (`blog.service.ts:238`) | the body is emptied afterwards, or between the read and the write |
| `back_office` | PROPERTY `ReplyKeepsDecision` | "Move to CONTACTED if it was still NEW" (`admin-enquiries.controller.ts:175`) | the status is the one read before the mail |
| `back_office` | PROPERTY `SubscribeKeepsConfirmed` | "If they're already CONFIRMED, do nothing" (`newsletter.service.ts:72`) | confirmed between the read and the write |
| `back_office` | PROPERTY `LeftStaysLeft` | who has left stays off the list | an old link brings the address back |

## 4. What is proved

Eight modules hold proofs, each for any values of the constants that the named
assumptions allow: any sets of customers, orders, codes, tokens, requests in
progress, rows, operators, days, and of orders, invoices, adjustments and zones, which
sums and lists run over, any finite set.

| Module | Theorem | Property |
|---|---|---|
| `PastryOrders_proofs` | `Invariant` | `IInv`, the inductive invariant |
| | `TypeCorrect` | `TypeOK`: in particular the credit of an order is a natural number whatever the balance |
| | `PromoSpentOnce` | `PromoBinding` |
| | `CreditDebitedOnce` | `DebitedOnceWhenSettled` |
| | `TimelineNeverSkips` | `TimelineComplete` |
| | `ChargedAsQuoted` | `ChargeMatchesTotal` |
| | `RowsBeforeRedirects` | `RowBeforeRedirect` |
| | `PaidOnlyIfFunded` | `PaidIsFunded`, methods that settle late included: those are the one exception it names |
| | `KeepsItsPromise` | `PromiseKept`: `Spec` implements `Settlement` |
| | `OverdraftNeedsTwo` | `OverdrawnByTwo` |
| `GiftOrders_proofs` | `Invariant` | `IInv` |
| | `PaidOnlyWithMoney` | `PaidStampIsFunded`, delayed methods included |
| | `ShippedOnlyApproved` | `ApprovedBeforeShipped` |
| `CreditLedger_proofs` | `TypesHold` | `TypeOK`: every sum that is read is an integer |
| | `BooksAlwaysReconcile` | `BooksReconcile`, calls that overlap included, if no invoice is redelivered |
| | `NoCreditExpiresTwice` | `NothingExpiresTwice`, sweeps and calls that overlap included, if a sweep is over before midnight |
| | `AccrualsStayUnderCap` | `AccrualWithinCap`, calls, orders and sweeps that overlap included |
| `PastryCart_proofs` | `CartIsTyped` | `TypeOK`: no line and no booking is negative |
| | `OrdersFitKitchen` | `OrderFitsKitchen`, requests that overlap included |
| | `OthersNeverOverbook` | `OnlyOwnOrdersOverbook`, racing checkouts and late completions included |
| | `CheckoutsKeepKitchen` | `BookedAgainstOthers`: the steps of a checkout implement `Kitchen`, without a hypothesis |
| `Accounts_proofs` | `TokensSafe` | `OneLiveSuccessor` and `ClosedStaysClosed`, which except families two rotations raced in, and `FamilyOfOneUser`, of `RefreshTokens` alone |
| | `TokensStayOver`, `EndedStaysEnded` | `OverIsFinal`, raced families included, of `RefreshTokens` alone and of `Accounts` |
| | `ImplementsRefreshTokens` | `Spec => TokensSpec` |
| | `TokensKeepSessions`, `AccountsKeepSessions` | `SessionsKept`, of `RefreshTokens` alone and of `Accounts` |
| | `TypesHold` | `TypeOK` of `Accounts` |
| | `CountsFailures`, `OneLink`, `FactorProved` | `FailuresAreCounted` (where no attempt overwrote another), `OneValidLink` (unless two requests for a link overlapped), `ActiveSecretWasProved` |
| `Subscriptions_proofs` | `TypesHold` | `TypeOK` |
| | `ChargedAsShown`, `CanBeSubscribed` | `PriceMatchesAmount` (unless changed without Stripe), `PublishedIsSellable` (a price of its product always; one in use unless a save was cut off or met another, or the product was removed, until a save alone makes a price) |
| | `MirrorCatchesUp` | `MirrorIsCurrent`, whether a pause ends with the subscription or outlives it |
| | `PortalOpensRight` | `PortalShowsSubscription` (unless two searches for a customer overlapped) |
| `BackOffice_proofs` | `ClosingIsForEditors`, `ListedByConsent` | `ClosedByEditor` (unless two decisions met), `OptedIn` (listing without exception; leaving the list unless requests overlapped) |
| | `RollbacksMoveForward`, `ListsAreComplete` | `HistoryMovesOn`, `DuePostsAreListed` |
| | `EditsAreKept` | `NoLostEdit` |
| | `FeesAreDefined` | `FeeIsDefined`, zones with a fee of 0 included |
| | `BackOfficeIsTyped` | `BackOfficeTypeOK` |
| | `ServicesKeepTheirWord` | the six properties above, of `BackOffice` |
| | `JobsAreTyped`, `OneCodeAtATime` | `TypeOK` and `OneCodeToSpend` of `MailJobs` |

**The inductive invariant of `PastryOrders`.** The properties alone are not
inductive. `ChargeMatchesTotal` needs that the row a call created is the one it
quoted, as long as the call has not created its session (`RowFollowsStage`).
`PaidIsFunded` and `RowBeforeRedirect` need that money and completions appear
only after the session exists and its URL was returned
(`PaymentFollowsSession`). `TimelineComplete` needs that what an administrator
*will* write was allowed from a status whose timestamp is, and stays, on the row
(`StatusHasTimeline`): the status itself may have changed meanwhile, so the
argument goes through timestamps, which are only ever added. This is why the
timeline survives the race that breaks `AdminsGoForward`. `CallHasUser` types
the reads. `QuoteArithmetic` is the lemma about money: discount and credit are
bounded by what they reduce, and the sum of line items, delivery and coupon is
the stored total. `TypeOK` and `RowBeforeRedirect` are conjuncts of `IInv`,
which the run `pastry_promise` checks.

**The refinement of `Settlement`.** A `Settlement` step is `CreatePending`
(place), `CreatePaid` (place and settle) or the first `CompleteTx` (settle).
Every other step, every later completion and every administrator stutters. The
mapping is the rows themselves: existing orders, `paidAt`, `redeemedOrderId`,
`creditAppliedMinor`, the REDEMPTION rows.

**Who overdraws a balance.** A debit is not limited by the balance it meets: the
credit of an order was quoted from a balance read before, which other orders may
have used since. `OverdrawnByTwo` says that this is the only way down. Its
invariant (`CreditInv`, at the end of `PastryOrders_proofs`) is that until an
order of hers is debited, a customer's balance is not negative and covers every
row and every quote of hers (`QuotesCovered`), because nothing else lowers it;
so the first order debited is covered (`FirstIsCovered`), and it is debited once
(`DebitedOnceWhenSettled`).

**`GiftOrders`.** `PaymentIsKnown`: whoever will write `paidAt` has seen a
session that is paid, and a paid session stays paid. `StatusIsStamped`: the
status of an order, and the one an administrator is about to write, have their
timestamps behind them; `RowStep` says what one step can do to one row, and the
rest follows from it.

**`CreditLedger`.** Without redelivery an invoice is, at any moment, one of: not
collected, announced by its one event, in the hands of one call, or booked
(`BookedOnce`). So no two calls write its keys, and what `GrantSplits` divides
is written whole. A refund is computed from a row that never changes again
(`KeysMeanTypes`).

Expiry (`ExpiryInv`). What a sweep has read as aged can only be too small when
it writes: accruals age and never unage, redemptions only add to what is spent
(`Redeemed` is a natural number), and no other row of the type the sweep adds is
written before its own, because the row of a day has one key. So a sweep that has
summed holds no more than what has aged less what has expired, until the row of
its day exists (`SweepMeans`), and then its own write is refused. The argument
needs the sweep and its key to be of the same day; without that two sweeps write
two rows from one sum.

The cap (`CapInv`). While the call of an accrual is in progress the balance is
at most the one it read and what other calls have credited since (the ghost
`credited`): redemptions and expiries only take away, and anything else is another
call. So the theorem needs no hypothesis about overlaps; what it says of a call
that met a credit is how far above the cap it ends, and `LedgerCapRace` in
section 3 is such a behaviour.

**Sums.** The code sums the rows of a table; the model sums a function over a
finite set. `SumTheorems` proves what the other proofs need of such a sum: it is
what its definition says, another order of adding makes no difference, it splits
over parts, changes with one term, and is an integer. The library's induction
takes an operator as its parameter, which the provers cannot instantiate; these
lemmas take a set of counterexamples instead, which has a smallest member
(`SmallestSubset`, from the well-foundedness of strict inclusion).

**`PastryCart`.** An order fits the kitchen because `CreateOrder` compares each
of its lines with the limit less a difference that counts as zero when it is
negative, whatever the two sums were. How far customers overbook an item against
each other is not inductive, since a customer's own orders may exceed the limit:
what is kept is that *any* set of orders with at most one of each customer fits,
but for what those orders took unseen (`Shared`). Two ghosts count that: `since`
has, for each checkout under way, the units taken after its first read, by the
orders of others and by payments that come late; an order that is created keeps
its checkout's count in `unseen`, and one that takes its units again after it had
given them up counts them all. `CreateOrder` keeps `Shared` because what the
checkout read of the others, with `since`, covers what they hold by then
(`ReadsCover`): orders that leave the day between its reads, by being freed or by
midnight, make the difference of the two sums too large, never too small, and
whatever comes in is counted. A checkout that met nothing therefore books
against everybody else, and that is all the code does: two customers who race do
both take the last unit (`CartLastUnit`).

**The refinement of `Kitchen`.** The book of the kitchen is the rows of the
orders: who holds how much of what today; a look at it is a checkout. `CreateOrder`
is `Kitchen`'s booking, which compares an order with what *others* hold at that
moment less what was taken since the look; `ReadsCover` carries the two sums, read
earlier, to the step that writes. Orders that are freed, and midnight, give units
back; a late payment takes them again; everything else a request does before it
writes, payments and carts stutter. The theorem has no hypothesis.

**`RefreshTokens` and `Accounts`.** A family is found through the token that
founded it, so the invariant says that founders exist and that a family keeps
its user. One live successor needs that a new family is empty; a closed family
stays closed because a rotation that mints from a revoked token is recorded in
`raced`. Both except the families in `raced`, in which the code does leave two
live tokens, or one after a logout. `OverIsFinal` does not: from the moment no
token of a family is live and no rotation of it is past its test, `Present`
refuses every one of its tokens and nothing else mints in it (`OverStep`). `Accounts` EXTENDS the tokens and calls their operators; each of its
steps is a `TokensNext` step or leaves the tokens alone (`TokensView`), which
gives the refinement and carries `TokensSafe` over. Its own invariant adds
`LinksInv` (who is about to mint a link has invalidated the others) and
`ConfirmsProved` (the secret a confirmation will write is the one its code was
of).

**The refinement of `LoginSessions`.** A session is a family, owned by the user of
the token that founded it, and its current token is the live one
(one, by `OneLiveSuccessor`). `Mint` refreshes the session, with a token
that did not exist; `Revoke`, `RevokeFamily` and `RevokeAllForUser` end one or
all of a user's (`RevokingEnds`); presenting a token and expiry stutter. A
rotation that finds its token revoked at the write moves the session to those of
which nothing is promised but the owner. That is the exception the code needs:
its write tests nothing again.

**`Subscriptions`.** Three parts. `BaseInv`: a price belongs to one plan, a save
knows the amount of the price it holds, and every price on a row or in a save's
hand is one of the product beside it (`RowsFit`, `SavesFit`), saves that failed or
met included. A plan without trouble has one save at a time, whose product and
price are those of the row or are about to be (`Sound`). `troubled` has the plans
of which a save was cut off after it had archived a price, or met another, and
those whose product was removed from Stripe; there a published plan can be left
with an archived price, which is a fault of the code (`SaveRestoresPrice`). The
next price a save makes alone takes the plan out of it, so the exception ends
where the code repairs the row. `MirrorInv`: events and mirror carry changes that
were reported, and no two subscriptions of a user the same one (`Reported`). The
ghosts `changes` and `seen` number the last change reported and the last one
handled: where they are equal the row shows it (`LastIsShown`), whatever was lost
or overtaken before; if nothing was, the latest is under way or was handled last
(`LatestIsKnown`). A pause that outlives the subscription is part of it: the row
then says PAUSED, not CANCELLED. `PortalInv`: the customer of a running
subscription is the one stored on the row, because only one request found or
created it (`OneFinder`, `OneInUse`, `AllStored`).

**`MailJobs`.** Of the runs that handle a user at most one is between finding no
code and creating one, unless the ghost `contended` has the user; a code in a
run's hand is the user's and outlives the run's day.

**`BackOffice_proofs`.** Each module by itself, and then the five together, since
a step of one leaves the tables of the others alone (`ServicesApart`): a decision knows the role that
was tested when it began; an address on the list, or whose link is being
confirmed, has agreed, and agreement ends when the address leaves, unless its link
is being handled (`Agreed`); two saves of
one version collide on the unique index; a list that was read contains the posts
that were promoted unless `touched` has them; the row and the ghost `meant`
agree field by field, because an update leaves out what its request leaves out.
For the fees, position and name order any finite set of zones, so a sorted
listing exists and names each zone once (`ZonesList`); a walk stops at the
first place it may (`FirstIsLeast`), and the two walks together at the zone no
other goes before.

**Assumptions.** `PastryAssumption`, `GiftAssumption`, `LedgerAssumption`,
`TokenAssumption`, `AccountAssumption`, `PlanAssumption`,
`SubscriptionAssumption`, `MailJobsAssumption`, `EnquiryAssumption`,
`NewsletterAssumption`, `PublishingAssumption`, `CatalogueAssumption`,
`BodyAssumption`, `CartAssumption` and `ShippingAssumption` type the constants and keep `None` and the like apart from
values; TLC evaluates them on every run. Those of the ledger, the cart and the
zones also say that the identifiers a sum or a list runs over are finitely many,
as the rows of a table are.

**Only model-checked.** `PaidIsSettled`, `OutcomeLeavesPending` and
`CancellationIsMirrored` are liveness under fairness, which the prover does not
handle. Every other property of a passing run is a theorem.

**Only proved.** `OneLiveSuccessor`, `ClosedStaysClosed` and `OneValidLink`,
`TypeOK` of `Accounts` and `RowBeforeRedirect`, a conjunct of
`IInv`, are no properties of a run by themselves.

## 5. What is not modelled, and why

* E-mail and notification wording, logging, audit rows that nothing reads,
  pagination and reads; the mailer, Klaviyo and the shell, which keep no state;
  the KPIs, which only read.
* Guards and the JWT strategy: checks of a request against its token. Where a
  role decides, it is a guard of the action (`Enquiries`).
* The fields of a profile other than the birthday: single-row updates nothing
  else of the model reads.
* Quantities and prices inside `PastryOrders` (a line is an item with its
  quantity, `Subtotal` any price list) and prices inside `GiftOrders`.
* An administrator who changes `batchLimit`, a price or a promo code during a
  checkout; deleting an item, which removes its cart lines (`Catalogues` has the
  deletion, not the lines).
* `balanceAfter`: written in every ledger row and read only to be reported;
  REDEMPTION rows store zero in it, although `schema.prisma:834` says it "must
  always equal the running sum at write time".
* `system.expiry-cancel`: `schema.prisma:824` describes a forfeit after the grace
  period of a cancelled subscription; no code writes it. `creditExpiresAt`,
  stamped on cancellation (`cravings.service.ts:607`), is the flag `grace` of the
  mirror and read by no one.
* `londonStartOfTodayUtc`'s clock arithmetic: a day ends when it ends.
* Stripe's refusal of charges below its minimum is one way for `CreateSession`
  to be refused (`SessionRefused`).
* Hashing, encryption, signatures and one-time codes: a password, a secret or a
  link fits or does not.
* The shape of a content payload (`blocks.ts`), sanitising, composing the text of
  a code: text without state.

## 6. Plan

Done: the checkout and its refinement of `Settlement`, the cart, gift orders, the
ledger, tokens and accounts, each with its refinement where the table of section
2 has an abstract specification, plans and subscriptions, the mail jobs, the back
office; proofs for all of them.

What could follow:

1. `pastry_payment` joined with `pastry_lifecycle`, once `PastryOrders` keeps the
   ghost `failed` that `GiftOrders` has.
2. The catalogue composed with the cart: a batch limit or an item that changes
   while it is being booked.
3. The invoice of a subscription composed with the ledger: `OnInvoicePaid` and
   `ReceivePaid` are two views of one handler, joined by the user the mirror
   names.
4. An abstract promise for subscriptions, as `Settlement` is for orders.
