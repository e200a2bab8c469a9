----------------------------- MODULE Newsletter -----------------------------
(***************************************************************************)
(* Newsletter subscriptions: double opt-in with signed links.  A request   *)
(* reads the subscriber's row, then writes it by id; a link stays valid    *)
(* until it expires, however often it is used and whatever happened since. *)
(***************************************************************************)
EXTENDS Integers, FiniteSets, Nulls

CONSTANTS
  Emails,    \* normalised addresses: one row each
  Visits,    \* requests that can be in progress
  MaxDay,    \* bound on the days
  ConfirmTTL  \* days a confirm link is valid

ASSUME NewsletterAssumption ==
  /\ MaxDay \in Nat /\ ConfirmTTL \in Nat
  /\ None \notin Emails

VARIABLES
  day,
  subscriber,  \* NewsletterSubscriber.status by address
  visit,       \* what each request has read
  links,       \* confirm links mailed: address and last day
  agreed,      \* ghost: addresses whose confirm link was opened since they left
  overlapped        \* ghost: addresses two requests were handling at a time

newsletterVars == <<day, subscriber, visit, links, agreed, overlapped>>

-----------------------------------------------------------------------------
NoVisit == [op |-> "none", email |-> None, from |-> "none"]

NewsletterTypeOK ==
  /\ day \in 0..MaxDay
  /\ subscriber \in [Emails -> {"none", "PENDING", "CONFIRMED", "UNSUBSCRIBED"}]
  /\ visit \in [Visits ->
       [op: {"subscribe", "confirm"}, email: Emails,
        from: {"none", "PENDING", "CONFIRMED", "UNSUBSCRIBED"}] \cup {NoVisit}]
  /\ links \subseteq [email: Emails, until: Nat]
  /\ agreed \subseteq Emails /\ overlapped \subseteq Emails

NewsletterInit ==
  /\ day = 0
  /\ subscriber = [m \in Emails |-> "none"]
  /\ visit = [q \in Visits |-> NoVisit]
  /\ links = {} /\ agreed = {} /\ overlapped = {}

NextDay ==
  /\ day < MaxDay
  /\ day' = day + 1
  /\ UNCHANGED <<subscriber, visit, links, agreed, overlapped>>

Handling(m) == {q \in Visits : visit[q].email = m}

Visit(q, op, m) ==
  /\ visit[q] = NoVisit
  /\ visit' = [visit EXCEPT ![q] = [op |-> op, email |-> m, from |-> subscriber[m]]]
  /\ overlapped' = IF Handling(m) = {} THEN overlapped ELSE overlapped \cup {m}

\* The honeypot and the bot check come first; a confirmed address ends here.
StartSubscribe(q, m) ==
  /\ subscriber[m] # "CONFIRMED"
  /\ Visit(q, "subscribe", m)
  /\ UNCHANGED <<day, subscriber, links, agreed>>

\* Mutant: coming back needs no second confirmation.
RejoinedAtOnce(from, status) ==
  CASE from = "none" -> "PENDING"
    [] from = "UNSUBSCRIBED" -> "CONFIRMED"
    [] OTHER -> status

\* A row that was not there is created, one that had left is pending again,
\* one that was pending is left alone.
Joined(from, status) ==
  IF from \in {"none", "UNSUBSCRIBED"} THEN "PENDING" ELSE status

\* The unique index refuses a row that was created meanwhile; a mail that
\* fails is logged.
FinishSubscribe(q) ==
  LET w == visit[q] IN
  /\ w.op = "subscribe"
  /\ w.from = "none" => subscriber[w.email] = "none"
  /\ subscriber' = [subscriber EXCEPT ![w.email] = Joined(w.from, @)]
  /\ \/ links' = links \cup {[email |-> w.email, until |-> day + ConfirmTTL]}
     \/ UNCHANGED links
  /\ visit' = [visit EXCEPT ![q] = NoVisit]
  /\ UNCHANGED <<day, agreed, overlapped>>

\* confirm: the link is verified and the row read.
OpenLink(q, k) ==
  /\ k \in links /\ day <= k.until
  /\ subscriber[k.email] # "CONFIRMED"
  /\ Visit(q, "confirm", k.email)
  /\ agreed' = agreed \cup {k.email}
  /\ UNCHANGED <<day, subscriber, links>>

FinishConfirm(q) ==
  LET w == visit[q] IN
  /\ w.op = "confirm"
  /\ subscriber' = [subscriber EXCEPT ![w.email] = "CONFIRMED"]
  /\ visit' = [visit EXCEPT ![q] = NoVisit]
  /\ UNCHANGED <<day, links, agreed, overlapped>>

\* Requests that have verified a link of m and not yet confirmed it.
Confirming(m) == {q \in Handling(m) : visit[q].op = "confirm"}

\* One write; the link comes with a mail to the list.  A link of the address
\* that is being handled counts as opened after it.
Unsubscribe(m) ==
  /\ subscriber[m] \in {"PENDING", "CONFIRMED"}
  /\ subscriber' = [subscriber EXCEPT ![m] = "UNSUBSCRIBED"]
  /\ agreed' = IF Confirming(m) = {} THEN agreed \ {m} ELSE agreed
  /\ overlapped' = IF Handling(m) = {} THEN overlapped ELSE overlapped \cup {m}
  /\ UNCHANGED <<day, visit, links>>

VisitFails(q) ==
  /\ visit[q] # NoVisit
  /\ visit' = [visit EXCEPT ![q] = NoVisit]
  /\ UNCHANGED <<day, subscriber, links, agreed, overlapped>>

-----------------------------------------------------------------------------
NewsletterNext ==
  \/ NextDay
  \/ \E m \in Emails : Unsubscribe(m) \/ \E q \in Visits : StartSubscribe(q, m)
  \/ \E q \in Visits :
       FinishSubscribe(q) \/ FinishConfirm(q) \/ VisitFails(q)
         \/ \E k \in links : OpenLink(q, k)

NewsletterSpec == NewsletterInit /\ [][NewsletterNext]_newsletterVars

-----------------------------------------------------------------------------
(* Properties *)

\* An address is on the list only if its link was opened since it last left,
\* or was being handled as it left, whatever requests overlapped.  Who is on
\* the list leaves it only by unsubscribing, unless requests for the address
\* overlapped: a subscribe request that read the row before it was confirmed
\* takes it off again.
OptedIn ==
  [][\A m \in Emails :
       /\ subscriber'[m] = "CONFIRMED" => m \in agreed'
       /\ subscriber[m] = "CONFIRMED" /\ m \notin overlapped =>
            subscriber'[m] \in {"CONFIRMED", "UNSUBSCRIBED"}
    ]_newsletterVars

\* "If they're already CONFIRMED, do nothing": a subscribe request never
\* takes a confirmed address off the list.
SubscribeKeepsConfirmed ==
  [][\A q \in Visits :
       FinishSubscribe(q) /\ subscriber[visit[q].email] = "CONFIRMED" =>
         subscriber'[visit[q].email] = "CONFIRMED"]_newsletterVars

\* Who has left does not come back by a link mailed before.
LeftStaysLeft ==
  [][\A m \in Emails, q \in Visits :
       FinishConfirm(q) /\ visit[q].email = m => subscriber[m] # "UNSUBSCRIBED"]_newsletterVars
=============================================================================
