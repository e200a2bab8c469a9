-------------------------- MODULE BackOffice_proofs --------------------------
(***************************************************************************)
(* What is proved of the services beside the orders: enquiries, the        *)
(* newsletter, the published content, the blog and the operators' tables,  *)
(* each for any number of rows and of requests in progress, and the mail   *)
(* jobs, for any number of users, codes, overlapping runs and days.        *)
(***************************************************************************)
EXTENDS BackOffice, MailJobs, SumTheorems

-----------------------------------------------------------------------------
(* Enquiries *)

\* Who may close is known of every request that will, and while one request
\* at most decides on an enquiry it has read the status that is stored.
DecisionsKnown ==
  /\ \A d \in Decisions :
       /\ decision[d].op \in {"reply", "replied"} => decision[d].to = "CONTACTED"
       /\ decision[d].op = "update" /\ decision[d].to = "CLOSED" =>
            decision[d].as \in {"OWNER", "EDITOR"}
       /\ decision[d] # NoDecision => enquiry[decision[d].id] # NoEnquiry
  /\ \A e \in Enquiries \ raced :
       /\ enquiry[e].status \in {"CONTACTED", "CLOSED"} => enquiry[e].handledBy # None
       /\ \A d \in Decisions : decision[d].id = e =>
            /\ decision[d].from = enquiry[e].status
            /\ \A g \in Decisions : decision[g].id = e => g = d

EnquiriesInv == EnquiriesTypeOK /\ DecisionsKnown

\* The fields of a row and of a request.
LEMMA EnquiryFields ==
  ASSUME EnquiriesTypeOK
  PROVE  /\ \A e \in Enquiries :
              /\ enquiry[e].status \in Statuses \cup {"none"}
              /\ enquiry[e].handledBy \in Staff \cup {None}
              /\ enquiry[e] = NoEnquiry <=> enquiry[e].status = "none"
         /\ \A d \in Decisions :
              \/ /\ decision[d] = NoDecision
                 /\ decision[d].op = "none" /\ decision[d].id \notin Enquiries
              \/ /\ decision[d] # NoDecision
                 /\ decision[d].op \in {"update", "reply", "replied"}
                 /\ decision[d].id \in Enquiries /\ decision[d].by \in Staff
                 /\ decision[d].as \in {"OWNER", "EDITOR", "SUPPORT"}
                 /\ decision[d].from \in Statuses /\ decision[d].to \in Statuses
BY EnquiryAssumption DEF EnquiriesTypeOK, NoEnquiry, NoDecision, Statuses

\* The new row of an enquiry and the new request keep the types.
LEMMA StampedRow ==
  ASSUME EnquiriesTypeOK, NEW e \in Enquiries, NEW d \in Decisions,
         decision[d] # NoDecision, enquiry[e] # NoEnquiry
  PROVE  LET r == Stamped(enquiry[e], decision[d]) IN
         /\ r \in [status: Statuses, handledBy: Staff \cup {None}]
         /\ r.status = decision[d].to
         /\ r.handledBy = IF decision[d].to # decision[d].from /\ decision[d].to # "NEW"
                          THEN decision[d].by ELSE enquiry[e].handledBy
BY EnquiryFields DEF Stamped

LEMMA EnquiriesInitial == EnquiriesInit => EnquiriesInv
BY EnquiryAssumption DEF EnquiriesInit, EnquiriesInv, EnquiriesTypeOK, DecisionsKnown, NoEnquiry,
   NoDecision, Statuses

\* A request that begins.
LEMMA DecideKeepsInv ==
  ASSUME EnquiriesInv, NEW d \in Decisions, NEW op \in {"update", "reply"},
         NEW u \in Staff, NEW e \in Enquiries, NEW to \in Statuses, Decide(d, op, u, e, to),
         op = "reply" => to = "CONTACTED",
         op = "update" /\ to = "CLOSED" => role[u] \in {"OWNER", "EDITOR"}
  PROVE  EnquiriesInv'
<1> USE DEF EnquiriesInv
<1> DEFINE w == [op |-> op, id |-> e, by |-> u, as |-> role[u], from |-> enquiry[e].status,
                 to |-> to]
<1>1. /\ decision[d] = NoDecision /\ IsStaff(u) /\ enquiry[e] # NoEnquiry
      /\ decision' = [decision EXCEPT ![d] = w]
      /\ raced' = IF Deciding(e) = {} THEN raced ELSE raced \cup {e}
      /\ UNCHANGED <<role, enquiry, fanout, notification, replied>>
  BY DEF Decide
<1>2. enquiry[e].status \in Statuses
  BY <1>1, EnquiryFields
<1>3. EnquiriesTypeOK'
  BY <1>1, <1>2 DEF EnquiriesTypeOK, IsStaff
<1>4. decision'[d] = w /\ \A g \in Decisions \ {d} : decision'[g] = decision[g]
  BY <1>1 DEF EnquiriesTypeOK
<1>5. e \notin raced' => \A g \in Decisions : decision[g].id # e
  BY <1>1 DEF Deciding
<1>6. DecisionsKnown'
  BY <1>1, <1>4, <1>5 DEF DecisionsKnown
<1> QED  BY <1>3, <1>6

\* A request that ends, having written its enquiry or not.
LEMMA DecidedKeepsInv ==
  ASSUME EnquiriesInv, NEW d \in Decisions, decision[d] # NoDecision,
         decision' = [decision EXCEPT ![d] = NoDecision],
         \/ enquiry' = enquiry
         \/ enquiry' = [enquiry EXCEPT ![decision[d].id] = Stamped(@, decision[d])],
         UNCHANGED <<role, fanout, notification, replied, raced>>
  PROVE  EnquiriesInv'
<1> USE DEF EnquiriesInv
<1> DEFINE e == decision[d].id
<1>1. e \in Enquiries
  BY EnquiryFields
<1>2. decision'[d] = NoDecision /\ \A g \in Decisions \ {d} : decision'[g] = decision[g]
  BY DEF EnquiriesTypeOK
<1>3. NoDecision.op = "none" /\ NoDecision.id \notin Enquiries
  BY EnquiryAssumption DEF NoDecision
<1>4. CASE enquiry' = enquiry
  BY <1>2, <1>3, <1>4 DEF EnquiriesTypeOK, DecisionsKnown
<1>5. CASE enquiry' = [enquiry EXCEPT ![e] = Stamped(@, decision[d])]
  <2> DEFINE r == Stamped(enquiry[e], decision[d])
  <2>1. /\ enquiry[e] # NoEnquiry
        /\ r \in [status: Statuses, handledBy: Staff \cup {None}]
        /\ r.status = decision[d].to
        /\ r.handledBy = IF decision[d].to # decision[d].from /\ decision[d].to # "NEW"
                         THEN decision[d].by ELSE enquiry[e].handledBy
    BY <1>1, StampedRow DEF DecisionsKnown
  <2> HIDE DEF r
  <2>2. enquiry'[e] = r /\ \A f \in Enquiries \ {e} : enquiry'[f] = enquiry[f]
    BY <1>1, <1>5 DEF EnquiriesTypeOK, r
  <2>3. EnquiriesTypeOK'
    BY <1>1, <1>5, <2>1 DEF EnquiriesTypeOK, r
  <2>4. enquiry'[e] # NoEnquiry
    BY <2>1, <2>2 DEF NoEnquiry, Statuses
  <2>5. e \notin raced =>
          /\ r.status \in {"CONTACTED", "CLOSED"} => r.handledBy # None
          /\ \A g \in Decisions \ {d} : decision[g].id # e
    BY <1>1, <2>1, EnquiryFields, EnquiryAssumption DEF DecisionsKnown
  <2>6. \A g \in Decisions : decision'[g] # NoDecision => enquiry'[decision'[g].id] # NoEnquiry
    BY <1>2, <2>2, <2>4, EnquiryFields DEF DecisionsKnown
  <2>7. DecisionsKnown'
    BY <1>2, <1>3, <2>1, <2>2, <2>5, <2>6 DEF DecisionsKnown
  <2> QED  BY <2>3, <2>7
<1> QED  BY <1>4, <1>5

LEMMA EnquiriesStep == EnquiriesInv /\ [EnquiriesNext]_enquiryVars => EnquiriesInv'
<1> SUFFICES ASSUME EnquiriesInv, [EnquiriesNext]_enquiryVars PROVE EnquiriesInv'
  OBVIOUS
<1> USE DEF EnquiriesInv
<1>1. ASSUME NEW e \in Enquiries, NEW honeypot \in BOOLEAN, CreateEnquiry(e, honeypot)
      PROVE  EnquiriesInv'
  <2> DEFINE row0 == [status |-> IF honeypot THEN "SPAM" ELSE "NEW", handledBy |-> None]
  <2>1. /\ enquiry[e] = NoEnquiry /\ enquiry' = [enquiry EXCEPT ![e] = row0]
        /\ fanout' \subseteq fanout \cup {e}
        /\ UNCHANGED <<role, decision, notification, replied, raced>>
    BY <1>1 DEF CreateEnquiry
  <2>2. EnquiriesTypeOK'
    BY <2>1 DEF EnquiriesTypeOK, Statuses
  <2>3. \A d \in Decisions : decision[d].id # e
    BY <2>1, EnquiryFields DEF DecisionsKnown
  <2>4. /\ enquiry'[e] # NoEnquiry /\ enquiry'[e].status \in {"NEW", "SPAM"}
        /\ \A f \in Enquiries \ {e} : enquiry'[f] = enquiry[f]
    BY <2>1 DEF EnquiriesTypeOK, NoEnquiry
  <2>5. DecisionsKnown'
    BY <2>1, <2>3, <2>4, EnquiryFields DEF DecisionsKnown
  <2> QED  BY <2>2, <2>5
<1>2. ASSUME NEW e \in Enquiries, notifyStaff(e) PROVE EnquiriesInv'
  <2>1. notification' \subseteq [user: Staff, of: Enquiries, read: BOOLEAN]
    <3>1. \A u \in Staff : [user |-> u, of |-> e, read |-> FALSE]
                            \in [user: Staff, of: Enquiries, read: BOOLEAN]
      OBVIOUS
    <3>2. notification \subseteq [user: Staff, of: Enquiries, read: BOOLEAN]
      BY DEF EnquiriesTypeOK
    <3>3. \A n \in notification' \ notification :
            \E u \in Staff : n = [user |-> u, of |-> e, read |-> FALSE]
      BY <1>2, Zenon DEF notifyStaff
    <3> QED  BY <3>1, <3>2, <3>3
  <2>2. EnquiriesTypeOK'
    BY <1>2, <2>1 DEF notifyStaff, EnquiriesTypeOK
  <2> QED  BY <1>2, <2>2 DEF notifyStaff, DecisionsKnown
<1>3. ASSUME NEW u \in Staff, NEW r \in {"EDITOR", "SUPPORT", "CUSTOMER"}, SetRole(u, r)
      PROVE  EnquiriesInv'
  <2>1. EnquiriesTypeOK'
    BY <1>3 DEF SetRole, EnquiriesTypeOK
  <2> QED  BY <1>3, <2>1 DEF SetRole, DecisionsKnown
<1>4. ASSUME NEW u \in Staff, NEW n \in notification, markRead(u, n) PROVE EnquiriesInv'
  <2>1. EnquiriesTypeOK'
    BY <1>4 DEF markRead, EnquiriesTypeOK
  <2> QED  BY <1>4, <2>1 DEF markRead, DecisionsKnown
<1>5. ASSUME NEW u \in Staff, markAllRead(u) PROVE EnquiriesInv'
  <2>1. EnquiriesTypeOK'
    BY <1>5 DEF markAllRead, EnquiriesTypeOK
  <2> QED  BY <1>5, <2>1 DEF markAllRead, DecisionsKnown
<1>6. ASSUME NEW d \in Decisions, NEW u \in Staff, NEW e \in Enquiries, StartReply(d, u, e)
      PROVE  EnquiriesInv'
  BY <1>6, DecideKeepsInv DEF StartReply, Statuses
<1>7. ASSUME NEW d \in Decisions, NEW u \in Staff, NEW e \in Enquiries, NEW to \in Statuses,
             StartUpdate(d, u, e, to)
      PROVE  EnquiriesInv'
  BY <1>7, DecideKeepsInv DEF StartUpdate, MayDecide
<1>8. ASSUME NEW d \in Decisions, UpdateEnquiry(d) \/ FinishReply(d) \/ DecisionFails(d)
      PROVE  EnquiriesInv'
  BY <1>8, DecidedKeepsInv, EnquiryFields DEF UpdateEnquiry, FinishReply, DecisionFails
<1>9. ASSUME NEW d \in Decisions, MailReply(d) PROVE EnquiriesInv'
  <2>1. /\ decision[d].op = "reply" /\ decision[d] # NoDecision
        /\ decision' = [decision EXCEPT ![d].op = "replied"]
        /\ replied' = replied \cup {decision[d].id}
        /\ UNCHANGED <<role, enquiry, fanout, notification, raced>>
    BY <1>9, EnquiryFields DEF MailReply
  <2>2. EnquiriesTypeOK'
    BY <2>1, EnquiryFields DEF EnquiriesTypeOK
  <2>3. /\ decision'[d].op = "replied" /\ decision'[d].to = decision[d].to
        /\ decision'[d].id = decision[d].id /\ decision'[d].from = decision[d].from
        /\ \A g \in Decisions \ {d} : decision'[g] = decision[g]
    BY <2>1 DEF EnquiriesTypeOK
  <2>4. DecisionsKnown'
    BY <2>1, <2>3 DEF DecisionsKnown
  <2> QED  BY <2>2, <2>4
<1>10. CASE UNCHANGED enquiryVars
  BY <1>10 DEF enquiryVars, EnquiriesTypeOK, DecisionsKnown
<1> QED  BY <1>1, <1>2, <1>3, <1>4, <1>5, <1>6, <1>7, <1>8, <1>9, <1>10 DEF EnquiriesNext

(***************************************************************************)
(* ClosedByEditor: whatever staff come and go and however many requests    *)
(* decide at a time, an enquiry is closed by an owner or an editor, and    *)
(* one that was contacted or closed names who did it.                      *)
(***************************************************************************)
THEOREM ClosingIsForEditors == EnquiriesSpec => ClosedByEditor
<1> DEFINE Closing ==
      \A e \in Enquiries \ raced :
        /\ enquiry'[e].status \in {"CONTACTED", "CLOSED"} => enquiry'[e].handledBy # None
        /\ enquiry'[e].status = "CLOSED" /\ enquiry[e].status # "CLOSED" =>
             \E d \in Decisions :
               /\ decision[d].by = enquiry'[e].handledBy
               /\ decision[d].as \in {"OWNER", "EDITOR"}
<1>1. ASSUME EnquiriesInv, EnquiriesInv', EnquiriesNext PROVE Closing
  <2> USE DEF EnquiriesInv
  <2> SUFFICES ASSUME NEW e \in Enquiries \ raced
               PROVE  /\ enquiry'[e].status \in {"CONTACTED", "CLOSED"} => enquiry'[e].handledBy # None
                      /\ enquiry'[e].status = "CLOSED" /\ enquiry[e].status # "CLOSED" =>
                           \E d \in Decisions :
                             /\ decision[d].by = enquiry'[e].handledBy
                             /\ decision[d].as \in {"OWNER", "EDITOR"}
    OBVIOUS
  <2>1. \/ enquiry'[e] = enquiry[e]
        \/ enquiry'[e].status \in {"NEW", "SPAM"} /\ raced' = raced
        \/ \E d \in Decisions :
             /\ UpdateEnquiry(d) \/ FinishReply(d)
             /\ decision[d].id = e
             /\ enquiry' = [enquiry EXCEPT ![e] = Stamped(@, decision[d])]
    <3>1. CASE \E f \in Enquiries, honeypot \in BOOLEAN : CreateEnquiry(f, honeypot)
      BY <1>1, <3>1 DEF CreateEnquiry, EnquiriesTypeOK
    <3>2. CASE \E d \in Decisions : UpdateEnquiry(d) \/ FinishReply(d)
      BY <1>1, <3>2, EnquiryFields DEF UpdateEnquiry, FinishReply, EnquiriesTypeOK
    <3>3. CASE enquiry' = enquiry
      BY <3>3
    <3> QED
      BY <1>1, <3>1, <3>2, <3>3 DEF EnquiriesNext, notifyStaff, SetRole, markRead, markAllRead,
         StartReply, StartUpdate, Decide, MailReply, DecisionFails
  <2>2. CASE enquiry'[e] = enquiry[e]
    BY <1>1, <2>2 DEF DecisionsKnown
  <2>3. ASSUME NEW d \in Decisions, UpdateEnquiry(d) \/ FinishReply(d), decision[d].id = e,
               enquiry' = [enquiry EXCEPT ![e] = Stamped(@, decision[d])]
        PROVE  /\ enquiry'[e].status \in {"CONTACTED", "CLOSED"} => enquiry'[e].handledBy # None
               /\ enquiry'[e].status = "CLOSED" /\ enquiry[e].status # "CLOSED" =>
                    /\ decision[d].by = enquiry'[e].handledBy
                    /\ decision[d].as \in {"OWNER", "EDITOR"}
    <3>1. /\ decision[d] # NoDecision /\ enquiry[e] # NoEnquiry /\ raced' = raced
          /\ enquiry'[e] = Stamped(enquiry[e], decision[d])
      BY <1>1, <2>3, EnquiryFields DEF UpdateEnquiry, FinishReply, DecisionsKnown, EnquiriesTypeOK
    <3>2. /\ enquiry'[e].status = decision[d].to
          /\ decision[d].from = enquiry[e].status
          /\ enquiry'[e].handledBy = IF decision[d].to # decision[d].from /\ decision[d].to # "NEW"
                                     THEN decision[d].by ELSE enquiry[e].handledBy
      BY <1>1, <2>3, <3>1, StampedRow DEF DecisionsKnown
    <3>3. decision[d].to = "CLOSED" => decision[d].as \in {"OWNER", "EDITOR"}
      BY <1>1, <2>3, EnquiryFields DEF UpdateEnquiry, FinishReply, DecisionsKnown
    <3> QED  BY <1>1, <3>1, <3>2, <3>3 DEF DecisionsKnown
  <2> QED  BY <2>1, <2>2, <2>3
<1>2. EnquiriesInv /\ EnquiriesInv' /\ [EnquiriesNext]_enquiryVars => [Closing]_enquiryVars
  BY <1>1
<1>3. EnquiriesInv /\ [EnquiriesNext]_enquiryVars => EnquiriesInv'
  BY EnquiriesStep
<1> QED  BY <1>2, <1>3, EnquiriesInitial, PTL DEF EnquiriesSpec, ClosedByEditor

-----------------------------------------------------------------------------
(* Newsletter *)

\* An address on the list, or whose link is being confirmed, has agreed.
Agreed ==
  \A m \in Emails : subscriber[m] = "CONFIRMED" \/ Confirming(m) # {} => m \in agreed

\* A request that handles an address alone has read its status.
VisitsCurrent ==
  \A m \in Emails \ overlapped : \A q \in Visits : visit[q].email = m =>
    /\ visit[q].from = subscriber[m] /\ visit[q].from # "CONFIRMED"
    /\ \A p \in Visits : visit[p].email = m => p = q

NewsletterInv == NewsletterTypeOK /\ Agreed /\ VisitsCurrent

LEMMA VisitFields ==
  ASSUME NewsletterTypeOK
  PROVE  \A q \in Visits :
           \/ /\ visit[q] = NoVisit /\ visit[q].op = "none" /\ visit[q].email \notin Emails
           \/ /\ visit[q] # NoVisit /\ visit[q].op \in {"subscribe", "confirm"}
              /\ visit[q].email \in Emails
BY NewsletterAssumption DEF NewsletterTypeOK, NoVisit

LEMMA NewsletterInitial == NewsletterInit => NewsletterInv
BY NewsletterAssumption
   DEF NewsletterInit, NewsletterInv, NewsletterTypeOK, Agreed, VisitsCurrent, NoVisit,
       Confirming, Handling

\* A request that begins.
LEMMA VisitKeepsInv ==
  ASSUME NewsletterInv, NEW q \in Visits, NEW op \in {"subscribe", "confirm"}, NEW m \in Emails,
         Visit(q, op, m), subscriber[m] # "CONFIRMED",
         agreed' = IF op = "confirm" THEN agreed \cup {m} ELSE agreed,
         UNCHANGED <<day, subscriber, links>>
  PROVE  NewsletterInv'
<1> USE DEF NewsletterInv
<1>1. /\ visit[q] = NoVisit
      /\ visit' = [visit EXCEPT ![q] = [op |-> op, email |-> m, from |-> subscriber[m]]]
      /\ overlapped' = IF Handling(m) = {} THEN overlapped ELSE overlapped \cup {m}
  BY DEF Visit
<1>2. subscriber[m] \in {"none", "PENDING", "UNSUBSCRIBED"}
  BY DEF NewsletterTypeOK
<1>3. NewsletterTypeOK'
  BY <1>1, <1>2 DEF NewsletterTypeOK
<1>4. /\ visit'[q] = [op |-> op, email |-> m, from |-> subscriber[m]]
      /\ \A p \in Visits \ {q} : visit'[p] = visit[p]
  BY <1>1 DEF NewsletterTypeOK
<1>5. m \notin overlapped' => \A p \in Visits : visit[p].email # m
  BY <1>1 DEF Handling
<1>6. VisitsCurrent'
  BY <1>1, <1>2, <1>4, <1>5 DEF VisitsCurrent
<1>7. Agreed'
  BY <1>1, <1>4 DEF Agreed, Confirming, Handling
<1> QED  BY <1>3, <1>6, <1>7

LEMMA NewsletterStep == NewsletterInv /\ [NewsletterNext]_newsletterVars => NewsletterInv'
<1> SUFFICES ASSUME NewsletterInv, [NewsletterNext]_newsletterVars PROVE NewsletterInv'
  OBVIOUS
<1> USE DEF NewsletterInv
<1>1. CASE NextDay
  <2>1. NewsletterTypeOK'
    BY <1>1, NewsletterAssumption DEF NextDay, NewsletterTypeOK
  <2> QED  BY <1>1, <2>1 DEF NextDay, VisitsCurrent, Agreed, Confirming, Handling
<1>2. ASSUME NEW m \in Emails, Unsubscribe(m) PROVE NewsletterInv'
  <2>1. NewsletterTypeOK'
    BY <1>2 DEF Unsubscribe, NewsletterTypeOK
  <2>2. m \notin overlapped' => \A p \in Visits : visit[p].email # m
    BY <1>2 DEF Unsubscribe, Handling
  <2>3. subscriber'[m] = "UNSUBSCRIBED" /\ \A n \in Emails \ {m} : subscriber'[n] = subscriber[n]
    BY <1>2 DEF Unsubscribe, NewsletterTypeOK
  <2>4. VisitsCurrent'
    BY <1>2, <2>2, <2>3 DEF Unsubscribe, VisitsCurrent
  <2>5. Agreed'
    BY <1>2, <2>3 DEF Unsubscribe, Agreed, Confirming, Handling
  <2> QED  BY <2>1, <2>4, <2>5
<1>3. ASSUME NEW m \in Emails, NEW q \in Visits, StartSubscribe(q, m) PROVE NewsletterInv'
  BY <1>3, VisitKeepsInv DEF StartSubscribe
<1>4. ASSUME NEW q \in Visits, NEW k \in links, OpenLink(q, k) PROVE NewsletterInv'
  BY <1>4, VisitKeepsInv DEF OpenLink, NewsletterTypeOK
<1>5. ASSUME NEW q \in Visits, FinishSubscribe(q) \/ FinishConfirm(q) \/ VisitFails(q)
      PROVE  NewsletterInv'
  <2> DEFINE m == visit[q].email
  <2>1. m \in Emails /\ visit[q] # NoVisit
    BY <1>5, VisitFields DEF FinishSubscribe, FinishConfirm, VisitFails
  <2>2. /\ visit' = [visit EXCEPT ![q] = NoVisit]
        /\ agreed' = agreed /\ overlapped' = overlapped /\ day' = day
    BY <1>5 DEF FinishSubscribe, FinishConfirm, VisitFails
  <2>3. visit'[q] = NoVisit /\ \A p \in Visits \ {q} : visit'[p] = visit[p]
    BY <2>2 DEF NewsletterTypeOK
  <2>4. /\ \A n \in Emails \ {m} : subscriber'[n] = subscriber[n]
        /\ subscriber'[m] = "CONFIRMED" => subscriber[m] = "CONFIRMED" \/ visit[q].op = "confirm"
        /\ subscriber' \in [Emails -> {"none", "PENDING", "CONFIRMED", "UNSUBSCRIBED"}]
    BY <1>5, <2>1, VisitFields
       DEF FinishSubscribe, FinishConfirm, VisitFails, Joined, NewsletterTypeOK
  <2>5. links' \subseteq [email: Emails, until: Nat]
    BY <1>5, <2>1, NewsletterAssumption
       DEF FinishSubscribe, FinishConfirm, VisitFails, NewsletterTypeOK
  <2>6. NewsletterTypeOK'
    BY <2>2, <2>4, <2>5 DEF NewsletterTypeOK
  <2>7. NoVisit.email \notin Emails
    BY NewsletterAssumption DEF NoVisit
  <2>8. VisitsCurrent'
    BY <2>1, <2>2, <2>3, <2>4, <2>7 DEF VisitsCurrent
  <2>9. Agreed'
    BY <2>1, <2>2, <2>3, <2>4, <2>7 DEF Agreed, Confirming, Handling
  <2> QED  BY <2>6, <2>8, <2>9
<1>6. CASE UNCHANGED newsletterVars
  BY <1>6 DEF newsletterVars, NewsletterTypeOK, Agreed, VisitsCurrent, Confirming, Handling
<1> QED  BY <1>1, <1>2, <1>3, <1>4, <1>5, <1>6 DEF NewsletterNext

(***************************************************************************)
(* OptedIn: in any order of requests, links and days, however requests     *)
(* overlap, an address is on the list only if its link was opened since it *)
(* last left, or was being handled as it left; and an address that was     *)
(* handled by one request at a time leaves the list only by unsubscribing. *)
(***************************************************************************)
THEOREM ListedByConsent == NewsletterSpec => OptedIn
<1> DEFINE Consent ==
      \A m \in Emails :
        /\ subscriber'[m] = "CONFIRMED" => m \in agreed'
        /\ subscriber[m] = "CONFIRMED" /\ m \notin overlapped =>
             subscriber'[m] \in {"CONFIRMED", "UNSUBSCRIBED"}
<1>1. ASSUME NewsletterInv, NewsletterInv', NewsletterNext PROVE Consent
  <2> USE DEF NewsletterInv
  <2> SUFFICES ASSUME NEW m \in Emails, subscriber[m] = "CONFIRMED", m \notin overlapped
               PROVE  subscriber'[m] \in {"CONFIRMED", "UNSUBSCRIBED"}
    BY <1>1 DEF Agreed
  <2>1. CASE subscriber' = subscriber
    BY <2>1
  <2>2. ASSUME NEW n \in Emails, Unsubscribe(n)
        PROVE  subscriber'[m] \in {"CONFIRMED", "UNSUBSCRIBED"}
    BY <1>1, <2>2 DEF Unsubscribe, NewsletterTypeOK
  <2>3. ASSUME NEW q \in Visits, FinishSubscribe(q) \/ FinishConfirm(q)
        PROVE  subscriber'[m] \in {"CONFIRMED", "UNSUBSCRIBED"}
    <3>1. visit[q].email # m
      BY <1>1 DEF VisitsCurrent
    <3> QED
      BY <1>1, <2>3, <3>1, VisitFields DEF FinishSubscribe, FinishConfirm, NewsletterTypeOK
  <2> QED
    BY <1>1, <2>1, <2>2, <2>3
       DEF NewsletterNext, NextDay, StartSubscribe, VisitFails, OpenLink, Visit
<1>2. NewsletterInv /\ NewsletterInv' /\ [NewsletterNext]_newsletterVars => [Consent]_newsletterVars
  BY <1>1
<1>3. NewsletterInv /\ [NewsletterNext]_newsletterVars => NewsletterInv'
  BY NewsletterStep
<1> QED  BY <1>2, <1>3, NewsletterInitial, PTL DEF NewsletterSpec, OptedIn

-----------------------------------------------------------------------------
(* Content *)

\* A set of versions that is not empty has a greatest one.
LEMMA GreatestVersion ==
  ASSUME NEW vs \in SUBSET Versions, vs # {}
  PROVE  \E v \in vs : \A w \in vs : w <= v
<1> DEFINE above(v) == {w \in vs : w > v}
           T == {above(v) : v \in vs}
<1>1. IsFiniteSet(Versions)
  BY FS_Interval, PublishingAssumption DEF Versions
<1>2. IsFiniteSet(vs)
  BY <1>1, FS_Subset
<1>3. FiniteSubsetsOf(vs) = SUBSET vs
  BY <1>2, FS_FiniteSubsetsOfFinite
<1>4. IsWellFoundedOn(StrictSubsetOrdering(vs), SUBSET vs)
  BY <1>3, FS_StrictSubsetOrderingWellFounded
<1>5. T \subseteq SUBSET vs /\ T # {}
  OBVIOUS
<1>6. PICK x \in T : \A y \in T : <<y, x>> \notin StrictSubsetOrdering(vs)
  <2> HIDE DEF T
  <2> QED  BY <1>4, <1>5, WFMin
<1>7. PICK v \in vs : x = above(v)
  BY <1>6
<1>8. ASSUME NEW w \in vs, ~ w <= v PROVE FALSE
  <2>1. v \in Int /\ w \in Int /\ \A u \in vs : u \in Int
    BY DEF Versions
  <2>2. \A u \in vs : u > w => u > v
    BY <1>8, <2>1
  <2>2a. above(w) \subseteq above(v)
    BY <2>2
  <2>3. w \in above(v) /\ w \notin above(w)
    BY <1>8, <2>1
  <2>4. <<above(w), above(v)>> \in StrictSubsetOrdering(vs)
    BY <2>2a, <2>3 DEF StrictSubsetOrdering
  <2> QED  BY <1>6, <1>7, <2>4
<1> QED  BY <1>8

\* Highest is that version, and 0 for none.
LEMMA HighestVersion ==
  ASSUME NEW vs \in SUBSET Versions
  PROVE  /\ Highest(vs) \in 0..MaxVersion
         /\ vs # {} => Highest(vs) \in vs
         /\ vs = {} => Highest(vs) = 0
         /\ \A w \in vs : w <= Highest(vs)
<1>1. CASE vs = {}
  BY <1>1, PublishingAssumption DEF Highest
<1>2. CASE vs # {}
  <2>1. \E v \in vs : \A w \in vs : w <= v
    BY <1>2, GreatestVersion
  <2>2. Highest(vs) = CHOOSE v \in vs : \A w \in vs : w <= v
    BY <1>2 DEF Highest
  <2>3. Highest(vs) \in vs /\ \A w \in vs : w <= Highest(vs)
    BY <2>1, <2>2
  <2>4. Highest(vs) \in Versions
    BY <2>3
  <2>5. Highest(vs) \in 0..MaxVersion
    BY <2>4, PublishingAssumption DEF Versions
  <2> QED  BY <1>2, <2>3, <2>5
<1> QED  BY <1>1, <1>2

\* The versions of the block have no gap, and a save that is under way will
\* write one of them, which then collides, or the next.
VersionsHaveNoGap ==
  /\ \A v, w \in Versions : w <= v /\ block[v] # NoBlock => block[w] # NoBlock
  /\ \A e \in Editors, w \in Versions :
       editing[e] # NoEdit /\ w < editing[e].version => block[w] # NoBlock

ContentInv == ContentTypeOK /\ VersionsHaveNoGap

LEMMA ContentFields ==
  ASSUME ContentTypeOK
  PROVE  /\ \A v \in Versions :
              /\ block[v].published \in BOOLEAN
              /\ block[v] # NoBlock => block[v].payload \in Payloads
              /\ block[v].published => block[v] # NoBlock
         /\ \A e \in Editors : editing[e] # NoEdit =>
              /\ editing[e].op \in {"draft", "rollback"} /\ editing[e].payload \in Payloads
              /\ editing[e].version \in 1..(MaxVersion + 1)
<1>1. ASSUME NEW v \in Versions
      PROVE  /\ block[v].published \in BOOLEAN
             /\ block[v] # NoBlock => block[v].payload \in Payloads
             /\ block[v].published => block[v] # NoBlock
  <2>1. block[v] \in [payload: Payloads, published: BOOLEAN] \/ block[v] = NoBlock
    BY DEF ContentTypeOK
  <2>2. NoBlock.published = FALSE
    BY DEF NoBlock
  <2>3. CASE block[v] = NoBlock
    BY <2>2, <2>3
  <2>4. CASE block[v] \in [payload: Payloads, published: BOOLEAN] /\ block[v] # NoBlock
    BY <2>4
  <2> QED  BY <2>1, <2>3, <2>4
<1>2. \A e \in Editors : editing[e] # NoEdit =>
        editing[e] \in [op: {"draft", "rollback"}, payload: Payloads,
                       version: 1..(MaxVersion + 1)]
  BY DEF ContentTypeOK
<1> QED  BY <1>1, <1>2

LEMMA ContentInitial == PublishingInit => ContentInv
BY DEF PublishingInit, ContentInv, ContentTypeOK, VersionsHaveNoGap

\* A save or a rollback that has read the latest version.
LEMMA EditingKeepsInv ==
  ASSUME ContentInv, NEW e \in Editors, NEW op \in {"draft", "rollback"},
         NEW payload \in Payloads, UNCHANGED block,
         editing' = [editing EXCEPT ![e] = [op |-> op, payload |-> payload,
                                            version |-> adminLatest + 1]]
  PROVE  ContentInv'
<1> USE DEF ContentInv
<1> DEFINE written == {v \in Versions : block[v] # NoBlock}
<1>1. /\ adminLatest \in 0..MaxVersion
      /\ written # {} => adminLatest \in written
      /\ \A v \in written : v <= adminLatest
      /\ written = {} => adminLatest = 0
  BY HighestVersion DEF adminLatest
<1>2. adminLatest + 1 \in 1..(MaxVersion + 1)
  BY <1>1, PublishingAssumption
<1>3. \A w \in Versions : w < adminLatest + 1 => block[w] # NoBlock
  <2> SUFFICES ASSUME NEW w \in Versions, w < adminLatest + 1 PROVE block[w] # NoBlock
    OBVIOUS
  <2>1. w \in Int /\ w >= 1 /\ w <= adminLatest /\ adminLatest # 0
    BY <1>1, PublishingAssumption DEF Versions
  <2>2. adminLatest \in Versions /\ block[adminLatest] # NoBlock
    BY <1>1, <2>1
  <2> QED  BY <2>1, <2>2 DEF VersionsHaveNoGap
<1>4. ContentTypeOK'
  BY <1>2 DEF ContentTypeOK
<1>5. /\ editing'[e].version = adminLatest + 1
      /\ \A g \in Editors \ {e} : editing'[g] = editing[g]
  BY DEF ContentTypeOK
<1>6. VersionsHaveNoGap'
  BY <1>3, <1>5 DEF VersionsHaveNoGap
<1> QED  BY <1>4, <1>6

\* The version that is created was not there, and is above all that were.
LEMMA CreatedVersion ==
  ASSUME ContentInv, NEW e \in Editors, CreateVersion(e)
  PROVE  LET v == editing[e].version IN
         /\ v \in Versions /\ block[v] = NoBlock /\ editing[e].payload \in Payloads
         /\ block'[v] = [payload |-> editing[e].payload,
                         published |-> editing[e].op = "rollback"]
         /\ block'[v] # NoBlock
         /\ \A w \in Versions \ {v} : block'[w] = block[w]
         /\ \A w \in Versions : block[w] # NoBlock => w < v
         /\ \A w \in Versions : w < v => block[w] # NoBlock
         /\ editing' = [editing EXCEPT ![e] = NoEdit]
<1> USE DEF ContentInv
<1> DEFINE v == editing[e].version
<1>1. /\ editing[e] # NoEdit /\ v \in Versions /\ block[v] = NoBlock
      /\ block' = [block EXCEPT ![v] = [payload |-> editing[e].payload,
                                        published |-> editing[e].op = "rollback"]]
      /\ editing' = [editing EXCEPT ![e] = NoEdit]
  BY DEF CreateVersion, Stored
<1>2. editing[e].payload \in Payloads /\ None \notin Payloads
  BY <1>1, ContentFields, PublishingAssumption
<1>3. \A w \in Versions : block[w] # NoBlock => w < v
  BY <1>1 DEF VersionsHaveNoGap, Versions
<1>4. \A w \in Versions : w < v => block[w] # NoBlock
  BY <1>1 DEF VersionsHaveNoGap
<1>5. /\ block'[v] = [payload |-> editing[e].payload, published |-> editing[e].op = "rollback"]
      /\ \A w \in Versions \ {v} : block'[w] = block[w]
  BY <1>1 DEF ContentTypeOK
<1>6. block'[v] # NoBlock
  BY <1>2, <1>5 DEF NoBlock
<1> QED  BY <1>1, <1>2, <1>3, <1>4, <1>5, <1>6

LEMMA ContentStep == ContentInv /\ [PublishingNext]_publishingVars => ContentInv'
<1> SUFFICES ASSUME ContentInv, [PublishingNext]_publishingVars PROVE ContentInv'
  OBVIOUS
<1> USE DEF ContentInv
<1>1. ASSUME NEW e \in Editors, NEW payload \in Payloads, StartDraft(e, payload)
      PROVE  ContentInv'
  BY <1>1, EditingKeepsInv DEF StartDraft
<1>2. ASSUME NEW e \in Editors, NEW v \in Versions, StartRollback(e, v) PROVE ContentInv'
  BY <1>2, EditingKeepsInv, ContentFields DEF StartRollback, Target
<1>3. ASSUME NEW e \in Editors, CreateVersion(e) PROVE ContentInv'
  <2> DEFINE v == editing[e].version
  <2>1. /\ v \in Versions /\ editing[e].payload \in Payloads
        /\ block' = [block EXCEPT ![v] = [payload |-> editing[e].payload,
                                          published |-> editing[e].op = "rollback"]]
        /\ editing' = [editing EXCEPT ![e] = NoEdit]
    BY <1>3, CreatedVersion DEF CreateVersion, Stored
  <2>2. ContentTypeOK'
    BY <2>1 DEF ContentTypeOK
  <2>3. \A g \in Editors : editing'[g] # NoEdit => editing'[g] = editing[g]
    BY <2>1 DEF ContentTypeOK
  <2>4. \A w, x \in Versions : w <= x /\ block'[x] # NoBlock => block'[w] # NoBlock
    <3> SUFFICES ASSUME NEW w \in Versions, NEW x \in Versions, w <= x, block'[x] # NoBlock
                 PROVE  block'[w] # NoBlock
      OBVIOUS
    <3>1. CASE x = v
      <4>1. w = v \/ w < v
        BY <3>1, <2>1 DEF Versions
      <4> QED  BY <1>3, <4>1, CreatedVersion
    <3>2. CASE x # v
      <4>1. block[x] # NoBlock
        BY <1>3, <3>2, CreatedVersion
      <4>2. block[w] # NoBlock
        BY <4>1 DEF VersionsHaveNoGap
      <4> QED  BY <1>3, <4>2, CreatedVersion
    <3> QED  BY <3>1, <3>2
  <2>5. \A w \in Versions : block[w] # NoBlock => block'[w] # NoBlock
    BY <1>3, CreatedVersion
  <2>6. VersionsHaveNoGap'
    BY <2>3, <2>4, <2>5 DEF VersionsHaveNoGap
  <2> QED  BY <2>2, <2>6
<1>4. ASSUME NEW e \in Editors, EditFails(e) PROVE ContentInv'
  <2>1. ContentTypeOK'
    BY <1>4 DEF EditFails, ContentTypeOK
  <2>2. \A g \in Editors : editing'[g] # NoEdit => editing'[g] = editing[g]
    BY <1>4 DEF EditFails, ContentTypeOK
  <2> QED  BY <1>4, <2>1, <2>2 DEF EditFails, VersionsHaveNoGap
<1>5. ASSUME NEW v \in Versions, PublishBlock(v) PROVE ContentInv'
  <2>1. /\ block[v] # NoBlock /\ block' = [block EXCEPT ![v].published = TRUE]
        /\ editing' = editing
    BY <1>5 DEF PublishBlock
  <2>2. block[v] \in [payload: Payloads, published: BOOLEAN]
    BY <2>1 DEF ContentTypeOK
  <2>3. ContentTypeOK'
    BY <2>1, <2>2 DEF ContentTypeOK
  <2>4. \A w \in Versions : block'[w] # NoBlock <=> block[w] # NoBlock
    BY <2>1, <2>2, PublishingAssumption DEF ContentTypeOK, NoBlock
  <2> QED  BY <2>1, <2>3, <2>4 DEF VersionsHaveNoGap
<1>6. CASE UNCHANGED contentVars
  BY <1>6 DEF contentVars, ContentTypeOK, VersionsHaveNoGap
<1>7. BlogNext => UNCHANGED contentVars
  BY DEF BlogNext, Tick, CreatePost, UpdatePost, StartPublish, WritePublish, Unpublish, DeletePost,
     Promote, ListPosts, contentVars
<1>8. UNCHANGED publishingVars => UNCHANGED contentVars
  BY DEF publishingVars, contentVars
<1> QED
  BY <1>1, <1>2, <1>3, <1>4, <1>5, <1>6, <1>7, <1>8 DEF PublishingNext, ContentNext

(***************************************************************************)
(* HistoryMovesOn: however many saves and rollbacks read the same highest  *)
(* version, what the public sees moves to later versions only, no version  *)
(* changes its payload, and a rollback that succeeds is what is served.    *)
(***************************************************************************)
THEOREM RollbacksMoveForward == PublishingSpec => HistoryMovesOn
<1> DEFINE Forward ==
      /\ publicRead' >= publicRead
      /\ \A v \in Versions : block[v] # NoBlock => block'[v].payload = block[v].payload
      /\ \A e \in Editors : editing[e].op = "rollback" /\ CreateVersion(e) =>
           Served' = editing[e].payload
<1>1. ASSUME ContentInv, ContentInv', PublishingNext PROVE Forward
  <2> USE <1>1 DEF ContentInv
  <2> DEFINE shown == {v \in Versions : block[v].published}
  <2>1. /\ \A v \in Versions : block[v].published => block'[v].published
        /\ \A v \in Versions : block[v] # NoBlock => block'[v].payload = block[v].payload
    <3>1. ASSUME NEW e \in Editors, CreateVersion(e), NEW v \in Versions
          PROVE  /\ block[v].published => block'[v].published
                 /\ block[v] # NoBlock => block'[v].payload = block[v].payload
      BY <3>1, CreatedVersion, ContentFields
    <3>2. ASSUME NEW w \in Versions, PublishBlock(w), NEW v \in Versions
          PROVE  /\ block[v].published => block'[v].published
                 /\ block[v] # NoBlock => block'[v].payload = block[v].payload
      <4>1. block[w] \in [payload: Payloads, published: BOOLEAN]
        BY <3>2 DEF PublishBlock, ContentTypeOK
      <4> QED  BY <3>2, <4>1 DEF PublishBlock, ContentTypeOK
    <3>3. ASSUME UNCHANGED block, NEW v \in Versions
          PROVE  /\ block[v].published => block'[v].published
                 /\ block[v] # NoBlock => block'[v].payload = block[v].payload
      BY <3>3
    <3>4. \/ \E e \in Editors : CreateVersion(e)
          \/ \E w \in Versions : PublishBlock(w)
          \/ UNCHANGED block
      BY DEF PublishingNext, ContentNext, StartDraft, StartRollback, EditFails, BlogNext, Tick,
         CreatePost, UpdatePost, StartPublish, WritePublish, Unpublish, DeletePost, Promote,
         ListPosts, contentVars
    <3> QED  BY <3>1, <3>2, <3>3, <3>4
  <2>2. /\ publicRead \in 0..MaxVersion /\ publicRead' \in 0..MaxVersion
        /\ publicRead # 0 => publicRead \in shown
        /\ \A w \in Versions : block'[w].published => w <= publicRead'
        /\ publicRead' # 0 => publicRead' \in Versions /\ block'[publicRead'].published
    <3>1. publicRead' = Highest({v \in Versions : block'[v].published})
      BY DEF publicRead
    <3> QED  BY <3>1, HighestVersion DEF publicRead
  <2>3. publicRead' >= publicRead
    <3>1. CASE publicRead = 0
      BY <2>2, <3>1, PublishingAssumption
    <3>2. CASE publicRead # 0
      BY <2>1, <2>2, <3>2
    <3> QED  BY <3>1, <3>2
  <2>4. ASSUME NEW e \in Editors, editing[e].op = "rollback", CreateVersion(e)
        PROVE  Served' = editing[e].payload
    <3> DEFINE v == editing[e].version
    <3>0. /\ v \in Versions
          /\ block'[v] = [payload |-> editing[e].payload,
                          published |-> editing[e].op = "rollback"]
      BY <2>4, CreatedVersion
    <3>1. v \in Versions /\ block'[v].published /\ block'[v].payload = editing[e].payload
      <4>1. (editing[e].op = "rollback") = TRUE
        BY <2>4
      <4>2. block'[v] = [payload |-> editing[e].payload, published |-> TRUE]
        BY <3>0, <4>1
      <4> QED  BY <3>0, <4>2
    <3>1a. \A w \in Versions : block'[w].published => w <= v
      <4> SUFFICES ASSUME NEW w \in Versions, block'[w].published PROVE w <= v
        OBVIOUS
      <4>1. block'[w] # NoBlock
        BY DEF NoBlock
      <4>2. w # v => block'[w] = block[w]
        BY <2>4, CreatedVersion
      <4>3. block[w] # NoBlock => w < v
        BY <2>4, CreatedVersion
      <4> QED  BY <3>1, <4>1, <4>2, <4>3 DEF Versions
    <3>2. v <= publicRead' /\ v >= 1 /\ v \in Int
      BY <2>2, <3>1 DEF Versions
    <3>3. publicRead' # 0
      BY <2>2, <3>2
    <3>4. publicRead' <= v
      BY <2>2, <3>1a, <3>3
    <3>5. publicRead' = v
      BY <2>2, <3>2, <3>4
    <3> QED  BY <3>1, <3>3, <3>5 DEF Served
  <2> QED  BY <2>1, <2>3, <2>4
<1>2. ContentInv /\ ContentInv' /\ [PublishingNext]_publishingVars => [Forward]_publishingVars
  BY <1>1
<1>3. ContentInv /\ [PublishingNext]_publishingVars => ContentInv'
  BY ContentStep
<1> QED  BY <1>2, <1>3, ContentInitial, PTL DEF PublishingSpec, HistoryMovesOn

-----------------------------------------------------------------------------
(* Blog *)

\* A post has a date exactly while it is scheduled or published, and what
\* was due when a reader promoted is published until it is touched.
PromotedStaysPublished ==
  /\ \A p \in Posts : post[p].at # None <=> post[p].status \in {"SCHEDULED", "PUBLISHED"}
  /\ \A r \in Readers : read[r].promoted <= now
  /\ \A r \in Readers, p \in Posts :
       read[r].step = "promoted" /\ p \notin touched[r] /\ post[p].at # None
         /\ post[p].at <= read[r].promoted => post[p].status = "PUBLISHED"

BlogInv == BlogTypeOK /\ PromotedStaysPublished /\ DuePostsAreListed

LEMMA BlogInitial == PublishingInit => BlogInv
BY PublishingAssumption DEF PublishingInit, BlogInv, BlogTypeOK, PromotedStaysPublished,
   DuePostsAreListed, NoPost, NoRead, Times

LEMMA BlogFields ==
  ASSUME BlogTypeOK
  PROVE  /\ now \in Int
         /\ \A p \in Posts :
              /\ post[p].at = None \/ post[p].at \in Times
              /\ post[p] = NoPost <=> post[p].status = "none"
         /\ \A r \in Readers : read[r].promoted \in Times /\ read[r].rows \in SUBSET Posts
<1>1. \A p \in Posts : post[p] = NoPost \/
        post[p] \in [status: {"DRAFT", "SCHEDULED", "PUBLISHED"}, at: Times \cup {None},
                    written: BOOLEAN]
  BY DEF BlogTypeOK
<1>2. \A r \in Readers : read[r] = NoRead \/
        read[r] \in [step: {"promoted", "listed"}, rows: SUBSET Posts, promoted: Times]
  BY DEF BlogTypeOK
<1>3. NoPost.at = None /\ NoPost.status = "none" /\ NoRead.promoted = 0 /\ NoRead.rows = {}
  BY DEF NoPost, NoRead
<1>4. now \in Int /\ 0 \in Times
  BY PublishingAssumption DEF BlogTypeOK, Times
<1> QED  BY <1>1, <1>2, <1>3, <1>4

\* A step that leaves the readers alone: posts it changes are touched, or
\* keep their date and status.
LEMMA PostsKeepInv ==
  ASSUME BlogInv, BlogTypeOK', now' \in Int, now' >= now, UNCHANGED read,
         \A p \in Posts :
           post'[p].at # None <=> post'[p].status \in {"SCHEDULED", "PUBLISHED"},
         \A r \in Readers : touched[r] \subseteq touched'[r],
         \A r \in Readers, p \in Posts : p \notin touched'[r] =>
           post'[p].at = post[p].at /\ post'[p].status = post[p].status
  PROVE  BlogInv'
<1> USE DEF BlogInv
<1>1. \A r \in Readers : read'[r].promoted <= now'
  BY BlogFields DEF PromotedStaysPublished, Times
<1>2. PromotedStaysPublished'
  BY <1>1 DEF PromotedStaysPublished
<1>3. DuePostsAreListed'
  <2> SUFFICES ASSUME NEW r \in Readers, NEW p \in Posts,
                      read[r].step = "listed", p \notin touched'[r]
               PROVE  /\ post'[p].at # None /\ post'[p].at <= read[r].promoted => p \in read[r].rows
                      /\ p \in read[r].rows => post'[p].at # None /\ post'[p].at <= now'
    BY DEF DuePostsAreListed
  <2>1. /\ post[p].at # None /\ post[p].at <= read[r].promoted => p \in read[r].rows
        /\ p \in read[r].rows => post[p].at # None /\ post[p].at <= now
        /\ post'[p].at = post[p].at
    BY DEF DuePostsAreListed
  <2>2. post[p].at # None => post[p].at \in Int /\ now \in Int
    BY BlogFields, PublishingAssumption DEF Times
  <2> QED  BY <2>1, <2>2
<1> QED  BY <1>2, <1>3

LEMMA BlogStep == BlogInv /\ [PublishingNext]_publishingVars => BlogInv'
<1> SUFFICES ASSUME BlogInv, [PublishingNext]_publishingVars PROVE BlogInv'
  OBVIOUS
<1> USE DEF BlogInv
<1>1. CASE Tick
  <2>1. now' = now + 1 /\ now' \in Times
    BY <1>1, PublishingAssumption DEF Tick, BlogTypeOK, Times
  <2>2. BlogTypeOK'
    BY <1>1, <2>1 DEF Tick, BlogTypeOK
  <2>3. now' \in Int /\ now' >= now
    BY <2>1, BlogFields
  <2> QED  BY <1>1, <2>2, <2>3, PostsKeepInv DEF Tick, PromotedStaysPublished
<1>2. ASSUME NEW p \in Posts, NEW r, Touch(p), post' = [post EXCEPT ![p] = r],
             r \in [status: {"DRAFT", "SCHEDULED", "PUBLISHED"}, at: Times \cup {None},
                   written: BOOLEAN] \cup {NoPost},
             r.at # None <=> r.status \in {"SCHEDULED", "PUBLISHED"},
             editor' \subseteq Posts \X (Times \cup {None}), UNCHANGED <<now, read>>
      PROVE  BlogInv'
  <2>1. touched' = [s \in Readers |-> touched[s] \cup {p}]
    BY <1>2 DEF Touch
  <2>2. BlogTypeOK'
    BY <1>2, <2>1 DEF BlogTypeOK
  <2>3. post'[p] = r /\ \A q \in Posts \ {p} : post'[q] = post[q]
    BY <1>2 DEF BlogTypeOK
  <2>4. \A q \in Posts : post'[q].at # None <=> post'[q].status \in {"SCHEDULED", "PUBLISHED"}
    BY <1>2, <2>3 DEF PromotedStaysPublished
  <2>5. now' \in Int /\ now' >= now
    BY <1>2, BlogFields
  <2> HIDE DEF BlogInv
  <2>6. \A s \in Readers : touched[s] \subseteq touched'[s] /\ p \in touched'[s]
    BY <2>1
  <2> QED  BY <1>2, <2>2, <2>3, <2>4, <2>5, <2>6, PostsKeepInv
<1>3. ASSUME NEW p \in Posts, NEW written \in BOOLEAN, CreatePost(p, written) PROVE BlogInv'
  BY <1>2, <1>3 DEF CreatePost, BlogTypeOK
<1>4. ASSUME NEW p \in Posts, NEW written \in BOOLEAN, UpdatePost(p, written) PROVE BlogInv'
  <2>1. /\ post[p] # NoPost /\ post' = [post EXCEPT ![p].written = written]
        /\ UNCHANGED <<now, editor, read, touched>>
    BY <1>4 DEF UpdatePost
  <2>2. post[p] \in [status: {"DRAFT", "SCHEDULED", "PUBLISHED"}, at: Times \cup {None},
                     written: BOOLEAN]
    BY <2>1 DEF BlogTypeOK
  <2>3. BlogTypeOK'
    BY <2>1, <2>2 DEF BlogTypeOK
  <2>4. \A q \in Posts : post'[q].at = post[q].at /\ post'[q].status = post[q].status
    BY <2>1, <2>2 DEF BlogTypeOK
  <2>5. now' \in Int /\ now' >= now
    BY <2>1, BlogFields
  <2> QED  BY <2>1, <2>3, <2>4, <2>5, PostsKeepInv DEF PromotedStaysPublished
<1>5. ASSUME NEW p \in Posts, NEW date \in Times \cup {None}, StartPublish(p, date)
      PROVE  BlogInv'
  <2>1. BlogTypeOK'
    BY <1>5 DEF StartPublish, BlogTypeOK
  <2>2. now' \in Int /\ now' >= now
    BY <1>5, BlogFields DEF StartPublish
  <2> QED  BY <1>5, <2>1, <2>2, PostsKeepInv DEF StartPublish, PromotedStaysPublished
<1>6. ASSUME NEW p \in Posts, NEW date \in Times \cup {None}, WritePublish(p, date)
      PROVE  BlogInv'
  <2>1. editor' \subseteq Posts \X (Times \cup {None}) /\ UNCHANGED <<now, read>>
    BY <1>6 DEF WritePublish, BlogTypeOK
  <2>2. CASE post[p] = NoPost
    <3>1. BlogTypeOK'
      BY <1>6, <2>1, <2>2 DEF WritePublish, BlogTypeOK
    <3>2. now' \in Int /\ now' >= now
      BY <2>1, BlogFields
    <3> QED  BY <1>6, <2>1, <2>2, <3>1, <3>2, PostsKeepInv DEF WritePublish, PromotedStaysPublished
  <2>3. CASE post[p] # NoPost
    <3> DEFINE r == Published(post[p], date)
    <3>1. /\ post' = [post EXCEPT ![p] = r] /\ Touch(p)
      BY <1>6, <2>3 DEF WritePublish
    <3>2. post[p] \in [status: {"DRAFT", "SCHEDULED", "PUBLISHED"}, at: Times \cup {None},
                       written: BOOLEAN]
      BY <2>3 DEF BlogTypeOK
    <3>3. now \in Times /\ now # None
      BY PublishingAssumption DEF BlogTypeOK, Times
    <3>4. /\ r \in [status: {"DRAFT", "SCHEDULED", "PUBLISHED"}, at: Times \cup {None},
                    written: BOOLEAN]
          /\ r.at # None /\ r.status \in {"SCHEDULED", "PUBLISHED"}
      BY <3>2, <3>3 DEF Published
    <3> QED  BY <1>2, <2>1, <3>1, <3>4
  <2> QED  BY <2>2, <2>3
<1>7. ASSUME NEW p \in Posts, Unpublish(p) PROVE BlogInv'
  <2> DEFINE r == [post[p] EXCEPT !.status = "DRAFT", !.at = None]
  <2>1. /\ post[p] # NoPost /\ post' = [post EXCEPT ![p] = r] /\ Touch(p)
        /\ UNCHANGED <<now, editor, read>>
    BY <1>7 DEF Unpublish, BlogTypeOK
  <2>2. post[p] \in [status: {"DRAFT", "SCHEDULED", "PUBLISHED"}, at: Times \cup {None},
                     written: BOOLEAN]
    BY <2>1 DEF BlogTypeOK
  <2>3. /\ r \in [status: {"DRAFT", "SCHEDULED", "PUBLISHED"}, at: Times \cup {None},
                  written: BOOLEAN]
        /\ r.at = None /\ r.status = "DRAFT"
    BY <2>2
  <2>4. editor' \subseteq Posts \X (Times \cup {None})
    BY <2>1 DEF BlogTypeOK
  <2> QED  BY <1>2, <2>1, <2>3, <2>4
<1>8. ASSUME NEW p \in Posts, DeletePost(p) PROVE BlogInv'
  <2>1. NoPost.at = None /\ NoPost.status = "none"
    BY DEF NoPost
  <2> QED  BY <1>2, <1>8, <2>1 DEF DeletePost, BlogTypeOK
<1>9. ASSUME NEW r \in Readers, Promote(r) PROVE BlogInv'
  <2>1. /\ post' = promoteScheduled
        /\ read' = [read EXCEPT ![r] = [step |-> "promoted", rows |-> {}, promoted |-> now]]
        /\ touched' = [touched EXCEPT ![r] = {}]
        /\ UNCHANGED <<now, editor>>
    BY <1>9 DEF Promote
  <2>2. /\ \A p \in Posts :
             /\ post'[p].at = post[p].at
             /\ post'[p].status = IF post[p].status = "SCHEDULED" /\ post[p].at <= now
                                  THEN "PUBLISHED" ELSE post[p].status
        /\ post' \in [Posts -> [status: {"DRAFT", "SCHEDULED", "PUBLISHED"},
                                at: Times \cup {None}, written: BOOLEAN] \cup {NoPost}]
    <3>1. ASSUME NEW p \in Posts
          PROVE  /\ post'[p].at = post[p].at
                 /\ post'[p].status = IF post[p].status = "SCHEDULED" /\ post[p].at <= now
                                      THEN "PUBLISHED" ELSE post[p].status
                 /\ post'[p] \in [status: {"DRAFT", "SCHEDULED", "PUBLISHED"},
                                  at: Times \cup {None}, written: BOOLEAN] \cup {NoPost}
      <4>1. CASE post[p].status = "SCHEDULED" /\ post[p].at <= now
        <5>1. post'[p] = [post[p] EXCEPT !.status = "PUBLISHED"]
          BY <2>1, <4>1 DEF promoteScheduled
        <5>2. post[p] \in [status: {"DRAFT", "SCHEDULED", "PUBLISHED"}, at: Times \cup {None},
                           written: BOOLEAN]
          BY <4>1 DEF BlogTypeOK, NoPost
        <5> QED  BY <4>1, <5>1, <5>2
      <4>2. CASE ~(post[p].status = "SCHEDULED" /\ post[p].at <= now)
        <5>1. post'[p] = post[p]
          BY <2>1, <4>2 DEF promoteScheduled
        <5> QED  BY <4>2, <5>1 DEF BlogTypeOK
      <4> QED  BY <4>1, <4>2
    <3>2. post' = [p \in Posts |-> post'[p]]
      BY <2>1 DEF promoteScheduled
    <3> QED  BY <3>1, <3>2
  <2>3. BlogTypeOK'
    BY <2>1, <2>2 DEF BlogTypeOK
  <2>4. /\ read'[r] = [step |-> "promoted", rows |-> {}, promoted |-> now] /\ touched'[r] = {}
        /\ \A s \in Readers \ {r} : read'[s] = read[s] /\ touched'[s] = touched[s]
    BY <2>1 DEF BlogTypeOK
  <2>5. \A p \in Posts : post[p].at # None /\ post[p].at <= now => post'[p].status = "PUBLISHED"
    BY <2>2 DEF PromotedStaysPublished
  <2>6. \A p \in Posts : post[p].status = "PUBLISHED" => post'[p].status = "PUBLISHED"
    BY <2>2
  <2>7. \A s \in Readers : read'[s].promoted <= now'
    BY <2>1, <2>4, BlogFields DEF PromotedStaysPublished
  <2>8. PromotedStaysPublished'
    <3>1. \A p \in Posts : post'[p].at # None <=> post'[p].status \in {"SCHEDULED", "PUBLISHED"}
      BY <2>2 DEF PromotedStaysPublished
    <3>2. \A s \in Readers, p \in Posts :
            read'[s].step = "promoted" /\ p \notin touched'[s] /\ post'[p].at # None
              /\ post'[p].at <= read'[s].promoted => post'[p].status = "PUBLISHED"
      BY <2>2, <2>4, <2>5, <2>6 DEF PromotedStaysPublished
    <3> QED  BY <2>7, <3>1, <3>2 DEF PromotedStaysPublished
  <2>9. DuePostsAreListed'
    BY <2>1, <2>2, <2>4 DEF DuePostsAreListed
  <2> QED  BY <2>3, <2>8, <2>9
<1>10. ASSUME NEW r \in Readers, ListPosts(r) PROVE BlogInv'
  <2>1. /\ read[r].step = "promoted"
        /\ read' = [read EXCEPT ![r].step = "listed", ![r].rows = listPublished]
        /\ UNCHANGED <<now, post, editor, touched>>
    BY <1>10 DEF ListPosts
  <2>2. read[r] \in [step: {"promoted", "listed"}, rows: SUBSET Posts, promoted: Times]
    BY <2>1 DEF BlogTypeOK, NoRead
  <2>3. listPublished \in SUBSET Posts
    BY DEF listPublished
  <2>4. BlogTypeOK'
    BY <2>1, <2>2, <2>3 DEF BlogTypeOK
  <2>5. /\ read'[r].step = "listed" /\ read'[r].rows = listPublished
        /\ read'[r].promoted = read[r].promoted
        /\ \A s \in Readers \ {r} : read'[s] = read[s]
    BY <2>1, <2>2 DEF BlogTypeOK
  <2>6. PromotedStaysPublished'
    BY <2>1, <2>5 DEF PromotedStaysPublished
  <2>7. \A p \in Posts \ touched[r] :
          /\ post[p].at # None /\ post[p].at <= read[r].promoted => p \in listPublished
          /\ p \in listPublished => post[p].at # None /\ post[p].at <= now
    <3>1. ASSUME NEW p \in Posts \ touched[r], post[p].at # None, post[p].at <= read[r].promoted
          PROVE  post[p].status = "PUBLISHED" /\ post[p].at <= now
      <4>1. /\ post[p].at \in Int /\ read[r].promoted \in Int /\ now \in Int
            /\ read[r].promoted <= now
        BY <3>1, BlogFields DEF PromotedStaysPublished, Times
      <4> QED  BY <2>1, <3>1, <4>1 DEF PromotedStaysPublished
    <3> QED  BY <3>1 DEF listPublished
  <2>8. DuePostsAreListed'
    BY <2>1, <2>5, <2>7 DEF DuePostsAreListed
  <2> QED  BY <2>4, <2>6, <2>8
<1>11. CASE UNCHANGED blogVars
  BY <1>11 DEF blogVars, BlogTypeOK, PromotedStaysPublished, DuePostsAreListed
<1>12. ContentNext => UNCHANGED blogVars
  BY DEF ContentNext, StartDraft, StartRollback, CreateVersion, EditFails, PublishBlock
<1>13. UNCHANGED publishingVars => UNCHANGED blogVars
  BY DEF publishingVars, blogVars
<1> QED
  BY <1>1, <1>3, <1>4, <1>5, <1>6, <1>7, <1>8, <1>9, <1>10, <1>11, <1>12, <1>13
     DEF PublishingNext, BlogNext

(***************************************************************************)
(* DuePostsAreListed: for any number of readers and of editors who publish,*)
(* schedule, withdraw and delete between the two statements of a read, a   *)
(* list has every post that was due when it was asked for and none early.  *)
(***************************************************************************)
THEOREM ListsAreComplete == PublishingSpec => []DuePostsAreListed
<1>1. BlogInv => DuePostsAreListed
  BY DEF BlogInv
<1> QED  BY <1>1, BlogInitial, BlogStep, PTL DEF PublishingSpec

-----------------------------------------------------------------------------
(* Tables *)

\* Where an edit of one column touches no other, a row is what was last asked
\* of it; the upsert of an image is the exception.
RowsAsMeant ==
  /\ row = meant
  /\ \A q \in Forms : form[q].op = "update" => form[q].body \in Edits

TablesInv == kind # "image" => CataloguesTypeOK /\ RowsAsMeant

Fields == {"slug", "text", "note", "shown", "count"}

\* A row has its five columns.
LEMMA RowIsItsFields ==
  ASSUME NEW r \in Row
  PROVE  /\ DOMAIN r = Fields
         /\ r = [f \in Fields |-> r[f]]
         /\ r.slug \in Names \cup {None} /\ r.text \in Texts /\ r.note \in Texts \cup {None}
         /\ r.shown \in BOOLEAN /\ r.count \in Nat
BY DEF Row, Fields

\* Updating a row is doing what was asked of it.
LEMMA AskedIsUpdated ==
  ASSUME NEW d \in Body, NEW m \in Row, NEW before,
         Updated(before, m, d).slug # Null, Updated(before, m, d).text # Null,
         Updated(before, m, d).shown # Null, Updated(before, m, d).count # Null
  PROVE  Updated(before, m, d) \in Row /\ Asked(m, d) = Updated(before, m, d)
<1> DEFINE r == Updated(before, m, d)
<1>1. /\ d.slug \in Names \cup {Absent} /\ d.text \in Texts \cup {Absent}
      /\ d.note \in Texts \cup {Absent, Null} /\ d.shown \in BOOLEAN \cup {Absent}
      /\ d.count \in Nat \cup {Absent}
  BY CatalogueAssumption DEF Body, Updated, Given
<1>2. /\ r.slug = Given(d.slug, m.slug) /\ r.text = Given(d.text, m.text)
      /\ r.note = Cleared(d.note, m.note) /\ r.shown = Given(d.shown, m.shown)
      /\ r.count = Given(d.count, m.count)
  BY DEF Updated
<1>3. r \in Row
  BY <1>1, RowIsItsFields, CatalogueAssumption DEF Updated, Row, Given, Cleared
<1>4. Asked(m, d) = [f \in Fields |-> CASE d[f] = Absent -> m[f]
                                        [] d[f] = Null -> IF f = "count" THEN 1 ELSE None
                                        [] OTHER -> d[f]]
  BY RowIsItsFields DEF Asked
<1>5. /\ Asked(m, d).slug = r.slug /\ Asked(m, d).text = r.text
      /\ Asked(m, d).shown = r.shown /\ Asked(m, d).count = r.count
  BY <1>1, <1>2, <1>4, CatalogueAssumption DEF Fields, Given
<1>6. Asked(m, d).note = r.note
  BY <1>1, <1>2, <1>4, CatalogueAssumption DEF Fields, Given, Cleared
<1>7. r = [f \in Fields |-> r[f]]
  BY <1>3, RowIsItsFields
<1>8. \A f \in Fields : Asked(m, d)[f] = r[f]
  BY <1>5, <1>6 DEF Fields
<1>9. DOMAIN Asked(m, d) = Fields /\ Asked(m, d) = [f \in Fields |-> Asked(m, d)[f]]
  BY <1>4
<1> HIDE DEF r
<1> QED  BY <1>3, <1>7, <1>8, <1>9 DEF r

\* One row is written, as it was asked to be; a request may end.
LEMMA WriteKeepsInv ==
  ASSUME CataloguesTypeOK, RowsAsMeant, NEW i \in Ids, NEW r \in Row \cup {NoRow}, Write(i, r, r),
         form' = form \/ (\E q \in Forms : form' = [form EXCEPT ![q] = NoForm]),
         UNCHANGED <<kind, ordered, instance>>
  PROVE  CataloguesTypeOK' /\ RowsAsMeant'
<1>1. row' = [row EXCEPT ![i] = r] /\ meant' = [meant EXCEPT ![i] = r]
  BY DEF Write
<1>2. form' \in [Forms -> Form \cup {NoForm}]
  BY DEF CataloguesTypeOK
<1>3. \A q \in Forms : form'[q] = form[q] \/ form'[q] = NoForm
  BY DEF CataloguesTypeOK
<1>4. CataloguesTypeOK'
  BY <1>1, <1>2 DEF CataloguesTypeOK
<1>5. NoForm.op = "none"
  BY DEF NoForm
<1> QED  BY <1>1, <1>3, <1>4, <1>5 DEF RowsAsMeant

LEMMA CreateKeepsInv ==
  ASSUME CataloguesTypeOK, RowsAsMeant, NEW i \in Ids, NEW d \in Creations,
         \/ CreatePastry(i, d) \/ CreateCollection(i, d)
         \/ CreateTier(i, d) \/ CreateTestimonial(i, d)
  PROVE  CataloguesTypeOK' /\ RowsAsMeant'
<1>1. /\ d.slug \in Names /\ d.text \in Texts /\ d.note \in Texts \cup {Absent}
      /\ d.shown \in BOOLEAN \cup {Absent} /\ d.count \in Nat \cup {Absent}
  BY BodyAssumption DEF Body
<1>2. ASSUME NEW r \in Row, Create(i, r) PROVE CataloguesTypeOK' /\ RowsAsMeant'
  BY <1>2, WriteKeepsInv DEF Create
<1>3. ASSUME NEW slug \in Names \cup {None}, NEW shown \in BOOLEAN, NEW count \in Nat
      PROVE  [slug |-> slug, text |-> d.text, note |-> OrElse(d.note, None),
              shown |-> OrElse(d.shown, shown), count |-> OrElse(d.count, count)] \in Row
  BY <1>1, CatalogueAssumption DEF OrElse, Row
<1>4. CASE CreatePastry(i, d)
  <2>1. AtLeastOne(OrElse(d.count, 1)) \in Nat /\ OrElse(d.shown, FALSE) \in BOOLEAN
    BY <1>1, CatalogueAssumption DEF OrElse, AtLeastOne
  <2>2. [slug |-> d.slug, text |-> d.text, note |-> OrElse(d.note, None),
         shown |-> OrElse(d.shown, FALSE), count |-> AtLeastOne(OrElse(d.count, 1))] \in Row
    BY <1>1, <2>1, CatalogueAssumption DEF OrElse, Row
  <2> QED  BY <1>2, <1>4, <2>2 DEF CreatePastry
<1>5. CASE CreateCollection(i, d)
  BY <1>1, <1>2, <1>3, <1>5 DEF CreateCollection
<1>6. CASE CreateTier(i, d)
  BY <1>1, <1>2, <1>3, <1>6 DEF CreateTier
<1>7. CASE CreateTestimonial(i, d)
  BY <1>2, <1>3, <1>7 DEF CreateTestimonial
<1> QED  BY <1>4, <1>5, <1>6, <1>7

LEMMA UpdateKeepsInv ==
  ASSUME CataloguesTypeOK, RowsAsMeant, NEW q \in Forms, NEW d \in Body, Update(q, d)
  PROVE  CataloguesTypeOK' /\ RowsAsMeant'
<1> DEFINE w == form[q]
           r == Updated(w.before, row[w.id], d)
<1>1. /\ w.op = "update" /\ row[w.id] # NoRow
      /\ r.slug # Null /\ r.text # Null /\ r.shown # Null /\ r.count # Null
      /\ Write(w.id, r, Asked(meant[w.id], d))
      /\ form' = [form EXCEPT ![q] = NoForm]
      /\ UNCHANGED <<kind, ordered, instance>>
  BY DEF Update, Exists
<1>2. w.id \in Ids
  BY <1>1 DEF CataloguesTypeOK, Form, NoForm
<1>3. row[w.id] \in Row
  BY <1>1, <1>2 DEF CataloguesTypeOK
<1>4. r \in Row /\ Asked(meant[w.id], d) = r
  BY <1>1, <1>3, AskedIsUpdated DEF RowsAsMeant
<1> HIDE DEF r
<1> QED  BY <1>1, <1>2, <1>4, WriteKeepsInv

LEMMA RemoveKeepsInv ==
  ASSUME CataloguesTypeOK, RowsAsMeant, NEW q \in Forms, RemoveRow(q)
  PROVE  CataloguesTypeOK' /\ RowsAsMeant'
<1>1. form[q].id \in Ids
  BY DEF RemoveRow, CataloguesTypeOK, Form, NoForm
<1> QED  BY <1>1, WriteKeepsInv DEF RemoveRow

\* Seeds fill rows that were not there.
LEMMA SeedsKeepInv ==
  ASSUME CataloguesTypeOK, RowsAsMeant, NEW b \in Instances, NEW at \in [Missing -> Ids],
         NEW seeded \in [Seeds -> Row], InsertSeeds(b, at, seeded), UNCHANGED kind
  PROVE  CataloguesTypeOK' /\ RowsAsMeant'
<1> DEFINE filled(i) == \E s \in DOMAIN at : at[s] = i
           seed(i) == seeded[CHOOSE s \in DOMAIN at : at[s] = i]
<1>1. /\ row' = [i \in Ids |-> IF filled(i) THEN seed(i) ELSE row[i]]
      /\ meant' = [i \in Ids |-> IF filled(i) THEN row'[i] ELSE meant[i]]
      /\ instance' = instance \ {b} /\ UNCHANGED <<kind, ordered, form>>
  BY DEF InsertSeeds
<1>2. \A i \in Ids : filled(i) => seed(i) \in Row
  BY DEF Missing
<1> HIDE DEF filled, seed
<1>3. row' \in [Ids -> Row \cup {NoRow}]
  BY <1>1, <1>2 DEF CataloguesTypeOK
<1>4. \A i \in Ids : meant'[i] = row'[i]
  BY <1>1 DEF RowsAsMeant
<1>5. meant' = [i \in Ids |-> meant'[i]] /\ row' = [i \in Ids |-> row'[i]]
  BY <1>1
<1>6. row' = meant'
  BY <1>4, <1>5
<1> QED  BY <1>1, <1>3, <1>6 DEF CataloguesTypeOK, RowsAsMeant

LEMMA TablesInitial == CataloguesInit => TablesInv
BY DEF CataloguesInit, TablesInv, CataloguesTypeOK, RowsAsMeant, NoForm

LEMMA TablesStep == TablesInv /\ [CataloguesNext]_catalogueVars => TablesInv'
<1> SUFFICES ASSUME TablesInv, [CataloguesNext]_catalogueVars, kind' # "image"
             PROVE  CataloguesTypeOK' /\ RowsAsMeant'
  BY DEF TablesInv
<1>1. kind' = kind
  BY DEF catalogueVars, CataloguesNext, CreatePastry, CreateCollection, CreateTier,
     CreateTestimonial, Create, Begin, UpdatePastry, UpdateCollection, UpdateTier,
     UpdateTestimonial, Update, DeletePastry, DeleteCollection, DeleteTier, DeleteTestimonial,
     UpsertImage, UpsertSetting, RemoveImage, RemoveSetting, RemoveRow, EditEnds, CountRows,
     SeedPastries, SeedCollections, SeedTiers, InsertSeeds, OrderCollection
<1>2. CataloguesTypeOK /\ RowsAsMeant
  BY <1>1 DEF TablesInv
<1>3. ASSUME NEW i \in Ids, NEW d \in Creations,
             \/ CreatePastry(i, d) \/ CreateCollection(i, d)
             \/ CreateTier(i, d) \/ CreateTestimonial(i, d)
      PROVE  CataloguesTypeOK' /\ RowsAsMeant'
  BY <1>2, <1>3, CreateKeepsInv
<1>4. ASSUME NEW q \in Forms, NEW i \in Ids, NEW op \in {"update", "delete"},
             NEW d \in Edits \cup {None}, Begin(q, op, i, d), op = "update" => d \in Edits
      PROVE  CataloguesTypeOK' /\ RowsAsMeant'
  <2> DEFINE w == [op |-> op, id |-> i, body |-> d, before |-> row[i]]
  <2>1. form' = [form EXCEPT ![q] = w] /\ UNCHANGED <<kind, row, ordered, instance, meant>>
    BY <1>4 DEF Begin
  <2>2. w \in Form
    BY <1>2, <1>4 DEF CataloguesTypeOK, Form
  <2>3. w.op = "update" => w.body \in Edits
    BY <1>4
  <2> HIDE DEF w
  <2>4. CataloguesTypeOK'
    BY <1>2, <2>1, <2>2 DEF CataloguesTypeOK
  <2>5. \A p \in Forms : form'[p] = form[p] \/ form'[p] = w
    BY <1>2, <2>1 DEF CataloguesTypeOK
  <2> QED  BY <1>2, <2>1, <2>3, <2>4, <2>5 DEF RowsAsMeant
<1>5. ASSUME NEW q \in Forms,
             UpdatePastry(q) \/ UpdateCollection(q) \/ UpdateTier(q) \/ UpdateTestimonial(q)
      PROVE  CataloguesTypeOK' /\ RowsAsMeant'
  <2>1. form[q].op = "update"
    BY <1>5 DEF UpdatePastry, UpdateCollection, UpdateTier, UpdateTestimonial, Update
  <2>2. form[q].body \in Body
    BY <1>2, <2>1, BodyAssumption DEF RowsAsMeant
  <2>3. /\ [form[q].body EXCEPT !.count = AtLeastOne(@)] \in Body
        /\ [form[q].body EXCEPT !.slug = Absent] \in Body
    BY <2>2, CatalogueAssumption DEF Body, AtLeastOne
  <2> QED
    BY <1>2, <1>5, <2>2, <2>3, UpdateKeepsInv
       DEF UpdatePastry, UpdateCollection, UpdateTier, UpdateTestimonial
<1>6. ASSUME NEW q \in Forms,
             \/ DeletePastry(q) \/ DeleteCollection(q) \/ DeleteTier(q)
             \/ DeleteTestimonial(q) \/ RemoveImage(q) \/ RemoveSetting(q)
      PROVE  CataloguesTypeOK' /\ RowsAsMeant'
  BY <1>2, <1>6, RemoveKeepsInv DEF DeletePastry, DeleteCollection, DeleteTier,
     DeleteTestimonial, RemoveImage, RemoveSetting
<1>7. ASSUME NEW q \in Forms, UpsertSetting(q) PROVE CataloguesTypeOK' /\ RowsAsMeant'
  <2> DEFINE w == form[q]
             r == [slug |-> None, text |-> w.body.text, note |-> None, shown |-> TRUE, count |-> 1]
  <2>1. /\ w.op = "update" /\ w.body.text \in Texts /\ Write(w.id, r, r)
        /\ form' = [form EXCEPT ![q] = NoForm] /\ UNCHANGED <<kind, ordered, instance>>
    BY <1>7 DEF UpsertSetting
  <2>2. w.id \in Ids
    BY <1>2, <2>1 DEF CataloguesTypeOK, Form, NoForm
  <2>3. r \in Row
    BY <2>1 DEF Row
  <2> HIDE DEF r
  <2> QED  BY <1>2, <2>1, <2>2, <2>3, WriteKeepsInv
<1>8. ASSUME NEW q \in Forms, EditEnds(q) PROVE CataloguesTypeOK' /\ RowsAsMeant'
  <2>1. CataloguesTypeOK'
    BY <1>2, <1>8 DEF EditEnds, CataloguesTypeOK
  <2>2. \A p \in Forms : form'[p] = form[p] \/ form'[p] = NoForm
    BY <1>2, <1>8 DEF EditEnds, CataloguesTypeOK
  <2>3. NoForm.op = "none"
    BY DEF NoForm
  <2> QED  BY <1>2, <1>8, <2>1, <2>2, <2>3 DEF EditEnds, RowsAsMeant
<1>9. ASSUME NEW b \in Instances, CountRows(b) PROVE CataloguesTypeOK' /\ RowsAsMeant'
  BY <1>2, <1>9 DEF CountRows, CataloguesTypeOK, RowsAsMeant
<1>10. ASSUME NEW b \in Instances, NEW at \in [Missing -> Ids],
              SeedPastries(b, at) \/ SeedCollections(b, at) \/ SeedTiers(b, at)
       PROVE  CataloguesTypeOK' /\ RowsAsMeant'
  <2>1. \A shown \in BOOLEAN, count \in Nat :
          [s \in Seeds |-> SeedRow(s, shown, count)] \in [Seeds -> Row]
    BY CatalogueAssumption DEF SeedRow, Row
  <2> QED
    BY <1>1, <1>2, <1>10, <2>1, SeedsKeepInv DEF SeedPastries, SeedCollections, SeedTiers
<1>11. ASSUME NEW i \in Ids, OrderCollection(i) PROVE CataloguesTypeOK' /\ RowsAsMeant'
  BY <1>2, <1>11 DEF OrderCollection, CataloguesTypeOK, RowsAsMeant
<1>12. CASE UNCHANGED catalogueVars
  BY <1>2, <1>12 DEF catalogueVars, CataloguesTypeOK, RowsAsMeant
<1>13. ASSUME NEW q \in Forms, UpsertImage(q) PROVE FALSE
  BY <1>1, <1>13 DEF UpsertImage
<1>14. ASSUME NEW q \in Forms, NEW i \in Ids,
              Begin(q, "delete", i, None) \/ \E d \in Edits : Begin(q, "update", i, d)
       PROVE  CataloguesTypeOK' /\ RowsAsMeant'
  <2>1. CASE Begin(q, "delete", i, None)
    BY <1>4, <2>1
  <2>2. ASSUME NEW d \in Edits, Begin(q, "update", i, d)
        PROVE  CataloguesTypeOK' /\ RowsAsMeant'
    BY <1>4, <2>2
  <2> QED  BY <1>14, <2>1, <2>2
<1> QED
  BY <1>3, <1>14, <1>5, <1>6, <1>7, <1>8, <1>9, <1>10, <1>11, <1>12, <1>13 DEF CataloguesNext

(***************************************************************************)
(* NoLostEdit: for any number of operators and of starting instances, a    *)
(* pastry, a collection, a tier, a testimonial and a setting keep what was *)
(* last asked of each of their columns, and the public lists show it.      *)
(***************************************************************************)
THEOREM EditsAreKept == CataloguesSpec => []NoLostEdit
<1>1. TablesInv => NoLostEdit
  <2> SUFFICES ASSUME TablesInv, kind # "image"
               PROVE  row = meant /\ (kind \notin Keyed => Public = {i \in Ids : meant[i].shown})
    BY DEF NoLostEdit
  <2>1. row = meant /\ kind \in Services \cup Keyed
    BY DEF TablesInv, RowsAsMeant, CataloguesTypeOK
  <2> QED
    BY <2>1 DEF Services, Public, listAvailable, listPublishedCollections, listPublicTiers,
       listPublishedTestimonials
<1> QED  BY <1>1, TablesInitial, TablesStep, PTL DEF CataloguesSpec

\* An image is inserted or updated whole, with the alt text that was read.
ImagesInv ==
  kind = "image" =>
    /\ CataloguesTypeOK
    /\ \A q \in Forms : form[q].op = "update" => form[q].body \in Edits

LEMMA ImagesInitial == CataloguesInit => ImagesInv
BY DEF CataloguesInit, ImagesInv, CataloguesTypeOK, NoForm

\* What an upsert stores, and what it asked for, are rows.
LEMMA UpsertedRow ==
  ASSUME ImagesInv, NEW q \in Forms, UpsertImage(q)
  PROVE  /\ form[q].id \in Ids
         /\ row'[form[q].id] \in Row /\ meant'[form[q].id] \in Row
         /\ \A i \in Ids \ {form[q].id} : row'[i] = row[i] /\ meant'[i] = meant[i]
         /\ row' = [i \in Ids |-> row'[i]] /\ meant' = [i \in Ids |-> meant'[i]]
<1> DEFINE w == form[q]
           alt == CASE w.body.note = Absent /\ Exists(w.id) -> w.before.note
                    [] OTHER -> OrElse(w.body.note, None)
           r == [slug |-> None, text |-> w.body.text, note |-> alt, shown |-> TRUE, count |-> 1]
           m == [meant[w.id] EXCEPT !.shown = TRUE, !.count = 1]
           d == [w.body EXCEPT !.slug = Absent, !.shown = Absent, !.count = Absent]
<1>1. /\ kind = "image" /\ w.op = "update" /\ w.body.text \in Texts
      /\ Write(w.id, r, Asked(m, d))
  BY DEF UpsertImage
<1>2. /\ CataloguesTypeOK /\ w.body \in Body /\ w \in Form /\ w.id \in Ids
  BY <1>1, BodyAssumption DEF ImagesInv, CataloguesTypeOK, NoForm, Form
<1>3. w.body.note \in Texts \cup {Absent, Null} /\ w.before.note \in Texts \cup {None}
  BY <1>2 DEF Body, Form, Row, NoRow
<1>4. alt \in Texts \cup {None}
  BY <1>3 DEF OrElse
<1>5. r \in Row
  BY <1>1, <1>4 DEF Row
<1>6. /\ DOMAIN m = Fields /\ m.slug \in Names \cup {None} /\ m.note \in Texts \cup {None}
      /\ m.shown = TRUE /\ m.count = 1
  BY <1>2 DEF CataloguesTypeOK, Row, NoRow, Fields
<1>7. /\ d.slug = Absent /\ d.text = w.body.text /\ d.note = w.body.note
      /\ d.shown = Absent /\ d.count = Absent
  BY <1>2 DEF Body
<1> HIDE DEF w, alt, r, m, d
<1>8. Asked(m, d) = [f \in Fields |-> CASE d[f] = Absent -> m[f]
                                        [] d[f] = Null -> IF f = "count" THEN 1 ELSE None
                                        [] OTHER -> d[f]]
  BY <1>6 DEF Asked
<1>9. /\ Asked(m, d).slug \in Names \cup {None} /\ Asked(m, d).text \in Texts
      /\ Asked(m, d).shown \in BOOLEAN /\ Asked(m, d).count \in Nat
  <2>1. w.body.text \in Texts /\ w.body.text \notin {Absent, Null} /\ Absent # Null
    BY <1>1, CatalogueAssumption
  <2>2. /\ Asked(m, d).slug = m.slug /\ Asked(m, d).shown = m.shown
        /\ Asked(m, d).count = m.count /\ Asked(m, d).text = w.body.text
    BY <1>7, <1>8, <2>1 DEF Fields
  <2>3. Asked(m, d).shown \in BOOLEAN
    BY <1>6, <2>2, Zenon
  <2>4. Asked(m, d).count \in Nat
    <3>1. Asked(m, d).count = 1
      BY <1>6, <2>2
    <3> QED  BY <3>1
  <2> QED  BY <1>6, <2>1, <2>2, <2>3, <2>4
<1>10. Asked(m, d).note \in Texts \cup {None}
  BY <1>3, <1>6, <1>7, <1>8 DEF Fields
<1>11. Asked(m, d) = [slug |-> Asked(m, d).slug, text |-> Asked(m, d).text,
                      note |-> Asked(m, d).note, shown |-> Asked(m, d).shown,
                      count |-> Asked(m, d).count]
  BY <1>8 DEF Fields
<1>12. Asked(m, d) \in Row
  BY <1>9, <1>10, <1>11 DEF Row
<1>13. row' = [row EXCEPT ![w.id] = r] /\ meant' = [meant EXCEPT ![w.id] = Asked(m, d)]
  BY <1>1 DEF Write
<1>14. row'[w.id] \in Row /\ meant'[w.id] \in Row
  BY <1>2, <1>5, <1>12, <1>13 DEF CataloguesTypeOK
<1>15. \A i \in Ids \ {w.id} : row'[i] = row[i] /\ meant'[i] = meant[i]
  BY <1>2, <1>13 DEF CataloguesTypeOK
<1>16. row' = [i \in Ids |-> row'[i]] /\ meant' = [i \in Ids |-> meant'[i]]
  BY <1>2, <1>13 DEF CataloguesTypeOK
<1> QED  BY <1>2, <1>14, <1>15, <1>16 DEF w

LEMMA ImagesStep == ImagesInv /\ [CataloguesNext]_catalogueVars => ImagesInv'
<1> SUFFICES ASSUME ImagesInv, [CataloguesNext]_catalogueVars, kind' = "image"
             PROVE  /\ CataloguesTypeOK'
                    /\ \A q \in Forms : form'[q].op = "update" => form'[q].body \in Edits
  BY DEF ImagesInv
<1>1. kind' = kind
  BY DEF catalogueVars, CataloguesNext, CreatePastry, CreateCollection, CreateTier,
     CreateTestimonial, Create, Begin, UpdatePastry, UpdateCollection, UpdateTier,
     UpdateTestimonial, Update, DeletePastry, DeleteCollection, DeleteTier, DeleteTestimonial,
     UpsertImage, UpsertSetting, RemoveImage, RemoveSetting, RemoveRow, EditEnds, CountRows,
     SeedPastries, SeedCollections, SeedTiers, InsertSeeds, OrderCollection
<1>2. /\ CataloguesTypeOK
      /\ \A q \in Forms : form[q].op = "update" => form[q].body \in Edits
  BY <1>1 DEF ImagesInv
<1>3. \/ \E q \in Forms, i \in Ids :
           Begin(q, "delete", i, None) \/ \E d \in Edits : Begin(q, "update", i, d)
      \/ \E q \in Forms : UpsertImage(q) \/ RemoveImage(q) \/ EditEnds(q)
      \/ UNCHANGED catalogueVars
  BY <1>1 DEF CataloguesNext, CreatePastry, CreateCollection, CreateTier, CreateTestimonial,
     UpdatePastry, UpdateCollection, UpdateTier, UpdateTestimonial, DeletePastry,
     DeleteCollection, DeleteTier, DeleteTestimonial, UpsertSetting, RemoveSetting, CountRows,
     SeedPastries, SeedCollections, SeedTiers, OrderCollection, listPublishedCollections
<1>4. ASSUME NEW q \in Forms, NEW w \in Form \cup {NoForm}, w.op = "update" => w.body \in Edits,
             form' = [form EXCEPT ![q] = w]
      PROVE  /\ form' \in [Forms -> Form \cup {NoForm}]
             /\ \A p \in Forms : form'[p].op = "update" => form'[p].body \in Edits
  BY <1>2, <1>4 DEF CataloguesTypeOK
<1>5. NoForm.op # "update"
  BY DEF NoForm
<1>6. ASSUME NEW q \in Forms, NEW i \in Ids, NEW op \in {"update", "delete"},
             NEW d \in Edits \cup {None}, Begin(q, op, i, d), op = "update" => d \in Edits
      PROVE  /\ CataloguesTypeOK'
             /\ \A p \in Forms : form'[p].op = "update" => form'[p].body \in Edits
  <2> DEFINE w == [op |-> op, id |-> i, body |-> d, before |-> row[i]]
  <2>1. form' = [form EXCEPT ![q] = w] /\ UNCHANGED <<kind, row, ordered, instance, meant>>
    BY <1>6 DEF Begin
  <2>2. w \in Form /\ (w.op = "update" => w.body \in Edits)
    BY <1>2, <1>6 DEF CataloguesTypeOK, Form
  <2> HIDE DEF w
  <2> QED  BY <1>2, <1>4, <2>1, <2>2 DEF CataloguesTypeOK
<1>7. ASSUME NEW q \in Forms, UpsertImage(q)
      PROVE  /\ CataloguesTypeOK'
             /\ \A p \in Forms : form'[p].op = "update" => form'[p].body \in Edits
  <2>1. form' = [form EXCEPT ![q] = NoForm] /\ UNCHANGED <<kind, ordered, instance>>
    BY <1>7 DEF UpsertImage
  <2>2. \A i \in Ids : row'[i] \in Row \cup {NoRow} /\ meant'[i] \in Row \cup {NoRow}
    BY <1>2, <1>7, UpsertedRow DEF CataloguesTypeOK
  <2>3. row' = [i \in Ids |-> row'[i]] /\ meant' = [i \in Ids |-> meant'[i]]
    BY <1>7, UpsertedRow
  <2>4. row' \in [Ids -> Row \cup {NoRow}] /\ meant' \in [Ids -> Row \cup {NoRow}]
    BY <2>2, <2>3
  <2> QED  BY <1>2, <1>4, <1>5, <2>1, <2>4 DEF CataloguesTypeOK
<1>8. ASSUME NEW q \in Forms, RemoveImage(q)
      PROVE  /\ CataloguesTypeOK'
             /\ \A p \in Forms : form'[p].op = "update" => form'[p].body \in Edits
  <2>1. /\ form' = [form EXCEPT ![q] = NoForm] /\ UNCHANGED <<kind, ordered, instance>>
        /\ row' = [row EXCEPT ![form[q].id] = NoRow] /\ meant' = [meant EXCEPT ![form[q].id] = NoRow]
    BY <1>8 DEF RemoveImage, RemoveRow, Write
  <2> QED  BY <1>2, <1>4, <1>5, <2>1 DEF CataloguesTypeOK
<1>9. ASSUME NEW q \in Forms, EditEnds(q)
      PROVE  /\ CataloguesTypeOK'
             /\ \A p \in Forms : form'[p].op = "update" => form'[p].body \in Edits
  BY <1>2, <1>4, <1>5, <1>9 DEF EditEnds, CataloguesTypeOK
<1>10. CASE UNCHANGED catalogueVars
  BY <1>2, <1>10 DEF catalogueVars, CataloguesTypeOK
<1>11. ASSUME NEW q \in Forms, NEW i \in Ids,
              Begin(q, "delete", i, None) \/ \E d \in Edits : Begin(q, "update", i, d)
       PROVE  /\ CataloguesTypeOK'
              /\ \A p \in Forms : form'[p].op = "update" => form'[p].body \in Edits
  <2>1. CASE Begin(q, "delete", i, None)
    BY <1>6, <2>1
  <2>2. ASSUME NEW d \in Edits, Begin(q, "update", i, d)
        PROVE  /\ CataloguesTypeOK'
               /\ \A p \in Forms : form'[p].op = "update" => form'[p].body \in Edits
    BY <1>6, <2>2
  <2> QED  BY <1>11, <2>1, <2>2
<1> QED  BY <1>3, <1>7, <1>8, <1>9, <1>10, <1>11

-----------------------------------------------------------------------------
(* Mail jobs *)


\* What a run is about to do: it handles a user's birthday, and will mail a
\* code that is the user's and outlives the day.
RunsKnowTheirEntry ==
  \A r \in Runs :
    /\ run[r].day <= today
    /\ run[r].job = "birthday" => run[r].todo \subseteq Users
    /\ run[r].step \in {"issue", "create"} => run[r].entry \in Users
    /\ run[r].step \in {"send", "mark"} => run[r].entry \in Entries /\ run[r].job \in Jobs
    /\ run[r].step = "send" /\ run[r].job = "birthday" =>
         /\ run[r].code \in Codes
         /\ code[run[r].code].user = run[r].entry
         /\ code[run[r].code].until > run[r].day

Handles(r, u) == run[r].entry = u /\ run[r].step \in {"issue", "create"}

\* A user no two runs handled at a time: one run that is about to create a
\* code has found none, so there is never a second.
OneCodeEach ==
  \A u \in Users \ contended :
    /\ \A r, q \in Runs : Handles(r, u) /\ Handles(q, u) => r = q
    /\ \A r \in Runs, c \in Codes : Handles(r, u) /\ run[r].step = "create" => ~Reusable(c, u)
    /\ \A c, d \in Codes : Reusable(c, u) /\ Reusable(d, u) => c = d

MailedCodesAreOwn ==
  \A m \in mailed :
    m.job = "birthday" =>
      m.code \in Codes /\ code[m.code].user = m.entry /\ code[m.code].until > m.day

MailJobsInv == TypeOK /\ RunsKnowTheirEntry /\ OneCodeEach /\ MailedCodesAreOwn

LEMMA JobFields ==
  ASSUME TypeOK
  PROVE  /\ today \in Nat
         /\ \A c \in Codes :
              /\ code[c] = NoCode \/ code[c] \in CodeRow
              /\ code[c].until \in Nat /\ code[c].user \in Users \cup {None}
              /\ code[c] = NoCode <=> code[c].user = None
         /\ \A r \in Runs :
              /\ run[r] = NoRun \/ run[r] \in Run
              /\ run[r].day \in Nat /\ run[r].day \in Days
              /\ run[r].todo \in SUBSET Entries /\ run[r].entry \in Entries \cup {None}
              /\ run[r] = NoRun => run[r].step = "next" /\ run[r].job = "none"
              /\ run[r].step # "next" => run[r] # NoRun
<1>1. today \in Nat /\ 0 \in Days /\ \A d \in Days : d \in Nat
  BY MailJobsAssumption DEF TypeOK, Days
<1>2. ASSUME NEW c \in Codes
      PROVE  /\ code[c] = NoCode \/ code[c] \in CodeRow
             /\ code[c].until \in Nat /\ code[c].user \in Users \cup {None}
             /\ code[c] = NoCode <=> code[c].user = None
  <2>1. code[c] = NoCode \/ code[c] \in CodeRow
    BY DEF TypeOK
  <2> QED  BY <2>1, MailJobsAssumption DEF NoCode, CodeRow
<1>3. ASSUME NEW r \in Runs
      PROVE  /\ run[r] = NoRun \/ run[r] \in Run
             /\ run[r].day \in Nat /\ run[r].day \in Days
             /\ run[r].todo \in SUBSET Entries /\ run[r].entry \in Entries \cup {None}
             /\ run[r] = NoRun => run[r].step = "next" /\ run[r].job = "none"
             /\ run[r].step # "next" => run[r] # NoRun
  <2>1. run[r] = NoRun \/ run[r] \in Run
    BY DEF TypeOK
  <2>2. /\ NoRun.day = 0 /\ NoRun.todo = {} /\ NoRun.entry = None
        /\ NoRun.step = "next" /\ NoRun.job = "none"
    BY DEF NoRun
  <2>3. CASE run[r] = NoRun
    BY <1>1, <2>2, <2>3
  <2>4. CASE run[r] \in Run
    BY <1>1, <2>2, <2>4 DEF Run
  <2> QED  BY <2>1, <2>3, <2>4
<1> QED  BY <1>1, <1>2, <1>3

LEMMA JobsInitial == Init => MailJobsInv
<1> SUFFICES ASSUME Init PROVE MailJobsInv
  OBVIOUS
<1>1. TypeOK
  BY MailJobsAssumption DEF Init, TypeOK, Days
<1>2. \A c \in Codes, u \in Users : ~Reusable(c, u)
  BY MailJobsAssumption DEF Init, Reusable, NoCode
<1>3. \A r \in Runs : run[r] = NoRun
  BY DEF Init
<1>4. NoRun.day = 0 /\ NoRun.job = "none" /\ NoRun.step = "next"
  BY DEF NoRun
<1> QED
  BY <1>1, <1>2, <1>3, <1>4 DEF Init, MailJobsInv, RunsKnowTheirEntry, OneCodeEach, MailedCodesAreOwn, Handles

-----------------------------------------------------------------------------
\* A step that changes no run: a code is worth less, if anything.
LEMMA WorldKeepsInv ==
  ASSUME MailJobsInv, TypeOK', UNCHANGED <<run, mailed, contended>>, today <= today',
         \A c \in Codes : code'[c].user = code[c].user /\ code'[c].until = code[c].until,
         \A c \in Codes : code[c].redeemed => code'[c].redeemed
  PROVE  MailJobsInv'
<1> USE DEF MailJobsInv
<1>1. \A c \in Codes, u \in Users : Reusable(c, u)' => Reusable(c, u)
  BY JobFields DEF Reusable, TypeOK, Days
<1>2. RunsKnowTheirEntry'
  <2>1. today' \in Nat /\ \A r \in Runs : run[r].day \in Nat
    BY MailJobsAssumption, JobFields DEF TypeOK, Days
  <2> QED  BY <2>1, JobFields DEF RunsKnowTheirEntry
<1>3. OneCodeEach'
  BY <1>1 DEF OneCodeEach, Handles
<1>4. MailedCodesAreOwn'
  BY DEF MailedCodesAreOwn
<1> QED  BY <1>2, <1>3, <1>4

\* A step of one run that changes no code: the run handles whom it handled,
\* or a user no other run handles, or one who is noted.
LEMMA RunKeepsInv ==
  ASSUME MailJobsInv, NEW r \in Runs, NEW w \in Run \cup {NoRun}, run' = [run EXCEPT ![r] = w],
         TypeOK', UNCHANGED <<today, code, mailed>>, contended \subseteq contended',
         w.day <= today, w.job = "birthday" => w.todo \subseteq Users,
         w.step \in {"issue", "create"} =>
           /\ w.entry \in Users
           /\ \/ Handles(r, w.entry)
              \/ w.entry \in contended'
              \/ \A q \in Runs \ {r} : ~Handles(q, w.entry),
         w.step = "create" => \A c \in Codes : ~Reusable(c, w.entry),
         w.step \in {"send", "mark"} => w.entry \in Entries /\ w.job \in Jobs,
         w.step = "send" /\ w.job = "birthday" =>
           w.code \in Codes /\ code[w.code].user = w.entry /\ code[w.code].until > w.day
  PROVE  MailJobsInv'
<1> USE DEF MailJobsInv
<1>1. run'[r] = w /\ \A q \in Runs \ {r} : run'[q] = run[q]
  BY DEF TypeOK
<1>2. RunsKnowTheirEntry'
  BY <1>1 DEF RunsKnowTheirEntry
<1>3. \A c \in Codes, u \in Users : Reusable(c, u)' <=> Reusable(c, u)
  BY DEF Reusable
<1>4. OneCodeEach'
  BY <1>1, <1>3 DEF OneCodeEach, Handles
<1>5. MailedCodesAreOwn'
  BY DEF MailedCodesAreOwn
<1> QED  BY <1>2, <1>4, <1>5

LEMMA WorldStep ==
  ASSUME MailJobsInv, World PROVE MailJobsInv'
<1> USE DEF MailJobsInv
<1>1. UNCHANGED <<run, mailed, contended>>
  BY DEF World, Midnight, Verify, CreditIdles, SetBirthday, Accrue, Redeem
<1>2. /\ today <= today'
      /\ \A c \in Codes : code'[c].user = code[c].user /\ code'[c].until = code[c].until
      /\ \A c \in Codes : code[c].redeemed => code'[c].redeemed
      /\ TypeOK'
  <2>1. CASE Midnight
    <3>1. today \in Nat /\ today' = today + 1 /\ today' \in Days
      BY <2>1, JobFields, MailJobsAssumption DEF Midnight, TypeOK, Days
    <3> QED  BY <2>1, <3>1 DEF Midnight, TypeOK
  <2>2. ASSUME NEW u \in Users,
               \/ Verify(u) \/ CreditIdles(u)
               \/ \E d \in Days \cup {None} : SetBirthday(u, d)
        PROVE  UNCHANGED <<today, code>> /\ TypeOK'
    BY <2>2 DEF Verify, CreditIdles, SetBirthday, TypeOK
  <2>3. ASSUME NEW a \in Accruals, NEW until \in 1..(Horizon + NoticeDays), Accrue(a, until)
        PROVE  UNCHANGED <<today, code>> /\ TypeOK'
    <3>1. until \in Nat
      BY MailJobsAssumption
    <3> QED  BY <2>3, <3>1 DEF Accrue, TypeOK
  <2>4. ASSUME NEW c \in Codes, Redeem(c)
        PROVE  /\ today' = today /\ TypeOK'
               /\ \A d \in Codes : code'[d].user = code[d].user /\ code'[d].until = code[d].until
               /\ \A d \in Codes : code[d].redeemed => code'[d].redeemed
    <3>1. /\ code[c] # NoCode /\ code' = [code EXCEPT ![c].redeemed = TRUE]
          /\ UNCHANGED <<today, birthday, verified, idle, expires, run, marker, mailed, again,
                         contended>>
      BY <2>4 DEF Redeem
    <3>2. code[c] \in CodeRow
      BY <3>1, JobFields
    <3>3. [code[c] EXCEPT !.redeemed = TRUE] \in CodeRow
      BY <3>2 DEF CodeRow
    <3>4. TypeOK'
      BY <3>1, <3>3 DEF TypeOK
    <3>5. /\ code'[c].user = code[c].user /\ code'[c].until = code[c].until /\ code'[c].redeemed
          /\ \A d \in Codes \ {c} : code'[d] = code[d]
      BY <3>1, <3>2 DEF TypeOK, CodeRow
    <3> QED  BY <3>1, <3>4, <3>5
  <2>5. today <= today
    BY JobFields
  <2> QED  BY <2>1, <2>2, <2>3, <2>4, <2>5 DEF World, Midnight
<1> QED  BY <1>1, <1>2, WorldKeepsInv

\* One step of a run.
LEMMA JobStep ==
  ASSUME MailJobsInv, NEW r \in Runs, Job(r) PROVE MailJobsInv'
<1> USE DEF MailJobsInv
<1>1. ASSUME NEW job \in Jobs, StartRun(r, job) PROVE MailJobsInv'
  <2> DEFINE v == [NoRun EXCEPT !.job = job, !.day = today, !.todo = Due(job, today)]
  <2>1. run' = [run EXCEPT ![r] = v]
    BY <1>1 DEF StartRun
  <2>2. Due(job, today) \subseteq Entries /\ (job = "birthday" => Due(job, today) \subseteq Users)
    BY DEF Due, Entries, TypeOK
  <2>3. /\ v.job = job /\ v.day = today /\ v.todo = Due(job, today) /\ v.step = "next"
        /\ v \in Run
    BY <2>2 DEF NoRun, Run, TypeOK
  <2> HIDE DEF v
  <2>4. TypeOK'
    BY <1>1, <2>1, <2>3 DEF StartRun, TypeOK
  <2>5. today <= today
    BY JobFields
  <2>6. UNCHANGED <<today, code, mailed, contended>>
    BY <1>1 DEF StartRun
  <2> QED  BY <2>1, <2>2, <2>3, <2>4, <2>5, <2>6, RunKeepsInv
<1>2. ASSUME NEW e \in Entries, Take(r, e) PROVE MailJobsInv'
  <2> DEFINE v == TakenUp(run[r], e)
  <2>1. /\ run[r].step = "next" /\ e \in run[r].todo /\ run' = [run EXCEPT ![r] = v]
        /\ contended' = IF ~Skipped(run[r], e) /\ run[r].job = "birthday" /\ Handlers(e, r)
                         THEN contended \cup {e} ELSE contended
        /\ UNCHANGED <<today, birthday, verified, idle, expires, code, marker, mailed, again>>
    BY <1>2 DEF Take
  <2>2. run[r] \in Run /\ run[r].job \in Jobs
    BY <2>1, JobFields DEF NoRun, Run
  <2>3. /\ v \in Run /\ v.job = run[r].job /\ v.day = run[r].day /\ v.todo \subseteq run[r].todo
        /\ v.step \in {"issue", "send"} => v.entry = e
        /\ v.step \in {"next", "issue", "send"}
        /\ v.step = "issue" => ~Skipped(run[r], e) /\ run[r].job = "birthday"
        /\ v.step = "send" => run[r].job # "birthday"
    BY <2>2, <2>1 DEF Run, TakenUp
  <2>4. run[r].job = "birthday" => e \in Users
    BY <2>1 DEF RunsKnowTheirEntry
  <2>5. TypeOK'
    BY <2>1, <2>3, <2>4 DEF TypeOK
  <2>6. Handlers(e, r) \/ \A q \in Runs \ {r} : ~Handles(q, e)
    BY DEF Handlers, Handles
  <2>7. v.day <= today
    BY <2>3 DEF RunsKnowTheirEntry
  <2> HIDE DEF v
  <2>8. v.job = "birthday" => v.todo \subseteq Users
    BY <2>3 DEF RunsKnowTheirEntry
  <2> QED  BY <2>1, <2>2, <2>3, <2>4, <2>5, <2>6, <2>7, <2>8, RunKeepsInv
<1>3. ASSUME NEW c \in Codes, FindCode(r), Reusable(c, run[r].entry),
             run' = [run EXCEPT ![r].step = "send", ![r].code = c]
      PROVE  MailJobsInv'
  <2> DEFINE v == [run[r] EXCEPT !.step = "send", !.code = c]
  <2>1. /\ run[r].step = "issue" /\ run' = [run EXCEPT ![r] = v]
        /\ UNCHANGED <<today, birthday, verified, idle, expires, code, marker, mailed, again,
                       contended>>
    BY <1>3 DEF FindCode, TypeOK
  <2>2. run[r] \in Run /\ run[r].entry \in Users
    BY <2>1, JobFields DEF RunsKnowTheirEntry
  <2>3. /\ v \in Run /\ v.job = run[r].job /\ v.day = run[r].day /\ v.todo = run[r].todo
        /\ v.step = "send" /\ v.entry = run[r].entry /\ v.code = c /\ v.job \in Jobs
    BY <2>2 DEF Run
  <2>4. TypeOK'
    BY <2>1, <2>3 DEF TypeOK
  <2>5. code[c].user = run[r].entry /\ code[c].until > run[r].day
    BY <1>3, JobFields DEF Reusable, RunsKnowTheirEntry
  <2> HIDE DEF v
  <2>6. v.day <= today /\ (v.job = "birthday" => v.todo \subseteq Users) /\ v.entry \in Entries
    BY <2>2, <2>3 DEF RunsKnowTheirEntry, Entries
  <2> QED  BY <2>1, <2>3, <2>4, <2>5, <2>6, RunKeepsInv
<1>4. ASSUME FindCode(r), \A c \in Codes : ~Reusable(c, run[r].entry),
             run' = [run EXCEPT ![r].step = "create"]
      PROVE  MailJobsInv'
  <2> DEFINE v == [run[r] EXCEPT !.step = "create"]
  <2>1. /\ run[r].step = "issue" /\ run' = [run EXCEPT ![r] = v]
        /\ UNCHANGED <<today, birthday, verified, idle, expires, code, marker, mailed, again,
                       contended>>
    BY <1>4 DEF FindCode, TypeOK
  <2>2. run[r] \in Run /\ run[r].entry \in Users
    BY <2>1, JobFields DEF RunsKnowTheirEntry
  <2>3. /\ v \in Run /\ v.job = run[r].job /\ v.day = run[r].day /\ v.todo = run[r].todo
        /\ v.step = "create" /\ v.entry = run[r].entry
    BY <2>2 DEF Run
  <2>4. TypeOK'
    BY <2>1, <2>3 DEF TypeOK
  <2>5. Handles(r, v.entry)
    BY <2>1, <2>3 DEF Handles
  <2> HIDE DEF v
  <2>6. v.day <= today /\ (v.job = "birthday" => v.todo \subseteq Users)
    BY <2>3 DEF RunsKnowTheirEntry
  <2> QED  BY <1>4, <2>1, <2>2, <2>3, <2>4, <2>5, <2>6, RunKeepsInv
<1>5. ASSUME EntryFails(r) \/ EndRun(r) PROVE MailJobsInv'
  <2>1. PICK u \in {NoRun, [run[r] EXCEPT !.step = "next", !.entry = None, !.code = None]} :
          /\ run' = [run EXCEPT ![r] = u]
          /\ run[r] # NoRun
    BY <1>5, JobFields DEF EntryFails, EndRun, TypeOK
  <2>2. UNCHANGED <<today, birthday, verified, idle, expires, code, marker, mailed, again, contended>>
    BY <1>5 DEF EntryFails, EndRun
  <2>3. run[r] \in Run
    BY <2>1, JobFields
  <2>4. /\ u \in Run \cup {NoRun} /\ u.step = "next" /\ u.day <= today
        /\ u.job = "birthday" => u.todo \subseteq Users
    <3>1. CASE u = NoRun
      BY <3>1, JobFields DEF NoRun
    <3>2. CASE u = [run[r] EXCEPT !.step = "next", !.entry = None, !.code = None]
      BY <2>3, <3>2 DEF Run, RunsKnowTheirEntry
    <3> QED  BY <3>1, <3>2
  <2>5. TypeOK'
    BY <2>1, <2>2, <2>4 DEF TypeOK
  <2> QED  BY <2>1, <2>2, <2>4, <2>5, RunKeepsInv
<1>6. ASSUME NEW c \in Codes, CreateCode(r, c) PROVE MailJobsInv'
  <2> DEFINE u == run[r].entry
             v == [run[r] EXCEPT !.step = "send", !.code = c]
  <2>1. /\ run[r].step = "create" /\ code[c] = NoCode /\ run' = [run EXCEPT ![r] = v]
        /\ code' = [code EXCEPT ![c] = Issued(u)]
        /\ UNCHANGED <<today, birthday, verified, idle, expires, marker, mailed, again,
                       contended>>
    BY <1>6 DEF CreateCode, TypeOK
  <2>2. run[r] \in Run /\ u \in Users /\ u # None /\ today \in Nat /\ code[c].user = None
    BY <2>1, JobFields, MailJobsAssumption DEF RunsKnowTheirEntry
  <2>3. /\ v \in Run /\ v.job = run[r].job /\ v.day = run[r].day /\ v.todo = run[r].todo
        /\ v.step = "send" /\ v.entry = u /\ v.code = c /\ v.job \in Jobs
    BY <2>2 DEF Run
  <2>4. Issued(u) \in CodeRow /\ Issued(u).user = u /\ Issued(u).until > today
    BY <2>2, MailJobsAssumption DEF Issued, CodeRow
  <2>5. TypeOK'
    BY <2>1, <2>3, <2>4 DEF TypeOK
  <2>6. code'[c] = Issued(u) /\ \A d \in Codes \ {c} : code'[d] = code[d]
    BY <2>1 DEF TypeOK
  <2>7. run'[r] = v /\ \A q \in Runs \ {r} : run'[q] = run[q]
    BY <2>1 DEF TypeOK
  <2> HIDE DEF u, v
  <2>8. ASSUME NEW x \in Users, NEW d \in Codes, Reusable(d, x)'
        PROVE  Reusable(d, x) \/ (d = c /\ x = u)
    <3>1. today' = today
      BY <2>1
    <3>2. CASE d = c
      BY <2>4, <2>6, <2>8, <3>2 DEF Reusable
    <3>3. CASE d # c
      BY <2>6, <2>8, <3>1, <3>3 DEF Reusable
    <3> QED  BY <3>2, <3>3
  <2>9. RunsKnowTheirEntry'
    <3>1. ASSUME NEW q \in Runs, run[q].step = "send", run[q].job = "birthday"
          PROVE  run[q].code \in Codes \ {c}
      <4>1. run[q].entry # None
        BY <3>1, MailJobsAssumption DEF RunsKnowTheirEntry, Entries
      <4> QED  BY <2>2, <3>1, <4>1 DEF RunsKnowTheirEntry
    <3>2. v.day <= today /\ (v.job = "birthday" => v.todo \subseteq Users) /\ v.day \in Nat
      BY <2>3, JobFields DEF RunsKnowTheirEntry
    <3>3. Issued(u).until > v.day /\ u \in Entries
      <4>1. Issued(u).until \in Nat
        BY <2>4 DEF CodeRow
      <4> QED  BY <2>2, <2>4, <3>2, <4>1 DEF Entries
    <3> QED  BY <2>1, <2>3, <2>4, <2>6, <2>7, <3>1, <3>2, <3>3 DEF RunsKnowTheirEntry
  <2>10. OneCodeEach'
    <3>1. \A q \in Runs, x \in Users : Handles(q, x)' => Handles(q, x) /\ q # r
      BY <2>3, <2>7 DEF Handles
    <3>2. Handles(r, u)
      BY <2>1 DEF Handles, u
    <3> SUFFICES ASSUME NEW x \in Users \ contended
                 PROVE  /\ \A p, q \in Runs : Handles(p, x)' /\ Handles(q, x)' => p = q
                        /\ \A q \in Runs, d \in Codes :
                             Handles(q, x)' /\ run'[q].step = "create" => ~Reusable(d, x)'
                        /\ \A d, e \in Codes : Reusable(d, x)' /\ Reusable(e, x)' => d = e
      BY <2>1 DEF OneCodeEach
    <3>3. CASE x = u
      <4>1. \A q \in Runs : ~Handles(q, x)'
        BY <3>1, <3>2, <3>3 DEF OneCodeEach
      <4>2. \A d \in Codes : ~Reusable(d, x)
        BY <2>1, <3>2, <3>3 DEF OneCodeEach
      <4> QED  BY <2>8, <4>1, <4>2
    <3>4. CASE x # u
      BY <2>7, <2>8, <3>1, <3>4 DEF OneCodeEach
    <3> QED  BY <3>3, <3>4
  <2>11. MailedCodesAreOwn'
    <3>1. \A m \in mailed : m.job = "birthday" => m.entry # None
      BY MailJobsAssumption DEF TypeOK, Mail, Entries
    <3> QED  BY <2>1, <2>2, <2>6, <3>1 DEF MailedCodesAreOwn
  <2> QED  BY <2>5, <2>9, <2>10, <2>11
<1>7. ASSUME Send(r) PROVE MailJobsInv'
  <2> DEFINE v == [run[r] EXCEPT !.step = "mark"]
             mail == [job |-> run[r].job, entry |-> run[r].entry, day |-> run[r].day,
                      code |-> run[r].code]
  <2>1. /\ run[r].step = "send" /\ run' = [run EXCEPT ![r] = v]
        /\ mailed' = mailed \cup {mail}
        /\ again' \subseteq again \cup {Key(run[r].job, run[r].entry, run[r].day)}
        /\ UNCHANGED <<today, birthday, verified, idle, expires, code, marker, contended>>
    BY <1>7 DEF Send, TypeOK
  <2>2. run[r] \in Run /\ run[r].entry \in Entries /\ run[r].job \in Jobs
    BY <2>1, JobFields DEF RunsKnowTheirEntry
  <2>3. /\ v \in Run /\ v.job = run[r].job /\ v.day = run[r].day /\ v.todo = run[r].todo
        /\ v.step = "mark" /\ v.entry = run[r].entry
    BY <2>2 DEF Run
  <2>4. mail \in Mail
    BY <2>2 DEF Run, Mail
  <2>5. Key(run[r].job, run[r].entry, run[r].day)[1] \in Jobs
        /\ Key(run[r].job, run[r].entry, run[r].day)[2] \in Entries
    BY <2>2 DEF Key
  <2>6. TypeOK'
    BY <2>1, <2>3, <2>4, <2>5 DEF TypeOK
  <2>7. run'[r] = v /\ \A q \in Runs \ {r} : run'[q] = run[q]
    BY <2>1 DEF TypeOK
  <2> HIDE DEF v
  <2>8. RunsKnowTheirEntry'
    BY <2>1, <2>2, <2>3, <2>7 DEF RunsKnowTheirEntry
  <2>9. OneCodeEach'
    <3>1. \A x \in Users, d \in Codes : Reusable(d, x)' <=> Reusable(d, x)
      BY <2>1 DEF Reusable
    <3> QED  BY <2>1, <2>3, <2>7, <3>1 DEF OneCodeEach, Handles
  <2>10. MailedCodesAreOwn'
    BY <2>1, <2>2 DEF MailedCodesAreOwn, RunsKnowTheirEntry
  <2> QED  BY <2>6, <2>8, <2>9, <2>10
<1>8. ASSUME Mark(r) PROVE MailJobsInv'
  <2> DEFINE v == [run[r] EXCEPT !.step = "next", !.entry = None, !.code = None]
  <2>1. /\ run[r].step = "mark" /\ run' = [run EXCEPT ![r] = v]
        /\ marker' \subseteq marker \cup {Key(run[r].job, run[r].entry, run[r].day)}
        /\ UNCHANGED <<today, birthday, verified, idle, expires, code, mailed, again, contended>>
    BY <1>8 DEF Mark, TypeOK
  <2>2. run[r] \in Run /\ run[r].entry \in Entries /\ run[r].job \in Jobs
    BY <2>1, JobFields DEF RunsKnowTheirEntry
  <2>3. v \in Run /\ v.job = run[r].job /\ v.day = run[r].day /\ v.todo = run[r].todo /\ v.step = "next"
    BY <2>2 DEF Run
  <2>4. Key(run[r].job, run[r].entry, run[r].day)[1] \in Jobs
        /\ Key(run[r].job, run[r].entry, run[r].day)[2] \in Entries
    BY <2>2 DEF Key
  <2>5. TypeOK'
    BY <2>1, <2>3, <2>4 DEF TypeOK
  <2> HIDE DEF v
  <2>6. v.day <= today /\ (v.job = "birthday" => v.todo \subseteq Users)
    BY <2>3 DEF RunsKnowTheirEntry
  <2> QED  BY <2>1, <2>3, <2>5, <2>6, RunKeepsInv
<1>9. CASE FindCode(r)
  BY <1>3, <1>4, <1>9 DEF FindCode
<1> QED  BY <1>1, <1>2, <1>5, <1>6, <1>7, <1>8, <1>9 DEF Job

LEMMA JobsStep == MailJobsInv /\ [Next]_vars => MailJobsInv'
<1> SUFFICES ASSUME MailJobsInv, [Next]_vars PROVE MailJobsInv'
  OBVIOUS
<1>1. CASE World
  BY <1>1, WorldStep
<1>2. CASE \E r \in Runs : Job(r)
  BY <1>2, JobStep
<1>3. CASE UNCHANGED vars
  <2>1. \A u \in Users, c \in Codes : Reusable(c, u)' <=> Reusable(c, u)
    BY <1>3 DEF vars, Reusable
  <2> QED
    BY <1>3, <2>1 DEF MailJobsInv, vars, TypeOK, RunsKnowTheirEntry, OneCodeEach, MailedCodesAreOwn, Handles
<1> QED  BY <1>1, <1>2, <1>3 DEF Next

LEMMA InvHasOneCode == MailJobsInv => OneCodeToSpend
<1> SUFFICES ASSUME MailJobsInv PROVE OneCodeToSpend
  OBVIOUS
<1> USE DEF MailJobsInv
<1>1. ASSUME NEW c \in Codes, NEW d \in Codes, c # d,
             Reusable(c, code[c].user), Reusable(d, code[c].user)
      PROVE  code[c].user \in contended
  <2>1. code[c] # NoCode
    <3>1. today \in Nat /\ NoCode.until = 0
      BY JobFields DEF NoCode
    <3> QED  BY <1>1, <3>1 DEF Reusable
  <2>2. code[c].user \in Users
    BY <2>1, JobFields
  <2> QED  BY <1>1, <2>2 DEF OneCodeEach
<1> QED  BY <1>1 DEF OneCodeToSpend, MailedCodesAreOwn

\* A user two runs never handled at a time has one birthday code to spend,
\* and the code in a mail is the recipient's and outlives the day of the
\* mail: issueBirthdayCode, for any number of users, codes, runs and days.
THEOREM OneCodeAtATime == Spec => []OneCodeToSpend
<1>1. Init => MailJobsInv
  BY JobsInitial
<1>2. MailJobsInv /\ [Next]_vars => MailJobsInv'
  BY JobsStep
<1>3. MailJobsInv => OneCodeToSpend
  BY InvHasOneCode
<1> QED  BY <1>1, <1>2, <1>3, PTL DEF Spec

(***************************************************************************)
(* The mail jobs are type correct, whatever runs overlap: a code, a marker *)
(* and a mail are of the entry and the day of a run, and the values read   *)
(* from the rows stay ones of their columns.                               *)
(***************************************************************************)
THEOREM JobsAreTyped == Spec => []TypeOK
<1>1. MailJobsInv => TypeOK
  BY DEF MailJobsInv
<1> QED  BY <1>1, JobsInitial, JobsStep, PTL DEF Spec

-----------------------------------------------------------------------------
(* Delivery zones *)

ActiveSet == {z \in Zones : zone[z].active}

\* The list s has the zones S in order.
Lists(s, S) ==
  /\ s \in [1 .. Cardinality(S) -> S]
  /\ \A j, k \in 1 .. Cardinality(S) : j < k => Precedes(s[j], s[k])

\* What the resolver reads of an active zone is typed; a missing one is not
\* active.
LEMMA ZoneFields ==
  ASSUME ShippingTypeOK
  PROVE  \A z \in ActiveSet : /\ z \in Nat /\ zone[z].position \in Nat
                              /\ zone[z].freeOver \in Nat \cup {None} /\ zone[z].fee \in Nat
<1>1. \A r \in Zone : /\ r.position \in Nat /\ r.freeOver \in Nat \cup {None}
                        /\ r.fee \in Nat
  BY ShippingAssumption DEF Zone
<1>2. ~NoZone.active
  BY DEF NoZone
<1> QED  BY <1>1, <1>2, ShippingAssumption DEF ShippingTypeOK, ActiveSet

\* Position, then name, is a strict total order of the zones.
LEMMA InOrder ==
  ASSUME ShippingTypeOK
  PROVE  \A x, y, z \in ActiveSet :
           /\ ~Precedes(x, x)
           /\ x # y => Precedes(x, y) \/ Precedes(y, x)
           /\ Precedes(x, y) /\ Precedes(y, z) => Precedes(x, z)
BY ZoneFields DEF Precedes

\* Some zone comes last.
LEMMA LastZone ==
  ASSUME ShippingTypeOK, NEW S \in SUBSET ActiveSet, S # {}
  PROVE  \E m \in S : \A z \in S : z # m => Precedes(z, m)
<1> DEFINE Topped(T) == \E m \in T : \A z \in T : z # m => Precedes(z, m)
           C == {T \in SUBSET S : T # {} /\ ~Topped(T)}
<1>0. IsFiniteSet(S)
  BY ShippingAssumption, FS_Subset DEF ActiveSet
<1>1. ASSUME C # {}
      PROVE  FALSE
  <2>1. PICK T \in C : \A t \in SUBSET T : t # T => t \notin C
    <3> HIDE DEF C
    <3>1. C \in SUBSET SUBSET S
      BY DEF C
    <3> QED  BY <1>0, <1>1, <3>1, SmallestSubset
  <2>2. PICK x \in T : TRUE
    OBVIOUS
  <2> DEFINE R == T \ {x}
  <2>3. CASE R = {}
    <3>1. Topped(T)
      BY <2>3
    <3> QED  BY <3>1
  <2>4. CASE R # {}
    <3>1. Topped(R)
      BY <2>1, <2>4
    <3>2. PICK m \in R : \A z \in R : z # m => Precedes(z, m)
      BY <3>1
    <3>3. T \in SUBSET ActiveSet /\ x \in ActiveSet /\ m \in ActiveSet /\ x # m
      OBVIOUS
    <3>4. CASE Precedes(x, m)
      <4>1. Topped(T)
        BY <3>2, <3>4
      <4> QED  BY <4>1
    <3>5. CASE Precedes(m, x)
      <4>1. \A z \in T : z # x => Precedes(z, x)
        BY <3>2, <3>3, <3>5, InOrder
      <4>2. Topped(T)
        BY <4>1
      <4> QED  BY <4>2
    <3> QED  BY <3>3, <3>4, <3>5, InOrder
  <2> QED  BY <2>3, <2>4
<1>2. S \notin C
  BY <1>1
<1> QED  BY <1>2

\* Zones can be listed in order.
LEMMA ZonesList ==
  ASSUME ShippingTypeOK, NEW S \in SUBSET ActiveSet
  PROVE  \E s : Lists(s, S)
<1> DEFINE C == {T \in SUBSET S : ~ \E s : Lists(s, T)}
<1>0. IsFiniteSet(S)
  BY ShippingAssumption, FS_Subset DEF ActiveSet
<1>1. ASSUME C # {}
      PROVE  FALSE
  <2>1. PICK T \in C : \A t \in SUBSET T : t # T => t \notin C
    <3> HIDE DEF C
    <3>1. C \in SUBSET SUBSET S
      BY DEF C
    <3> QED  BY <1>0, <1>1, <3>1, SmallestSubset
  <2>2. T \in SUBSET ActiveSet /\ IsFiniteSet(T) /\ ~ \E s : Lists(s, T)
    BY <1>0, FS_Subset
  <2>3. CASE T = {}
    <3> DEFINE s == [k \in 1 .. 0 |-> 0]
    <3>1. Cardinality(T) = 0
      BY <2>3, FS_EmptySet
    <3>2. Lists(s, T)
      BY <2>3, <3>1 DEF Lists
    <3> QED  BY <2>2, <3>2
  <2>4. CASE T # {}
    <3>1. PICK m \in T : \A z \in T : z # m => Precedes(z, m)
      BY <2>2, <2>4, LastZone
    <3> DEFINE R == T \ {m}
               n == Cardinality(R)
    <3>2. \E s : Lists(s, R)
      BY <2>1
    <3>3. PICK s : Lists(s, R)
      BY <3>2
    <3>4. n \in Nat /\ Cardinality(T) = n + 1
      <4>1. IsFiniteSet(R) /\ n = Cardinality(T) - 1
        BY <2>2, FS_RemoveElement
      <4> QED  BY <2>2, <4>1, FS_CardinalityType
    <3> DEFINE q == [k \in 1 .. n + 1 |-> IF k = n + 1 THEN m ELSE s[k]]
    <3>5. s \in [1 .. n -> R] /\ \A j, k \in 1 .. n : j < k => Precedes(s[j], s[k])
      BY <3>3 DEF Lists
    <3> HIDE DEF n
    <3>6. q \in [1 .. n + 1 -> T]
      BY <3>4, <3>5
    <3>7. ASSUME NEW j \in 1 .. n + 1, NEW k \in 1 .. n + 1, j < k
          PROVE  Precedes(q[j], q[k])
      <4>1. j \in 1 .. n /\ q[j] = s[j] /\ s[j] \in R
        BY <3>4, <3>5, <3>7
      <4>2. CASE k = n + 1
        BY <3>1, <4>1, <4>2
      <4>3. CASE k # n + 1
        BY <3>4, <3>5, <3>7, <4>1, <4>3
      <4> QED  BY <4>2, <4>3
    <3> HIDE DEF q
    <3>8. Lists(q, T)
      BY <3>4, <3>6, <3>7 DEF Lists
    <3> QED  BY <2>2, <3>8
  <2> QED  BY <2>3, <2>4
<1>2. S \notin C
  BY <1>1
<1> QED  BY <1>2

\* The list the resolver reads has every active zone, in order.
LEMMA ActiveZonesListed ==
  ASSUME ShippingTypeOK
  PROVE  /\ DOMAIN ActiveZones \in SUBSET Nat
         /\ \A k \in DOMAIN ActiveZones : ActiveZones[k] \in ActiveSet
         /\ \A z \in ActiveSet : \E k \in DOMAIN ActiveZones : ActiveZones[k] = z
         /\ \A j, k \in DOMAIN ActiveZones : j < k => Precedes(ActiveZones[j], ActiveZones[k])
<1> DEFINE A == ActiveSet
           n == Cardinality(A)
<1>1. A \in SUBSET ActiveSet /\ IsFiniteSet(A)
  BY ShippingAssumption, FS_Subset DEF ActiveSet
<1>2. \E s : Lists(s, A)
  BY <1>1, ZonesList
<1>3. ActiveZones = CHOOSE s \in [1 .. n -> A] : \A j, k \in 1 .. n : j < k => Precedes(s[j], s[k])
  BY DEF ActiveZones, ActiveSet
<1>4. Lists(ActiveZones, A)
  <2> HIDE DEF A
  <2> QED  BY <1>2, <1>3 DEF Lists
<1> DEFINE s == ActiveZones
<1>5. s \in [1 .. n -> A] /\ \A j, k \in 1 .. n : j < k => Precedes(s[j], s[k])
  BY <1>4 DEF Lists
<1>6. n \in Nat /\ IsFiniteSet(1 .. n) /\ Cardinality(1 .. n) = n
  <2>1. n \in Nat
    BY <1>1, FS_CardinalityType
  <2> HIDE DEF n
  <2> QED  BY <2>1, FS_Interval
<1> HIDE DEF A, n, s
<1>7. s \in Injection(1 .. n, A)
  <2>1. \A j, k \in 1 .. n : j # k => s[j] # s[k]
    <3>1. \A z \in A : ~Precedes(z, z)
      BY <1>1, InOrder
    <3>2. \A j, k \in 1 .. n : j # k => j < k \/ k < j
      BY <1>6
    <3> QED  BY <1>5, <3>1, <3>2
  <2> QED  BY <1>5, <2>1 DEF Injection, IsInjective
<1>8. s \in Surjection(1 .. n, A)
  BY <1>1, <1>6, <1>7, FS_Injection DEF n
<1>9. \A z \in A : \E k \in 1 .. n : s[k] = z
  BY <1>8 DEF Surjection
<1> QED  BY <1>5, <1>6, <1>9 DEF A, s

\* A walk stops at the first zone that it may stop at.
LEMMA FirstIsLeast ==
  ASSUME NEW P \in SUBSET Nat, P # {}
  PROVE  First(P) \in P /\ \A j \in P : First(P) <= j
<1>1. PICK top \in P : TRUE
  OBVIOUS
<1> DEFINE Q == {j \in P : j <= top}
           below == [v \in Q |-> {j \in Q : j < v}]
           C == {below[v] : v \in Q}
<1>2. IsFiniteSet(Q)
  <2>1. top \in Nat
    BY <1>1
  <2>2. \A j \in Q : j \in 0 .. top
    <3>1. \A j \in Nat : j <= top => j \in 0 .. top
      BY <2>1
    <3>2. \A j \in Q : j \in Nat /\ j <= top
      OBVIOUS
    <3> HIDE DEF Q
    <3> QED  BY <3>1, <3>2
  <2>3. IsFiniteSet(0 .. top)
    BY <2>1, FS_Interval
  <2> HIDE DEF Q
  <2>4. Q \in SUBSET (0 .. top)
    BY <2>2
  <2> QED  BY <2>3, <2>4, FS_Subset
<1>3. PICK T \in C : \A t \in SUBSET T : t # T => t \notin C
  <2>1. top \in Q /\ \A v \in Q : below[v] \in SUBSET Q
    <3>1. top \in Q
      OBVIOUS
    <3> HIDE DEF Q
    <3> QED  BY <3>1
  <2> HIDE DEF Q, below
  <2>2. C \in SUBSET SUBSET Q /\ C # {}
    BY <2>1
  <2> HIDE DEF C
  <2> QED  BY <1>2, <2>2, SmallestSubset
<1>4. PICK k \in Q : T = below[k]
  OBVIOUS
<1>5. ASSUME NEW j \in Q, j < k
      PROVE  FALSE
  <2>1. Q \in SUBSET Nat
    OBVIOUS
  <2>2. \A x \in Q : x < j => x < k
    BY <1>5, <2>1
  <2>3. ~(j < j)
    BY <2>1
  <2> HIDE DEF Q
  <2>4. below[j] \in SUBSET below[k] /\ j \in below[k] /\ j \notin below[j]
    BY <1>5, <2>2, <2>3
  <2>5. below[j] \in C
    OBVIOUS
  <2> HIDE DEF below, C
  <2> QED  BY <1>3, <1>4, <2>4, <2>5
<1>6. \A j \in P : k <= j
  BY <1>5
<1> QED  BY <1>6 DEF First

\* The two walks find the zone that no other goes before.
LEMMA FeesFollow ==
  ASSUME ShippingTypeOK
  PROVE  FeeIsDefined
<1> SUFFICES ASSUME NEW input \in Postcodes, NEW total \in Totals,
                    NEW postcode, postcode = normalisePostcode(input), postcode # <<>>,
                    NEW delivers,
                    delivers = {z \in Zones : zone[z].active /\ (IsCatchAll(z) \/ Covers(z, postcode))},
                    NEW r, r = resolveFee(input, total)
             PROVE  IF delivers = {} THEN r = None
                    ELSE /\ r # None /\ r.zone \in delivers
                         /\ \A z \in delivers \ {r.zone} : Before(r.zone, z, postcode)
                         /\ r.fee = (IF r.freeOverApplied THEN 0 ELSE zone[r.zone].fee)
                         /\ r.freeOverApplied <=>
                              /\ zone[r.zone].freeOverEnabled /\ zone[r.zone].freeOver # None
                              /\ zone[r.zone].freeOver <= total
  BY DEF FeeIsDefined
<1> DEFINE s == ActiveZones
           specific == Specific(postcode)
           found == IF specific # {} THEN specific ELSE CatchAlls
           y == s[First(found)]
<1>1. /\ DOMAIN s \in SUBSET Nat
      /\ \A k \in DOMAIN s : s[k] \in ActiveSet
      /\ \A z \in ActiveSet : \E k \in DOMAIN s : s[k] = z
      /\ \A j, k \in DOMAIN s : j < k => Precedes(s[j], s[k])
  BY ActiveZonesListed
<1>2. /\ specific = {k \in DOMAIN s : Covers(s[k], postcode)}
      /\ CatchAlls = {k \in DOMAIN s : IsCatchAll(s[k])}
  BY DEF Specific, CatchAlls
<1>3. r = IF found = {} THEN None ELSE applyFreeOver(y, total)
  BY DEF resolveFee
<1>4. \A z \in Zones : IsCatchAll(z) => ~Covers(z, postcode)
  BY DEF IsCatchAll, Covers
<1> HIDE DEF s, y
<1>5. delivers = {} <=> found = {}
  BY <1>1, <1>2 DEF ActiveSet
<1>6. CASE found = {}
  BY <1>3, <1>5, <1>6
<1>7. CASE found # {}
  <2>1. found \in SUBSET DOMAIN s /\ First(found) \in found /\ \A j \in found : First(found) <= j
    <3>1. found \in SUBSET DOMAIN s /\ found \in SUBSET Nat
      BY <1>1, <1>2
    <3> HIDE DEF found
    <3> QED  BY <1>7, <3>1, FirstIsLeast
  <2>2. y \in ActiveSet /\ y \in delivers
    BY <1>1, <1>2, <2>1 DEF y, ActiveSet
  <2>3. ASSUME NEW z \in delivers, z # y
        PROVE  Before(y, z, postcode)
    <3>1. PICK k \in DOMAIN s : s[k] = z
      BY <1>1 DEF ActiveSet
    <3>2. k \in found => Precedes(y, z)
      <4>1. k \in found => First(found) < k
        BY <1>1, <2>1, <2>3, <3>1 DEF y
      <4> HIDE DEF found
      <4> QED  BY <1>1, <2>1, <3>1, <4>1 DEF y
    <3>3. CASE specific # {}
      <4>1. Covers(y, postcode)
        BY <1>2, <2>1, <3>3 DEF y
      <4>2. Covers(z, postcode) => k \in found
        BY <1>2, <3>1, <3>3
      <4> QED  BY <2>3, <3>2, <4>1, <4>2 DEF Before, Precedes
    <3>4. CASE specific = {}
      <4>1. ~Covers(y, postcode) /\ ~Covers(z, postcode)
        BY <1>1, <1>2, <2>2, <3>1, <3>4 DEF ActiveSet
      <4>2. k \in found
        BY <1>2, <3>1, <3>4, <4>1
      <4>3. Covers(y, postcode) = Covers(z, postcode)
        BY <4>1 DEF Covers
      <4> QED  BY <3>2, <4>2, <4>3 DEF Before, Precedes
    <3> QED  BY <3>3, <3>4
  <2>4. zone[y].freeOver \in Nat \cup {None} /\ total \in Nat
    BY <2>2, ZoneFields, ShippingAssumption DEF ActiveSet
  <2> HIDE DEF found
  <2> DEFINE free == zone[y].freeOverEnabled /\ zone[y].freeOver # None /\ total >= zone[y].freeOver
             fee == IF free THEN 0 ELSE zone[y].fee
  <2>5. r = [zone |-> y, fee |-> fee, freeOverApplied |-> free]
    BY <1>3, <1>7 DEF applyFreeOver
  <2>6. free \in BOOLEAN /\ fee \in Nat /\ y \in Zones
    BY <2>2, ZoneFields DEF ActiveSet
  <2>7. free <=> zone[y].freeOverEnabled /\ zone[y].freeOver # None /\ zone[y].freeOver <= total
    BY <2>4
  <2> HIDE DEF free
  <2>8. fee = IF free THEN 0 ELSE zone[y].fee
    OBVIOUS
  <2> HIDE DEF fee
  <2>9. r.zone = y /\ r.fee = fee /\ r.freeOverApplied = free
    BY <2>5
  <2>10. r # None
    BY <2>5, <2>6, ShippingAssumption
  <2> QED  BY <1>5, <1>7, <2>2, <2>3, <2>7, <2>8, <2>9, <2>10
<1> QED  BY <1>6, <1>7

LEMMA ZonesInitial == ShippingInit => ShippingTypeOK
BY DEF ShippingInit, ShippingTypeOK

LEMMA ZonesStep == ShippingTypeOK /\ [ShippingNext]_zone => ShippingTypeOK'
<1> SUFFICES ASSUME ShippingTypeOK, [ShippingNext]_zone
             PROVE  ShippingTypeOK'
  OBVIOUS
<1>1. ASSUME NEW z \in Zones, NEW r \in Zone, CreateZone(z, r)
      PROVE  ShippingTypeOK'
  BY <1>1 DEF CreateZone, ShippingTypeOK
<1>2. ASSUME NEW z \in Zones, NEW field, NEW value, UpdateZone(z, field, value),
             \A r \in Zone : [r EXCEPT ![field] = value] \in Zone
      PROVE  ShippingTypeOK'
  BY <1>2 DEF UpdateZone, ShippingTypeOK
<1>3. ASSUME NEW z \in Zones, RemoveZone(z)
      PROVE  ShippingTypeOK'
  BY <1>3 DEF RemoveZone, ShippingTypeOK
<1>4. /\ \A r \in Zone, v \in Positions : [r EXCEPT !["position"] = v] \in Zone
      /\ \A r \in Zone, v \in SUBSET AreaCodes : [r EXCEPT !["prefixes"] = v] \in Zone
      /\ \A r \in Zone, v \in Fees : [r EXCEPT !["fee"] = v] \in Zone
      /\ \A r \in Zone, v \in BOOLEAN : [r EXCEPT !["freeOverEnabled"] = v] \in Zone
      /\ \A r \in Zone, v \in Totals \cup {None} : [r EXCEPT !["freeOver"] = v] \in Zone
      /\ \A r \in Zone, v \in BOOLEAN : [r EXCEPT !["active"] = v] \in Zone
  BY DEF Zone
<1>5. CASE UNCHANGED zone
  BY <1>5 DEF ShippingTypeOK
<1> QED  BY <1>1, <1>2, <1>3, <1>4, <1>5 DEF ShippingNext

(***************************************************************************)
(* FeeIsDefined: for any zones, prefixes and postcodes the list of active  *)
(* zones exists, and the two walks over it find the zone no other goes     *)
(* before, whose fee or free threshold applies, or none if none delivers.  *)
(***************************************************************************)
THEOREM FeesAreDefined == ShippingSpec => []FeeIsDefined
BY ZonesInitial, ZonesStep, FeesFollow, PTL DEF ShippingSpec

-----------------------------------------------------------------------------
(* The services together *)

\* A step of one service is none of another's.
LEMMA ServicesApart ==
  [BackOfficeNext]_backOfficeVars =>
    /\ [CataloguesNext]_catalogueVars /\ [PublishingNext]_publishingVars
    /\ [EnquiriesNext]_enquiryVars /\ [NewsletterNext]_newsletterVars /\ [ShippingNext]_zone
BY DEF BackOfficeNext, backOfficeVars, EditTables, EditContent, RunBlog, HandleEnquiries,
   RunNewsletter, EditZones, PublishingNext

(***************************************************************************)
(* BackOfficeTypeOK: for any number of operators, visitors and requests in *)
(* progress, over whichever table, every row and every request is of its   *)
(* type.  In particular an image's upsert stores no null where the alt     *)
(* text it read was of a row that is gone.                                 *)
(***************************************************************************)
THEOREM BackOfficeIsTyped == BackOfficeSpec => []BackOfficeTypeOK
<1> DEFINE Inv == /\ TablesInv /\ ImagesInv /\ ContentInv /\ BlogInv
                  /\ EnquiriesInv /\ NewsletterInv /\ ShippingTypeOK
<1>1. BackOfficeInit => Inv
  BY TablesInitial, ImagesInitial, ContentInitial, BlogInitial, EnquiriesInitial,
     NewsletterInitial, ZonesInitial DEF BackOfficeInit
<1>2. Inv /\ [BackOfficeNext]_backOfficeVars => Inv'
  BY ServicesApart, TablesStep, ImagesStep, ContentStep, BlogStep, EnquiriesStep,
     NewsletterStep, ZonesStep
<1>3. Inv => BackOfficeTypeOK
  BY DEF BackOfficeTypeOK, TablesInv, ImagesInv, ContentInv, BlogInv, EnquiriesInv,
     NewsletterInv, PublishingTypeOK
<1> QED  BY <1>1, <1>2, <1>3, PTL DEF BackOfficeSpec

(***************************************************************************)
(* Put together, each service keeps what it keeps alone: nothing a step of *)
(* one does to the tables of another can break NoLostEdit,                 *)
(* DuePostsAreListed, FeeIsDefined, HistoryMovesOn, ClosedByEditor or      *)
(* OptedIn.                                                                *)
(***************************************************************************)
THEOREM ServicesKeepTheirWord ==
  BackOfficeSpec => /\ [](NoLostEdit /\ DuePostsAreListed /\ FeeIsDefined)
                    /\ HistoryMovesOn /\ ClosedByEditor /\ OptedIn
<1>1. BackOfficeInit => /\ CataloguesInit /\ PublishingInit /\ EnquiriesInit
                        /\ NewsletterInit /\ ShippingInit
  BY DEF BackOfficeInit
<1>2. BackOfficeSpec => /\ CataloguesSpec /\ PublishingSpec /\ EnquiriesSpec
                        /\ NewsletterSpec /\ ShippingSpec
  BY <1>1, ServicesApart, PTL
     DEF BackOfficeSpec, CataloguesSpec, PublishingSpec, EnquiriesSpec, NewsletterSpec, ShippingSpec
<1> QED
  BY <1>2, EditsAreKept, ListsAreComplete, FeesAreDefined, RollbacksMoveForward,
     ClosingIsForEditors, ListedByConsent, PTL
=============================================================================
