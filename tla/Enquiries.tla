------------------------------ MODULE Enquiries ------------------------------
(***************************************************************************)
(* Enquiries from the contact form and what staff do with them, and the    *)
(* in-app notifications.  A decision on an enquiry reads its row, then     *)
(* writes it by id; a reply sends its mail in between.  Notifications are  *)
(* fanned out to the staff of the moment, without the caller waiting.      *)
(***************************************************************************)
EXTENDS FiniteSets, Nulls

CONSTANTS
  Enquiries,
  Staff,      \* ids of User rows that can have a staff role
  Decisions   \* admin requests that can be in progress

ASSUME EnquiryAssumption == None \notin Enquiries \cup Staff

VARIABLES
  role,          \* User.role of the staff
  enquiry,       \* ContactEnquiry rows
  decision,      \* what each request has read
  fanout,        \* enquiries whose notifyStaff has not run yet
  notification,  \* Notification rows: user, enquiry, read
  replied,       \* replies mailed
  raced          \* ghost: enquiries two requests decided on at a time

enquiryVars == <<role, enquiry, decision, fanout, notification, replied, raced>>

-----------------------------------------------------------------------------
Statuses == {"NEW", "CONTACTED", "CLOSED", "SPAM"}

NoEnquiry == [status |-> "none", handledBy |-> None]

NoDecision == [op |-> "none", id |-> None, by |-> None, as |-> "none", from |-> "none",
               to |-> "none"]

EnquiriesTypeOK ==
  /\ role \in [Staff -> {"OWNER", "EDITOR", "SUPPORT", "CUSTOMER"}]
  /\ enquiry \in [Enquiries -> [status: Statuses, handledBy: Staff \cup {None}] \cup {NoEnquiry}]
  /\ decision \in [Decisions ->
       [op: {"update", "reply", "replied"}, id: Enquiries, by: Staff,
        as: {"OWNER", "EDITOR", "SUPPORT"}, from: Statuses, to: Statuses] \cup {NoDecision}]
  /\ fanout \subseteq Enquiries
  /\ notification \subseteq [user: Staff, of: Enquiries, read: BOOLEAN]
  /\ replied \subseteq Enquiries
  /\ raced \subseteq Enquiries

EnquiriesInit ==
  /\ role \in [Staff -> {"OWNER", "EDITOR", "SUPPORT"}]
  /\ enquiry = [e \in Enquiries |-> NoEnquiry]
  /\ decision = [d \in Decisions |-> NoDecision]
  /\ fanout = {} /\ notification = {} /\ replied = {} /\ raced = {}

-----------------------------------------------------------------------------
\* A filled honeypot makes the enquiry spam, with no mail and no bell.
CreateEnquiry(e, honeypot) ==
  /\ enquiry[e] = NoEnquiry
  /\ enquiry' = [enquiry EXCEPT ![e] =
       [status |-> IF honeypot THEN "SPAM" ELSE "NEW", handledBy |-> None]]
  /\ fanout' = IF honeypot THEN fanout ELSE fanout \cup {e}
  /\ UNCHANGED <<role, decision, notification, replied, raced>>

IsStaff(u) == role[u] \in {"OWNER", "EDITOR", "SUPPORT"}

\* One row for each member of staff at this moment; a failure is logged.
notifyStaff(e) ==
  /\ e \in fanout
  /\ fanout' = fanout \ {e}
  /\ \/ notification' = notification \cup
          {[user |-> u, of |-> e, read |-> FALSE] : u \in {v \in Staff : IsStaff(v)}}
     \/ UNCHANGED notification
  /\ UNCHANGED <<role, enquiry, decision, replied, raced>>

\* The owner hires and lets go.
SetRole(u, r) ==
  /\ role[u] # r
  /\ role' = [role EXCEPT ![u] = r]
  /\ UNCHANGED <<enquiry, decision, fanout, notification, replied, raced>>

\* Both the id and the user have to match.
markRead(u, n) ==
  /\ n \in notification /\ n.user = u /\ ~n.read
  /\ notification' = (notification \ {n}) \cup {[n EXCEPT !.read = TRUE]}
  /\ UNCHANGED <<role, enquiry, decision, fanout, replied, raced>>

markAllRead(u) ==
  LET mine == {n \in notification : n.user = u /\ ~n.read} IN
  /\ mine # {}
  /\ notification' = (notification \ mine) \cup {[n EXCEPT !.read = TRUE] : n \in mine}
  /\ UNCHANGED <<role, enquiry, decision, fanout, replied, raced>>

-----------------------------------------------------------------------------
Deciding(e) == {d \in Decisions : decision[d].id = e}

Decide(d, op, u, e, to) ==
  /\ decision[d] = NoDecision
  /\ IsStaff(u) /\ enquiry[e] # NoEnquiry
  /\ decision' = [decision EXCEPT ![d] =
       [op |-> op, id |-> e, by |-> u, as |-> role[u], from |-> enquiry[e].status,
        to |-> to]]
  /\ raced' = IF Deciding(e) = {} THEN raced ELSE raced \cup {e}
  /\ UNCHANGED <<role, enquiry, fanout, notification, replied>>

\* Mutant: whoever is staff may close.
AnyoneMayDecide(u, to) == IsStaff(u)

\* SUPPORT may not close.
MayDecide(u, to) == to = "CLOSED" => role[u] \in {"OWNER", "EDITOR"}

StartUpdate(d, u, e, to) == MayDecide(u, to) /\ Decide(d, "update", u, e, to)

StartReply(d, u, e) == Decide(d, "reply", u, e, "CONTACTED")

\* A change of status is stamped with who made it, unless it is back to NEW.
Stamped(row, w) ==
  [status |-> w.to,
   handledBy |-> IF w.to # w.from /\ w.to # "NEW" THEN w.by ELSE row.handledBy]

UpdateEnquiry(d) ==
  LET w == decision[d] IN
  /\ w.op = "update"
  /\ enquiry' = [enquiry EXCEPT ![w.id] = Stamped(@, w)]
  /\ decision' = [decision EXCEPT ![d] = NoDecision]
  /\ UNCHANGED <<role, fanout, notification, replied, raced>>

MailReply(d) ==
  /\ decision[d].op = "reply"
  /\ replied' = replied \cup {decision[d].id}
  /\ decision' = [decision EXCEPT ![d].op = "replied"]
  /\ UNCHANGED <<role, enquiry, fanout, notification, raced>>

\* An enquiry that was new when it was read becomes CONTACTED.
FinishReply(d) ==
  LET w == decision[d] IN
  /\ w.op = "replied"
  /\ enquiry' = IF w.from = "NEW" THEN [enquiry EXCEPT ![w.id] = Stamped(@, w)] ELSE enquiry
  /\ decision' = [decision EXCEPT ![d] = NoDecision]
  /\ UNCHANGED <<role, fanout, notification, replied, raced>>

\* The mail fails, or the process dies.
DecisionFails(d) ==
  /\ decision[d] # NoDecision
  /\ decision' = [decision EXCEPT ![d] = NoDecision]
  /\ UNCHANGED <<role, enquiry, fanout, notification, replied, raced>>

-----------------------------------------------------------------------------
EnquiriesNext ==
  \/ \E e \in Enquiries :
       \/ \E honeypot \in BOOLEAN : CreateEnquiry(e, honeypot)
       \/ notifyStaff(e)
  \/ \E u \in Staff :
       \/ \E r \in {"EDITOR", "SUPPORT", "CUSTOMER"} : SetRole(u, r)
       \/ \E n \in notification : markRead(u, n)
       \/ markAllRead(u)
  \/ \E d \in Decisions :
       \/ \E u \in Staff, e \in Enquiries :
            StartReply(d, u, e) \/ \E to \in Statuses : StartUpdate(d, u, e, to)
       \/ UpdateEnquiry(d) \/ MailReply(d) \/ FinishReply(d) \/ DecisionFails(d)

EnquiriesSpec == EnquiriesInit /\ [][EnquiriesNext]_enquiryVars

-----------------------------------------------------------------------------
(* Properties *)

\* Whoever closed an enquiry may close enquiries, and an enquiry that was
\* contacted or closed names who did it; when two decide at a time the
\* later write keeps the earlier's name.
ClosedByEditor ==
  [][\A e \in Enquiries \ raced :
       /\ enquiry'[e].status \in {"CONTACTED", "CLOSED"} => enquiry'[e].handledBy # None
       /\ enquiry'[e].status = "CLOSED" /\ enquiry[e].status # "CLOSED" =>
            \E d \in Decisions :
              /\ decision[d].by = enquiry'[e].handledBy
              /\ decision[d].as \in {"OWNER", "EDITOR"}]_enquiryVars

\* "Move to CONTACTED if it was still NEW": a reply leaves alone an enquiry
\* that was closed while it was being sent.
ReplyKeepsDecision ==
  [][\A d \in Decisions :
       FinishReply(d) /\ enquiry[decision[d].id].status # "NEW" => enquiry' = enquiry]_enquiryVars
=============================================================================
