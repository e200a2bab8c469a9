------------------------------ MODULE MailJobs ------------------------------
(***************************************************************************)
(* The e-mail jobs an external scheduler triggers: birthday mails with a   *)
(* promo code, reminders of idle credit, and notices of credit about to    *)
(* expire.  A run takes a list, then handles one entry after the other:    *)
(* test the marker, issue the code, send, write the marker.  Triggered     *)
(* again, early or by a second scheduler, runs overlap.                    *)
(*                                                                         *)
(* An entry is a user or, for the notices, an accrual row.  Days are       *)
(* counted from zero; a birthday is the day it falls on, which the columns *)
(* birthDay and birthMonth name together.                                  *)
(***************************************************************************)
EXTENDS Nulls, Integers, FiniteSets

CONSTANTS
  Users,      \* ids of User rows
  System,     \* the actor the jobs sign their audit rows with
  Accruals,   \* ACCRUAL rows of the credit ledger
  Codes,      \* promo codes that composeBirthdayCode can produce
  Runs,       \* runs of the jobs that can be in progress
  Horizon,    \* bound on the days
  ValidDays,  \* BIRTHDAY_VALID_DAYS
  NoticeDays  \* CREDIT_EXPIRING_NOTICE_DAYS

ASSUME MailJobsAssumption ==
  /\ Horizon \in Nat /\ ValidDays \in 1..60 /\ NoticeDays \in Nat
  /\ None \notin Users \cup Accruals \cup Codes \cup Nat
  /\ Users \cap Accruals = {}

VARIABLES
  today,
  birthday,   \* User rows: the birthday, None when it is not known
  verified,   \* users with emailVerifiedAt
  idle,       \* subscribers with credit they have not moved for two weeks
  expires,    \* last day of each accrual, None before it is written
  code,       \* PromoCode rows of kind BIRTHDAY
  run,        \* what each run has read and is doing
  marker,     \* AuditLog rows the jobs write
  mailed,     \* mails that went out: job, entry, day, code
  again,      \* ghost: (job, entry, day) mailed more than once
  contended   \* ghost: users two runs handled at a time

vars == <<today, birthday, verified, idle, expires, code, run, marker, mailed, again,
          contended>>

-----------------------------------------------------------------------------
Jobs == {"birthday", "reminder", "notice"}
Entries == Users \cup Accruals
Days == 0..Horizon

CodeRow == [user: Users, until: Nat, redeemed: BOOLEAN]
NoCode == [user |-> None, until |-> 0, redeemed |-> FALSE]

\* todo is the list the run took; day is the date it computed when it began.
Run == [job: Jobs, day: Days, todo: SUBSET Entries, step: {"next", "issue", "create", "send", "mark"},
        entry: Entries \cup {None}, code: Codes \cup {None}]
NoRun == [job |-> "none", day |-> 0, todo |-> {}, step |-> "next", entry |-> None,
          code |-> None]

Mail == [job: Jobs, entry: Entries, day: Days, code: Codes \cup {None}]

TypeOK ==
  /\ today \in Days
  /\ birthday \in [Users -> Days \cup {None}]
  /\ verified \subseteq Users /\ idle \subseteq Users
  /\ expires \in [Accruals -> Nat \cup {None}]
  /\ code \in [Codes -> CodeRow \cup {NoCode}]
  /\ run \in [Runs -> Run \cup {NoRun}]
  /\ \A key \in marker : key[1] \in Jobs /\ key[2] \in Entries
  /\ mailed \subseteq Mail
  /\ \A key \in again : key[1] \in Jobs /\ key[2] \in Entries
  /\ contended \subseteq Users

Init ==
  /\ today = 0
  /\ birthday = [u \in Users |-> None]
  /\ verified = {} /\ idle = {}
  /\ expires = [a \in Accruals |-> None]
  /\ code = [c \in Codes |-> NoCode]
  /\ run = [r \in Runs |-> NoRun]
  /\ marker = {} /\ mailed = {} /\ again = {} /\ contended = {}

-----------------------------------------------------------------------------
(* The world the jobs read *)

Midnight ==
  /\ today < Horizon
  /\ today' = today + 1
  /\ UNCHANGED <<birthday, verified, idle, expires, code, run, marker, mailed, again,
                 contended>>

Verify(u) ==
  /\ u \notin verified
  /\ verified' = verified \cup {u}
  /\ UNCHANGED <<today, birthday, idle, expires, code, run, marker, mailed, again,
                 contended>>

\* ProfileService.update sets or clears both columns of a birthday.
SetBirthday(u, day) ==
  /\ birthday[u] # day
  /\ birthday' = [birthday EXCEPT ![u] = day]
  /\ UNCHANGED <<today, verified, idle, expires, code, run, marker, mailed, again,
                 contended>>

CreditIdles(u) ==
  /\ idle' = IF u \in idle THEN idle \ {u} ELSE idle \cup {u}
  /\ UNCHANGED <<today, birthday, verified, expires, code, run, marker, mailed, again,
                 contended>>

Accrue(a, until) ==
  /\ expires[a] = None
  /\ until > today
  /\ expires' = [expires EXCEPT ![a] = until]
  /\ UNCHANGED <<today, birthday, verified, idle, code, run, marker, mailed, again,
                 contended>>

\* An order of its owner claims a code that is still valid.
Redeem(c) ==
  /\ code[c] # NoCode
  /\ ~code[c].redeemed /\ code[c].until > today
  /\ code' = [code EXCEPT ![c].redeemed = TRUE]
  /\ UNCHANGED <<today, birthday, verified, idle, expires, run, marker, mailed, again,
                 contended>>

-----------------------------------------------------------------------------
(* Runs *)

Due(job, day) ==
  CASE job = "birthday" -> {u \in verified : birthday[u] = day}
    [] job = "reminder" -> Users
    [] OTHER -> {a \in Accruals : expires[a] # None /\ expires[a] > day
                                    /\ expires[a] < day + NoticeDays}

StartRun(r, job) ==
  /\ run[r] = NoRun
  /\ run' = [run EXCEPT ![r] = [NoRun EXCEPT !.job = job, !.day = today,
                                             !.todo = Due(job, today)]]
  /\ UNCHANGED <<today, birthday, verified, idle, expires, code, marker, mailed, again,
                 contended>>

\* One notice for an accrual, one birthday mail or reminder for a user and a day.
Key(job, e, day) == IF job = "notice" THEN <<job, e, None>> ELSE <<job, e, day>>

Handlers(u, r) ==
  \E q \in Runs \ {r} : run[q].entry = u /\ run[q].step \in {"issue", "create"}

\* The marker is tested, and for a reminder the balance and the last
\* movement of the credit, which only now are read.
Skipped(w, e) ==
  \/ Key(w.job, e, w.day) \in marker
  \/ w.job = "reminder" /\ e \notin idle

TakenUp(w, e) ==
  [w EXCEPT !.todo = @ \ {e},
            !.entry = IF Skipped(w, e) THEN None ELSE e,
            !.step = IF Skipped(w, e) THEN "next"
                     ELSE IF w.job = "birthday" THEN "issue" ELSE "send"]

Take(r, e) ==
  LET w == run[r] IN
  /\ w.step = "next" /\ e \in w.todo
  /\ run' = [run EXCEPT ![r] = TakenUp(w, e)]
  /\ contended' = IF ~Skipped(w, e) /\ w.job = "birthday" /\ Handlers(e, r)
                   THEN contended \cup {e} ELSE contended
  /\ UNCHANGED <<today, birthday, verified, idle, expires, code, marker, mailed, again>>

\* A code that is worth mailing: the user's own, unused, with more than a
\* day to go.
Reusable(c, u) ==
  code[c].user = u /\ ~code[c].redeemed /\ code[c].until > today + 1

\* Mutant: the search finds nothing.
FindNothing(r) ==
  /\ run[r].step = "issue"
  /\ run' = [run EXCEPT ![r].step = "create"]
  /\ UNCHANGED <<today, birthday, verified, idle, expires, code, marker, mailed, again,
                 contended>>

\* The search of issueBirthdayCode.
FindCode(r) ==
  LET found == {c \in Codes : Reusable(c, run[r].entry)} IN
  /\ run[r].step = "issue"
  /\ \/ \E c \in found : run' = [run EXCEPT ![r].step = "send", ![r].code = c]
     \/ found = {} /\ run' = [run EXCEPT ![r].step = "create"]
  /\ UNCHANGED <<today, birthday, verified, idle, expires, code, marker, mailed, again,
                 contended>>

\* Mutant: the code is anybody's.
IssuedToNobody(u) == [user |-> None, until |-> today + ValidDays, redeemed |-> FALSE]

Issued(u) == [user |-> u, until |-> today + ValidDays, redeemed |-> FALSE]

\* A code that is taken is composed again.
CreateCode(r, c) ==
  /\ run[r].step = "create"
  /\ code[c] = NoCode
  /\ code' = [code EXCEPT ![c] = Issued(run[r].entry)]
  /\ run' = [run EXCEPT ![r].step = "send", ![r].code = c]
  /\ UNCHANGED <<today, birthday, verified, idle, expires, marker, mailed, again,
                 contended>>

\* The code or the mail fails: the entry is skipped, without a marker.
EntryFails(r) ==
  /\ run[r].step \in {"issue", "create", "send"}
  /\ run' = [run EXCEPT ![r].step = "next", ![r].entry = None, ![r].code = None]
  /\ UNCHANGED <<today, birthday, verified, idle, expires, code, marker, mailed, again,
                 contended>>

Send(r) ==
  LET w == run[r] IN
  /\ w.step = "send"
  /\ mailed' = mailed \cup {[job |-> w.job, entry |-> w.entry, day |-> w.day,
                             code |-> w.code]}
  /\ again' = IF \E m \in mailed : Key(m.job, m.entry, m.day) = Key(w.job, w.entry, w.day)
              THEN again \cup {Key(w.job, w.entry, w.day)} ELSE again
  /\ run' = [run EXCEPT ![r].step = "mark"]
  /\ UNCHANGED <<today, birthday, verified, idle, expires, code, marker, contended>>

\* An audit row signed by nobody's id is refused, and the refusal is logged.
Mark(r) ==
  LET w == run[r] IN
  /\ w.step = "mark"
  /\ marker' = IF System \in Users THEN marker \cup {Key(w.job, w.entry, w.day)} ELSE marker
  /\ run' = [run EXCEPT ![r].step = "next", ![r].entry = None, ![r].code = None]
  /\ UNCHANGED <<today, birthday, verified, idle, expires, code, mailed, again, contended>>

\* The list is done, or the process dies.
EndRun(r) ==
  /\ run[r] # NoRun
  /\ run' = [run EXCEPT ![r] = NoRun]
  /\ UNCHANGED <<today, birthday, verified, idle, expires, code, marker, mailed, again,
                 contended>>

-----------------------------------------------------------------------------
World ==
  \/ Midnight
  \/ \E u \in Users :
       \/ Verify(u)
       \/ CreditIdles(u)
       \/ \E day \in Days \cup {None} : SetBirthday(u, day)
  \/ \E a \in Accruals, until \in 1..(Horizon + NoticeDays) : Accrue(a, until)
  \/ \E c \in Codes : Redeem(c)

Job(r) ==
  \/ \E job \in Jobs : StartRun(r, job)
  \/ \E e \in Entries : Take(r, e)
  \/ FindCode(r)
  \/ \E c \in Codes : CreateCode(r, c)
  \/ EntryFails(r) \/ Send(r) \/ Mark(r) \/ EndRun(r)

Next == World \/ \E r \in Runs : Job(r)

Spec == Init /\ [][Next]_vars

-----------------------------------------------------------------------------
(* Properties *)

\* A user has one birthday code to spend at a time: a job that runs again,
\* or a birthday that is moved, finds the code that was issued, unless two
\* runs handle the user at the same time.  The code in a birthday mail is
\* the recipient's, and it outlives the day of the mail.
OneCodeToSpend ==
  /\ \A c, d \in Codes :
       Reusable(c, code[c].user) /\ Reusable(d, code[c].user) /\ c # d =>
         code[c].user \in contended
  /\ \A m \in mailed :
       m.job = "birthday" => code[m.code].user = m.entry /\ code[m.code].until > m.day

\* "Triggering the cron twice in one day is therefore safe", "the same batch
\* is never warned about twice even across cron re-runs".
MailedOnce == again = {}
=============================================================================
