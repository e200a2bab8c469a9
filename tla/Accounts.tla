------------------------------ MODULE Accounts ------------------------------
(***************************************************************************)
(* Accounts: registration, login with lockout, the second factor, e-mail   *)
(* verification and password reset, over the refresh tokens that sessions  *)
(* are made of.  Every handler reads the user's row, spends a while hashing *)
(* or verifying, and writes by id what it decided on what it read.         *)
(*                                                                         *)
(* Time only ends things: a lockout, a link, a challenge and the cooldown  *)
(* of reset mails may lapse at any moment after they began.                *)
(***************************************************************************)
EXTENDS RefreshTokens, Integers

CONSTANTS
  Passwords, Secrets,
  Resets,       \* identities of PasswordResetToken rows
  Calls,        \* requests of these handlers that can be in progress at one time
  MaxFailed,    \* MAX_FAILED_LOGINS; counts above it are not distinguished
  Rehash        \* stored hashes may have outdated parameters

ASSUME AccountAssumption ==
  /\ None \notin Passwords \cup Secrets \cup Resets
  /\ MaxFailed \in Nat \ {0}
  /\ Rehash \in BOOLEAN

VARIABLES
  user,       \* User rows
  link,       \* the EmailVerificationToken minted at registration
  reset,      \* PasswordResetToken rows
  cooling,    \* users with a reset row created in the last minute
  challenge,  \* users holding a challenge token
  call,       \* what each request has read so far
  wrong,      \* ghost: wrong passwords tested since the count was last cleared
  lost,       \* ghost: users whose count was overwritten by an overlapping login
  overlapped, \* ghost: users with two forgot-password requests at a time
  proved,     \* ghost: TOTP secrets each user has shown a code of
  stale       \* ghost: families that outlived a reset of their user's password

accountVars == <<user, link, reset, cooling, challenge, call, wrong, lost,
                 overlapped, proved, stale>>

vars == <<tokenVars, accountVars>>

-----------------------------------------------------------------------------
\* No row has deletedAt: nothing writes it.
UserRow ==
  {row \in [password: Passwords \cup {None}, failed: 0..MaxFailed, locked: BOOLEAN,
            verified: BOOLEAN, totp: {"none", "staged", "active"},
            secret: Secrets \cup {None}] :
     row.totp = "none" <=> row.secret = None}

NoUser == [password |-> None, failed |-> 0, locked |-> FALSE, verified |-> FALSE,
           totp |-> "none", secret |-> None]

ResetRow == [user: Users, live: BOOLEAN]

NoReset == [user |-> None, live |-> FALSE]

Steps == {"failed", "passed", "session", "invalidate", "mint", "write", "revoke",
          "begin", "confirm", "cancel", "disable"}

\* What a handler reads of the row and uses later.
Reading == [failed: 0..MaxFailed, totp: {"none", "staged", "active"},
            secret: Secrets \cup {None}]

Unread == [failed |-> 0, totp |-> "none", secret |-> None]

\* password and reset are the request's.
Call == [step: Steps, user: Users, password: Passwords \cup {None},
         reset: Resets \cup {None}, row: Reading]

NoCall == [step |-> "none", user |-> None, password |-> None, reset |-> None,
           row |-> Unread]

TypeOK ==
  /\ TokensTypeOK
  /\ user \in [Users -> UserRow]
  /\ link \in [Users -> {"none", "sent", "used", "expired"}]
  /\ reset \in [Resets -> ResetRow \cup {NoReset}]
  /\ cooling \subseteq Users /\ challenge \subseteq Users
  /\ call \in [Calls -> Call \cup {NoCall}]
  /\ wrong \in [Users -> 0..MaxFailed]
  /\ lost \subseteq Users /\ overlapped \subseteq Users
  /\ proved \in [Users -> SUBSET Secrets]
  /\ stale \subseteq Tokens

Init ==
  /\ TokensInit
  /\ user = [u \in Users |-> NoUser]
  /\ link = [u \in Users |-> "none"]
  /\ reset = [n \in Resets |-> NoReset]
  /\ cooling = {} /\ challenge = {}
  /\ call = [c \in Calls |-> NoCall]
  /\ wrong = [u \in Users |-> 0]
  /\ lost = {} /\ overlapped = {}
  /\ proved = [u \in Users |-> {}]
  /\ stale = {}

-----------------------------------------------------------------------------
Registered(u) == user[u].password # None

AtMost(n) == IF n > MaxFailed THEN MaxFailed ELSE n

Seen(u) == [failed |-> user[u].failed, totp |-> user[u].totp, secret |-> user[u].secret]

Begin(c, step, u, p, n, row) ==
  /\ call[c] = NoCall
  /\ call' = [call EXCEPT ![c] = [step |-> step, user |-> u, password |-> p,
                                   reset |-> n, row |-> row]]

Ends(c) == call' = [call EXCEPT ![c] = NoCall]

Goes(c, step) == call' = [call EXCEPT ![c].step = step]

\* A guard refuses later than the first read, or the process dies.
CallEnds(c) ==
  /\ call[c] # NoCall
  /\ Ends(c)
  /\ UNCHANGED <<tokenVars, user, link, reset, cooling, challenge, wrong, lost,
                 overlapped, proved, stale>>

-----------------------------------------------------------------------------
(* Registration and e-mail verification *)

\* The unique e-mail decides between two registrations.  The verification
\* link is written by a call nobody waits for.
Register(u, p) ==
  /\ ~Registered(u)
  /\ user' = [user EXCEPT ![u].password = p]
  /\ UNCHANGED <<tokenVars, link, reset, cooling, challenge, call, wrong, lost,
                 overlapped, proved, stale>>

SendVerification(u) ==
  /\ Registered(u) /\ link[u] = "none"
  /\ link' = [link EXCEPT ![u] = "sent"]
  /\ UNCHANGED <<tokenVars, user, reset, cooling, challenge, call, wrong, lost,
                 overlapped, proved, stale>>

\* Two requests that read the link unused both write the same.
VerifyEmail(u) ==
  /\ link[u] = "sent"
  /\ link' = [link EXCEPT ![u] = "used"]
  /\ user' = [user EXCEPT ![u].verified = TRUE]
  /\ UNCHANGED <<tokenVars, reset, cooling, challenge, call, wrong, lost,
                 overlapped, proved, stale>>

-----------------------------------------------------------------------------
(* Login *)

\* Reads the row and verifies the password against it; None stands for a
\* password that was never set.
Login(c, u, p) ==
  /\ Registered(u) /\ ~user[u].locked
  /\ Begin(c, IF p = user[u].password THEN "passed" ELSE "failed", u, p, None, Seen(u))
  /\ UNCHANGED <<tokenVars, user, link, reset, cooling, challenge, wrong, lost,
                 overlapped, proved, stale>>

\* Mutant: the attempt that locks the account does not store its count.
FailureUncounted(c) ==
  LET n == call[c].row.failed + 1 IN
    [user[call[c].user] EXCEPT !.failed = IF n >= MaxFailed THEN 0 ELSE n,
                               !.locked = n >= MaxFailed]

\* Both columns are computed from the row as it was read.
Failure(c) ==
  LET n == call[c].row.failed + 1 IN
    [user[call[c].user] EXCEPT !.failed = AtMost(n), !.locked = n >= MaxFailed]

LoginFails(c) ==
  /\ call[c].step = "failed"
  /\ LET u == call[c].user IN
       /\ user' = [user EXCEPT ![u] = Failure(c)]
       /\ wrong' = [wrong EXCEPT ![u] = AtMost(@ + 1)]
       /\ lost' = IF call[c].row.failed # user[u].failed THEN lost \cup {u} ELSE lost
  /\ Ends(c)
  /\ UNCHANGED <<tokenVars, link, reset, cooling, challenge, overlapped, proved, stale>>

\* The count is cleared and the password perhaps hashed anew; then a session
\* or, with a committed second factor, a challenge.
LoginPasses(c) ==
  /\ call[c].step = "passed"
  /\ LET u == call[c].user IN
       /\ \E p \in {user[u].password} \cup (IF Rehash THEN {call[c].password} ELSE {}) :
            user' = [user EXCEPT ![u].failed = 0, ![u].locked = FALSE, ![u].password = p]
       /\ wrong' = [wrong EXCEPT ![u] = 0]
       /\ lost' = lost \ {u}
       /\ IF call[c].row.totp = "active"
          THEN challenge' = challenge \cup {u} /\ Ends(c)
          ELSE Goes(c, "session") /\ UNCHANGED challenge
  /\ UNCHANGED <<tokenVars, link, reset, cooling, overlapped, proved, stale>>

\* The challenge endpoint with a right code; a challenge can be used again.
AnswerChallenge(c, u) ==
  /\ u \in challenge /\ user[u].totp = "active"
  /\ Begin(c, "session", u, None, None, Unread)
  /\ UNCHANGED <<tokenVars, user, link, reset, cooling, challenge, wrong, lost,
                 overlapped, proved, stale>>

IssueSession(c, t) ==
  /\ call[c].step = "session"
  /\ Issue(call[c].user, t)
  /\ Ends(c)
  /\ UNCHANGED <<user, link, reset, cooling, challenge, wrong, lost, overlapped,
                 proved, stale>>

-----------------------------------------------------------------------------
(* Password reset *)

\* A request within a minute of the last is a no-op.
ForgotPassword(c, u) ==
  /\ Registered(u) /\ u \notin cooling
  /\ Begin(c, "invalidate", u, None, None, Unread)
  /\ overlapped' = IF \E d \in Calls : /\ call[d].step \in {"invalidate", "mint"}
                                       /\ call[d].user = u
                   THEN overlapped \cup {u} ELSE overlapped
  /\ UNCHANGED <<tokenVars, user, link, reset, cooling, challenge, wrong, lost,
                 proved, stale>>

Invalidated(u) ==
  [n \in Resets |-> IF reset[n].user = u THEN [reset[n] EXCEPT !.live = FALSE] ELSE reset[n]]

InvalidateLinks(c) ==
  /\ call[c].step = "invalidate"
  /\ reset' = Invalidated(call[c].user)
  /\ Goes(c, "mint")
  /\ UNCHANGED <<tokenVars, user, link, cooling, challenge, wrong, lost, overlapped,
                 proved, stale>>

MintLink(c, n) ==
  /\ call[c].step = "mint" /\ reset[n] = NoReset
  /\ reset' = [reset EXCEPT ![n] = [user |-> call[c].user, live |-> TRUE]]
  /\ cooling' = cooling \cup {call[c].user}
  /\ Ends(c)
  /\ UNCHANGED <<tokenVars, user, link, challenge, wrong, lost, overlapped, proved, stale>>

ResetPassword(c, n, p) ==
  /\ reset[n].live
  /\ Begin(c, "write", reset[n].user, p, n, Unread)
  /\ UNCHANGED <<tokenVars, user, link, reset, cooling, challenge, wrong, lost,
                 overlapped, proved, stale>>

\* One transaction; the link is not tested again.
WritePassword(c) ==
  /\ call[c].step = "write"
  /\ LET u == call[c].user IN
       /\ user' = [user EXCEPT ![u].password = call[c].password, ![u].failed = 0,
                               ![u].locked = FALSE]
       /\ wrong' = [wrong EXCEPT ![u] = 0]
       /\ lost' = lost \ {u}
  /\ reset' = [reset EXCEPT ![call[c].reset].live = FALSE]
  /\ Goes(c, "revoke")
  /\ UNCHANGED <<tokenVars, link, cooling, challenge, overlapped, proved, stale>>

RevokeSessions(c) ==
  /\ call[c].step = "revoke"
  /\ RevokeAllForUser(call[c].user)
  /\ stale' = stale \cup {token[t].family : t \in {s \in Tokens : token[s].user = call[c].user}}
  /\ Ends(c)
  /\ UNCHANGED <<user, link, reset, cooling, challenge, wrong, lost, overlapped, proved>>

-----------------------------------------------------------------------------
(* The second factor *)

MfaUnchanged == UNCHANGED <<tokenVars, link, reset, cooling, challenge, wrong, lost,
                            overlapped, stale>>

\* Each reads the row, and confirm and disable verify a code of it.
BeginSetup(c, u) ==
  /\ Registered(u) /\ user[u].totp = "none"
  /\ Begin(c, "begin", u, None, None, Unread)
  /\ UNCHANGED <<user, proved>> /\ MfaUnchanged

ConfirmSetup(c, u) ==
  /\ user[u].totp = "staged"
  /\ Begin(c, "confirm", u, None, None, Seen(u))
  /\ proved' = [proved EXCEPT ![u] = @ \cup {user[u].secret}]
  /\ UNCHANGED user /\ MfaUnchanged

CancelSetup(c, u) ==
  /\ user[u].totp = "staged"
  /\ Begin(c, "cancel", u, None, None, Unread)
  /\ UNCHANGED <<user, proved>> /\ MfaUnchanged

Disable(c, u) ==
  /\ user[u].totp = "active"
  /\ Begin(c, "disable", u, None, None, Unread)
  /\ UNCHANGED <<user, proved>> /\ MfaUnchanged

\* Mutant: what is committed is the secret stored now.
CommittedStored(c) == user[call[c].user].secret

\* confirmSetup encrypts the secret it verified.
Committed(c) == call[c].row.secret

WriteMfa(c) ==
  /\ LET u == call[c].user IN
       \/ /\ call[c].step = "begin"
          /\ \E k \in Secrets :
               user' = [user EXCEPT ![u].totp = "staged", ![u].secret = k]
       \/ /\ call[c].step = "confirm"
          /\ user' = [user EXCEPT ![u].totp = "active", ![u].secret = Committed(c)]
       \/ /\ call[c].step \in {"cancel", "disable"}
          /\ user' = [user EXCEPT ![u].totp = "none", ![u].secret = None]
  /\ Ends(c)
  /\ UNCHANGED proved /\ MfaUnchanged

-----------------------------------------------------------------------------
(* Time *)

Lapse(u) ==
  /\ \/ /\ user[u].locked
        /\ user' = [user EXCEPT ![u].locked = FALSE]
        /\ UNCHANGED <<link, reset, cooling, challenge>>
     \/ /\ link[u] = "sent"
        /\ link' = [link EXCEPT ![u] = "expired"]
        /\ UNCHANGED <<user, reset, cooling, challenge>>
     \/ /\ u \in cooling
        /\ cooling' = cooling \ {u}
        /\ UNCHANGED <<user, link, reset, challenge>>
     \/ /\ u \in challenge
        /\ challenge' = challenge \ {u}
        /\ UNCHANGED <<user, link, reset, cooling>>
     \/ \E n \in Resets :
          /\ reset[n].user = u /\ reset[n].live
          /\ reset' = [reset EXCEPT ![n].live = FALSE]
          /\ UNCHANGED <<user, link, cooling, challenge>>
  /\ UNCHANGED <<tokenVars, call, wrong, lost, overlapped, proved, stale>>

Next ==
  \/ RefreshStep /\ UNCHANGED accountVars
  \/ \E u \in Users :
       \/ SendVerification(u) \/ VerifyEmail(u) \/ Lapse(u)
       \/ \E p \in Passwords : Register(u, p)
  \/ \E c \in Calls :
       \/ LoginFails(c) \/ LoginPasses(c) \/ CallEnds(c)
       \/ InvalidateLinks(c) \/ WritePassword(c) \/ RevokeSessions(c) \/ WriteMfa(c)
       \/ \E t \in Tokens : IssueSession(c, t)
       \/ \E n \in Resets : MintLink(c, n) \/ \E p \in Passwords : ResetPassword(c, n, p)
       \/ \E u \in Users :
            \/ \E p \in Passwords \cup {None} : Login(c, u, p)
            \/ AnswerChallenge(c, u) \/ ForgotPassword(c, u)
            \/ BeginSetup(c, u) \/ ConfirmSetup(c, u) \/ CancelSetup(c, u) \/ Disable(c, u)

Spec == Init /\ [][Next]_vars

-----------------------------------------------------------------------------
(* Properties *)

\* "Resistant to brute force (per-account lockout)": the stored count is that
\* of the wrong passwords since the last success, unless two logins
\* overlapped and one overwrote the other's.
FailuresAreCounted ==
  \A u \in Users \ lost : user[u].failed = wrong[u]

\* "Invalidate any existing unused reset tokens before minting the new one":
\* a user has one valid link at most, unless two requests overlapped.
OneValidLink ==
  \A m, n \in Resets :
    /\ reset[m].live /\ reset[n].live
    /\ reset[m].user = reset[n].user /\ reset[m].user \notin overlapped
    => m = n

\* "We don't flip the user into MFA required until they prove they can read
\* it": the secret a login asks for is one its owner has shown a code of,
\* whatever setup calls overlapped.
ActiveSecretWasProved ==
  \A u \in Users : user[u].totp = "active" => user[u].secret \in proved[u]

\* "Revoke every refresh token for this user - force a fresh login
\* everywhere": no family from before a reset is alive after it.
ResetEndsSessions == \A t \in Tokens : Live(t) => token[t].family \notin stale

\* "Per-account lockout": the count is right however logins overlap.
LockoutKeepsCount == \A u \in Users : user[u].failed = wrong[u]

\* "disable(userId, code) requires a valid code": nothing else turns an active
\* second factor off.
FactorLeavesByCode ==
  [][\A u \in Users : user[u].totp = "active" /\ user'[u].totp # "active" =>
       \E c \in Calls : call[c].step = "disable" /\ call[c].user = u]_vars

\* A password set by a reset stays the password until the next one.
ResetPasswordStays ==
  [][\A u \in Users : Registered(u) /\ user'[u].password # user[u].password =>
       \E c \in Calls : call[c].step = "write" /\ call[c].user = u]_vars
=============================================================================
