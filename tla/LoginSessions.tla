--------------------------- MODULE LoginSessions ----------------------------
(***************************************************************************)
(* What a customer who logged in is promised: the session stays hers; one  *)
(* token refreshes it at a time, a token nobody has held before in place   *)
(* of the last; and when it ends, by a logout, a token used twice or a new *)
(* password, it ends for good.  Where refreshes with one token overlapped  *)
(* nothing is promised but whose session it is.                            *)
(***************************************************************************)
CONSTANTS Users, Tokens, None

VARIABLES
  owner,    \* the user of each session, named by the token of its login
  current,  \* the token a session can be refreshed with: none or one
  minted,   \* tokens that were handed out
  racing    \* sessions two refreshes of which overlapped

sessionVars == <<owner, current, minted, racing>>

SessionsInit ==
  /\ owner = [t \in Tokens |-> None]
  /\ current = [t \in Tokens |-> {}]
  /\ minted = {} /\ racing = {}

Begin(u, t) ==
  /\ t \notin minted
  /\ minted' = minted \cup {t}
  /\ owner' = [owner EXCEPT ![t] = u]
  /\ current' = [current EXCEPT ![t] = {t}]
  /\ UNCHANGED racing

Refresh(f, t) ==
  /\ current[f] # {} /\ t \notin minted
  /\ minted' = minted \cup {t}
  /\ current' = [current EXCEPT ![f] = {t}]
  /\ UNCHANGED <<owner, racing>>

\* A second refresh with a token that was replaced or ended in between.
Overlap(f, t) ==
  /\ owner[f] # None /\ t \notin minted
  /\ minted' = minted \cup {t}
  /\ racing' = racing \cup {f}
  /\ current' = [current EXCEPT ![f] = {}]
  /\ UNCHANGED owner

End(ended) ==
  /\ current' = [f \in Tokens |-> IF f \in ended THEN {} ELSE current[f]]
  /\ UNCHANGED <<owner, minted, racing>>

\* A logout or a token used twice ends one session, a new password all those
\* of its user.
SessionsNext ==
  \/ \E f \in Tokens : End({f})
  \/ \E u \in Users : End({f \in Tokens : owner[f] = u})
  \/ \E u \in Users, t \in Tokens : Begin(u, t)
  \/ \E f, t \in Tokens : Refresh(f, t) \/ Overlap(f, t)

SessionsSpec == SessionsInit /\ [][SessionsNext]_sessionVars
=============================================================================
