--------------------------- MODULE RefreshTokens ----------------------------
(***************************************************************************)
(* Refresh tokens: a login founds a family, a rotation revokes the token   *)
(* it is shown and mints its successor, a token shown after its revocation *)
(* ends the family, a logout revokes one token and a password reset all of *)
(* a user's.  Rotation reads the token in one statement and revokes it in  *)
(* a later transaction that does not test it again.                        *)
(*                                                                         *)
(* A family is named by its first token.  A token is revoked for four      *)
(* reasons, none of which anything reads: only revokedAt decides.          *)
(***************************************************************************)
EXTENDS Naturals

CONSTANTS
  Users, Tokens, None,
  Rotations        \* refresh requests that can be in progress at one time

ASSUME TokenAssumption == None \notin Users \cup Tokens

VARIABLES
  token,      \* RefreshToken rows
  rotation,   \* what each refresh request has read so far
  raced,      \* ghost: families in which a rotation found its token revoked
  closed      \* ghost: families ended by logout, reuse or password reset

tokenVars == <<token, rotation, raced, closed>>

-----------------------------------------------------------------------------
TokenRow == [user: Users, family: Tokens, revoked: BOOLEAN, expired: BOOLEAN]

NoToken == [user |-> None, family |-> None, revoked |-> FALSE, expired |-> FALSE]

Rotation == [step: {"mint", "reused"}, token: Tokens]

NoRotation == [step |-> "none", token |-> None]

TokensTypeOK ==
  /\ token \in [Tokens -> TokenRow \cup {NoToken}]
  /\ rotation \in [Rotations -> Rotation \cup {NoRotation}]
  /\ raced \subseteq Tokens
  /\ closed \subseteq Tokens

TokensInit ==
  /\ token = [t \in Tokens |-> NoToken]
  /\ rotation = [r \in Rotations |-> NoRotation]
  /\ raced = {}
  /\ closed = {}

-----------------------------------------------------------------------------
Exists(t) == token[t] # NoToken

Live(t) == Exists(t) /\ ~token[t].revoked

Members(f) == {t \in Tokens : token[t].family = f}

\* updateMany where revokedAt is null: a revoked row keeps its date.
Revoked(rows) ==
  [t \in Tokens |-> IF t \in rows THEN [token[t] EXCEPT !.revoked = TRUE] ELSE token[t]]

Fresh(u, f) == [user |-> u, family |-> f, revoked |-> FALSE, expired |-> FALSE]

\* Mutant: the presented token stays usable next to its successor.
RotatedKeepingOld(t, s) == [token EXCEPT ![s] = Fresh(token[t].user, token[t].family)]

\* The two writes of the transaction: by id, whatever the row has become.
Rotated(t, s) ==
  [token EXCEPT ![t].revoked = TRUE,
                ![s] = Fresh(token[t].user, token[t].family)]

-----------------------------------------------------------------------------
\* A login mints a token in a family of its own.
Issue(u, t) ==
  /\ ~Exists(t)
  /\ token' = [token EXCEPT ![t] = Fresh(u, t)]
  /\ UNCHANGED <<rotation, raced, closed>>

\* Mutant: a revoked token that has not expired is still good for a rotation.
PresentUntested(r, t) ==
  /\ rotation[r] = NoRotation
  /\ Exists(t)
  /\ ~token[t].expired
  /\ rotation' = [rotation EXCEPT ![r] = [step |-> "mint", token |-> t]]
  /\ UNCHANGED <<token, raced, closed>>

\* rotate up to its tests; an unknown or an expired token is refused.
Present(r, t) ==
  /\ rotation[r] = NoRotation
  /\ Exists(t)
  /\ token[t].revoked \/ ~token[t].expired
  /\ rotation' = [rotation EXCEPT ![r] =
       [step |-> IF token[t].revoked THEN "reused" ELSE "mint", token |-> t]]
  /\ UNCHANGED <<token, raced, closed>>

Mint(r, s) ==
  /\ rotation[r].step = "mint"
  /\ ~Exists(s)
  /\ token' = Rotated(rotation[r].token, s)
  /\ raced' = IF token[rotation[r].token].revoked
              THEN raced \cup {token[rotation[r].token].family} ELSE raced
  /\ rotation' = [rotation EXCEPT ![r] = NoRotation]
  /\ UNCHANGED closed

Compromised(t) == Members(token[t].family)

RevokeFamily(r) ==
  /\ rotation[r].step = "reused"
  /\ token' = Revoked(Compromised(rotation[r].token))
  /\ closed' = closed \cup {token[rotation[r].token].family}
  /\ rotation' = [rotation EXCEPT ![r] = NoRotation]
  /\ UNCHANGED raced

\* The process dies between two statements.
RotationEnds(r) ==
  /\ rotation[r] # NoRotation
  /\ rotation' = [rotation EXCEPT ![r] = NoRotation]
  /\ UNCHANGED <<token, raced, closed>>

\* logout with the cookie's token.
Revoke(t) ==
  /\ Live(t)
  /\ token' = Revoked({t})
  /\ closed' = closed \cup {token[t].family}
  /\ UNCHANGED <<rotation, raced>>

RevokeAllForUser(u) ==
  LET all == {t \in Tokens : token[t].user = u} IN
    /\ token' = Revoked(all)
    /\ closed' = closed \cup {token[t].family : t \in all}
    /\ UNCHANGED <<rotation, raced>>

\* A token nobody refreshed for JWT_REFRESH_TTL.
Expire(t) ==
  /\ Exists(t) /\ ~token[t].expired
  /\ token' = [token EXCEPT ![t].expired = TRUE]
  /\ UNCHANGED <<rotation, raced, closed>>

RefreshStep ==
  \/ \E r \in Rotations :
       \/ \E t \in Tokens : Present(r, t) \/ Mint(r, t)
       \/ RevokeFamily(r)
       \/ RotationEnds(r)
  \/ \E t \in Tokens : Revoke(t) \/ Expire(t)

TokensNext ==
  \/ RefreshStep
  \/ \E u \in Users, t \in Tokens : Issue(u, t)
  \/ \E u \in Users : RevokeAllForUser(u)

TokensSpec == TokensInit /\ [][TokensNext]_tokenVars

-----------------------------------------------------------------------------
(* Properties *)

\* Rotation: "revoke the presented token, mint a new one in the same family"
\* leaves one live token in a family, unless two rotations of one token
\* overlapped.
OneLiveSuccessor ==
  \A s, t \in Tokens :
    Live(s) /\ Live(t) /\ token[s].family = token[t].family
      /\ token[s].family \notin raced => s = t

\* A session that was logged out, detected as reused or ended by a password
\* reset has no live token left and never gets one again, unless a rotation
\* that had read its token before wrote after.
ClosedStaysClosed ==
  \A t \in Tokens : Live(t) /\ token[t].family \in closed => token[t].family \in raced

\* No token of the session is live and no rotation is past its test.
Over(f) ==
  /\ Exists(f)
  /\ \A t \in Members(f) : token[t].revoked
  /\ \A r \in Rotations : rotation[r].step = "mint" => rotation[r].token \notin Members(f)

\* Once a session is over nothing brings it back, however its rotations
\* raced before: a rotation that overtook a logout or a password reset can
\* mint a last token (ClosedStaysClosed leaves it out), but only one that had
\* tested its token before, and the next revocation is then final.
OverIsFinal == [][\A f \in Tokens : Over(f) => Over(f)']_tokenVars

\* A family never changes hands: every token of it is of the user who
\* founded it by logging in.
FamilyOfOneUser ==
  \A t \in Tokens : Exists(t) =>
    /\ Exists(token[t].family)
    /\ token[token[t].family].user = token[t].user
    /\ token[token[t].family].family = token[t].family

(***************************************************************************)
(* Sessions keep the promise of LoginSessions, although rotation tests a   *)
(* token in one statement and replaces it, by id, in a later one: a        *)
(* session that a rotation raced in is one the promise leaves out.         *)
(***************************************************************************)
Session == INSTANCE LoginSessions WITH
  owner <- [f \in Tokens |-> IF token[f].family = f THEN token[f].user ELSE None],
  current <- [f \in Tokens |-> IF f \in raced THEN {} ELSE {t \in Members(f) : Live(t)}],
  minted <- {t \in Tokens : Exists(t)},
  racing <- raced

SessionsKept == Session!SessionsSpec
=============================================================================
