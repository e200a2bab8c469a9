-------------------------- MODULE Accounts_proofs ---------------------------
(***************************************************************************)
(* Proofs about RefreshTokens and Accounts.  A family is found through the *)
(* token that founded it, so the invariant of the tokens says that         *)
(* founders exist, that what a rotation or a ghost variable refers to      *)
(* exists, and the three properties together: one live successor needs     *)
(* that a new family is empty, and a closed family stays closed because a  *)
(* rotation of a revoked token is recorded as raced.                       *)
(* With that the rows of the tokens are seen to implement LoginSessions.   *)
(*                                                                         *)
(* What Accounts does to the tokens is what RefreshTokens does, so the     *)
(* sessions inherit that invariant; the lockout's count, the reset links   *)
(* and the second factor have AccountsInv.  It says of the calls in        *)
(* progress what they may still write: that one call mails a link at a     *)
(* time unless they are recorded as overlapped, and that the secret a call *)
(* is about to commit has been shown a code of.                            *)
(***************************************************************************)
EXTENDS Accounts, TLAPS

-----------------------------------------------------------------------------
(* Refresh tokens by themselves *)


ReferencesExist ==
  /\ \A r \in Rotations : rotation[r] # NoRotation => Exists(rotation[r].token)
  /\ \A f \in closed \cup raced : Exists(f)

TokensInv ==
  /\ TokensTypeOK
  /\ ReferencesExist
  /\ FamilyOfOneUser
  /\ OneLiveSuccessor
  /\ ClosedStaysClosed

-----------------------------------------------------------------------------
\* A row of the table is told from an absent one by its family.
LEMMA RowFields ==
  ASSUME TokensTypeOK, NEW t \in Tokens
  PROVE  /\ Exists(t) <=> token[t] \in TokenRow
         /\ Exists(t) => token[t].family \in Tokens /\ token[t].user \in Users
         /\ ~Exists(t) => token[t] = NoToken /\ token[t].family = None
                          /\ token[t].user = None
         /\ token[t].revoked \in BOOLEAN /\ token[t].expired \in BOOLEAN
<1>1. token[t] \in TokenRow \cup {NoToken}
  BY DEF TokensTypeOK
<1>2. NoToken \notin TokenRow
  BY TokenAssumption DEF NoToken, TokenRow
<1>3. ASSUME token[t] \in TokenRow
      PROVE  /\ token[t].family \in Tokens /\ token[t].user \in Users
             /\ token[t].revoked \in BOOLEAN /\ token[t].expired \in BOOLEAN
  BY <1>3 DEF TokenRow
<1>4. /\ NoToken.family = None /\ NoToken.user = None
      /\ NoToken.revoked \in BOOLEAN /\ NoToken.expired \in BOOLEAN
  BY DEF NoToken
<1> QED  BY <1>1, <1>2, <1>3, <1>4 DEF Exists

\* What the request in progress holds is a token, and an idle one holds None.
LEMMA RotationFields ==
  ASSUME TokensTypeOK, NEW r \in Rotations
  PROVE  /\ rotation[r].step \in {"mint", "reused", "none"}
         /\ rotation[r].step # "none" => rotation[r].token \in Tokens
         /\ rotation[r].step = "none" <=> rotation[r] = NoRotation
  BY DEF TokensTypeOK, Rotation, NoRotation

\* Revoking rows changes their revocation and nothing else.
LEMMA RevokedRows ==
  ASSUME TokensTypeOK, NEW rows, token' = Revoked(rows),
         \A t \in Tokens : t \in rows => Exists(t)
  PROVE  /\ token' \in [Tokens -> TokenRow \cup {NoToken}]
         /\ \A t \in Tokens :
              /\ (token'[t] # NoToken <=> Exists(t))
              /\ token'[t].family = token[t].family
              /\ token'[t].user = token[t].user
              /\ token'[t].revoked <=> token[t].revoked \/ t \in rows
<1> DEFINE revoke(t) == [token[t] EXCEPT !.revoked = TRUE]
<1>1. \A t \in Tokens : token'[t] = IF t \in rows THEN revoke(t) ELSE token[t]
  BY DEF Revoked
<1>2. \A t \in Tokens : Exists(t) =>
        /\ revoke(t) \in TokenRow
        /\ revoke(t).family = token[t].family /\ revoke(t).user = token[t].user
        /\ revoke(t).expired = token[t].expired /\ revoke(t).revoked = TRUE
  <2> SUFFICES ASSUME NEW t \in Tokens, Exists(t)
               PROVE  /\ revoke(t) \in TokenRow
                      /\ revoke(t).family = token[t].family /\ revoke(t).user = token[t].user
                      /\ revoke(t).expired = token[t].expired /\ revoke(t).revoked = TRUE
    OBVIOUS
  <2>1. token[t] \in TokenRow  BY RowFields
  <2> QED  BY <2>1 DEF TokenRow
<1>3. \A t \in Tokens : Exists(t) <=> token[t] \in TokenRow
  BY RowFields
<1>4. NoToken \notin TokenRow
  BY TokenAssumption DEF NoToken, TokenRow
<1> HIDE DEF revoke
<1> QED  BY <1>1, <1>2, <1>3, <1>4 DEF TokensTypeOK, Exists, Revoked

\* Revoking rows of closed families keeps the invariant.
LEMMA RevokingKeepsInv ==
  ASSUME TokensInv, NEW rows, token' = Revoked(rows),
         \A t \in Tokens : t \in rows => Exists(t),
         closed' \subseteq closed \cup {token[t].family : t \in rows},
         rows \subseteq Tokens,
         \A t \in Tokens : Exists(t) /\ token[t].family \in closed' \ closed
                             => t \in rows \/ token[t].family \in raced \/ token[t].revoked,
         raced' = raced,
         rotation' \in [Rotations -> Rotation \cup {NoRotation}],
         \A r \in Rotations : rotation'[r] = rotation[r] \/ rotation'[r] = NoRotation
  PROVE  TokensInv'
<1> USE DEF TokensInv
<1>1. /\ token' \in [Tokens -> TokenRow \cup {NoToken}]
      /\ \A t \in Tokens :
           /\ (token'[t] # NoToken <=> Exists(t))
           /\ token'[t].family = token[t].family
           /\ token'[t].user = token[t].user
           /\ token'[t].revoked <=> token[t].revoked \/ t \in rows
  BY RevokedRows
<1>2. \A t \in rows : token[t].family \in Tokens /\ Exists(token[t].family)
  BY RowFields DEF FamilyOfOneUser, Exists
<1>3. TokensTypeOK'
  BY <1>1, <1>2 DEF TokensTypeOK
<1>4. \A t \in Tokens : Live(t)' => Live(t) /\ t \notin rows
  BY <1>1 DEF Live, Exists
<1>5. ReferencesExist'
  <2>1. \A r \in Rotations : rotation'[r] # NoRotation => token'[rotation'[r].token] # NoToken
    BY <1>1, RotationFields DEF ReferencesExist, Exists
  <2>2. \A f \in closed' \cup raced' : token'[f] # NoToken
    BY <1>1, <1>2 DEF ReferencesExist, TokensTypeOK, Exists
  <2> QED  BY <2>1, <2>2 DEF ReferencesExist, Exists
<1>6. FamilyOfOneUser'
  BY <1>1, RowFields DEF FamilyOfOneUser, Exists
<1>7. OneLiveSuccessor'
  BY <1>1, <1>4 DEF OneLiveSuccessor
<1>8. ClosedStaysClosed'
  BY <1>1, <1>4 DEF ClosedStaysClosed, Live
<1> QED  BY <1>3, <1>5, <1>6, <1>7, <1>8

-----------------------------------------------------------------------------
\* Nothing exists at first.
LEMMA TokensInitial == TokensInit => TokensInv
<1> SUFFICES ASSUME TokensInit PROVE TokensInv
  OBVIOUS
<1>1. \A t \in Tokens : ~Exists(t) /\ ~Live(t)
  BY DEF TokensInit, Exists, Live
<1>2. TokensTypeOK
  BY DEF TokensInit, TokensTypeOK
<1> QED  BY <1>1, <1>2 DEF TokensInit, TokensInv, ReferencesExist, FamilyOfOneUser,
                           OneLiveSuccessor, ClosedStaysClosed

\* A login founds a family nobody is in.
LEMMA IssueKeepsInv ==
  ASSUME TokensInv, NEW u \in Users, NEW t \in Tokens, Issue(u, t)
  PROVE  TokensInv'
<1> USE DEF TokensInv
<1>1. /\ token' = [token EXCEPT ![t] = Fresh(u, t)] /\ ~Exists(t)
      /\ UNCHANGED <<rotation, raced, closed>>
  BY DEF Issue
<1>2. /\ token'[t].user = u /\ token'[t].family = t /\ ~token'[t].revoked
      /\ token'[t] \in TokenRow
      /\ \A s \in Tokens \ {t} : token'[s] = token[s]
  BY <1>1 DEF Fresh, TokensTypeOK, TokenRow
<1>3. TokensTypeOK'
  BY <1>1, <1>2 DEF TokensTypeOK
<1>4. token'[t] # NoToken /\ \A s \in Tokens \ {t} : (token'[s] # NoToken <=> Exists(s)) /\ (Live(s)' <=> Live(s))
  BY <1>2, <1>3, RowFields, TokenAssumption DEF Exists, Live, TokenRow, NoToken
<1>5. \A s \in Tokens \ {t} : token'[s].family # t
  BY <1>1, <1>2, RowFields, TokenAssumption DEF FamilyOfOneUser, Exists
<1>6. ReferencesExist'
  BY <1>1, <1>4, RotationFields DEF ReferencesExist, TokensTypeOK, Exists
<1>7. FamilyOfOneUser'
  <2> SUFFICES ASSUME NEW s \in Tokens, token'[s] # NoToken
               PROVE  LET f == token'[s].family IN
                        token'[f] # NoToken /\ token'[f].user = token'[s].user /\ token'[f].family = f
    BY DEF FamilyOfOneUser, Exists
  <2>1. CASE s = t
    BY <2>1, <1>2, <1>4
  <2>2. CASE s # t
    <3>1. Exists(s) /\ token'[s] = token[s] /\ token[s].family \in Tokens \ {t}
      BY <2>2, <1>2, <1>4, <1>5, RowFields
    <3> QED  BY <3>1, <1>2, <1>4 DEF FamilyOfOneUser, Exists
  <2> QED  BY <2>1, <2>2
<1>8. OneLiveSuccessor'
  BY <1>1, <1>2, <1>4, <1>5 DEF OneLiveSuccessor
<1>9. t \notin closed
  BY <1>1 DEF ReferencesExist, Exists
<1>10. ClosedStaysClosed'
  BY <1>1, <1>2, <1>4, <1>9 DEF ClosedStaysClosed
<1> QED  BY <1>3, <1>6, <1>7, <1>8, <1>10

\* What a rotation writes: a row for the successor, and that the token it was
\* shown is revoked.
LEMMA MintedRows ==
  ASSUME TokensInv, NEW r \in Rotations, NEW s \in Tokens, Mint(r, s)
  PROVE  LET t == rotation[r].token
             f == token[t].family
         IN  /\ t \in Tokens /\ Exists(t) /\ ~Exists(s) /\ s # t
             /\ f \in Tokens /\ Exists(f) /\ f # s
             /\ token[f].user = token[t].user /\ token[f].family = f
             /\ token' \in [Tokens -> TokenRow \cup {NoToken}]
             /\ token'[s] # NoToken /\ ~token'[s].revoked
             /\ token'[s].family = f /\ token'[s].user = token[t].user
             /\ token'[t].revoked
             /\ \A q \in Tokens \ {s} : /\ token'[q] # NoToken <=> Exists(q)
                                        /\ token'[q].family = token[q].family
                                        /\ token'[q].user = token[q].user
             /\ \A q \in Tokens \ {s, t} : token'[q] = token[q]
<1> DEFINE t == rotation[r].token
           f == token[t].family
<1> USE DEF TokensInv
<1>1. rotation[r].step = "mint" /\ ~Exists(s) /\ token' = Rotated(t, s)
  BY DEF Mint
<1>2. t \in Tokens /\ Exists(t) /\ t # s
  BY <1>1, RotationFields DEF ReferencesExist, Exists
<1>3. f \in Tokens /\ Exists(f) /\ f # s /\ token[t].user \in Users
      /\ token[f].user = token[t].user /\ token[f].family = f
  BY <1>1, <1>2, RowFields DEF FamilyOfOneUser, Exists
<1>4. token[t] \in TokenRow
  BY <1>2, RowFields
<1>5. /\ token'[s] = Fresh(token[t].user, f)
      /\ token'[t] = [token[t] EXCEPT !.revoked = TRUE]
      /\ \A q \in Tokens \ {s, t} : token'[q] = token[q]
      /\ token' = [q \in Tokens |-> IF q = s THEN Fresh(token[t].user, f)
                                    ELSE IF q = t THEN [token[t] EXCEPT !.revoked = TRUE]
                                    ELSE token[q]]
  BY <1>1, <1>2 DEF Rotated, TokensTypeOK
<1> HIDE DEF t, f
<1>6. /\ token'[s] \in TokenRow /\ token'[s].family = f /\ token'[s].user = token[t].user
      /\ ~token'[s].revoked
  BY <1>3, <1>5 DEF Fresh, TokenRow
<1>7. /\ token'[t] \in TokenRow /\ token'[t].family = f /\ token'[t].user = token[t].user
      /\ token'[t].revoked
  <2>1. \A row \in TokenRow : LET spent == [row EXCEPT !.revoked = TRUE] IN
          /\ spent \in TokenRow /\ spent.family = row.family /\ spent.user = row.user
          /\ spent.revoked = TRUE
    BY DEF TokenRow
  <2> QED  BY <1>4, <1>5, <2>1 DEF f
<1>8. token' \in [Tokens -> TokenRow \cup {NoToken}]
  BY <1>5, <1>6, <1>7 DEF TokensTypeOK
<1>9. NoToken \notin TokenRow
  BY TokenAssumption DEF NoToken, TokenRow
<1>10. /\ token'[s] # NoToken
       /\ \A q \in Tokens \ {s} : /\ token'[q] # NoToken <=> Exists(q)
                                  /\ token'[q].family = token[q].family
                                  /\ token'[q].user = token[q].user
  BY <1>2, <1>5, <1>6, <1>7, <1>9 DEF Exists, f
<1> QED  BY <1>1, <1>2, <1>3, <1>5, <1>6, <1>7, <1>8, <1>10 DEF t, f

\* A rotation leaves its successor as the one live token of a family it did
\* not race in.
LEMMA MintKeepsInv ==
  ASSUME TokensInv, NEW r \in Rotations, NEW s \in Tokens, Mint(r, s)
  PROVE  TokensInv'
<1> DEFINE t == rotation[r].token
           f == token[t].family
<1> USE DEF TokensInv
<1>1. /\ rotation[r].step = "mint" /\ ~Exists(s)
      /\ raced' = IF token[t].revoked THEN raced \cup {f} ELSE raced
      /\ rotation' = [rotation EXCEPT ![r] = NoRotation]
      /\ UNCHANGED closed
  BY DEF Mint
<1>2. t \in Tokens /\ Exists(t) /\ t # s
  BY MintedRows
<1>3. f \in Tokens /\ Exists(f) /\ f # s
      /\ token[f].user = token[t].user /\ token[f].family = f
  BY MintedRows
<1>4. token'[s].family = f /\ token'[s].user = token[t].user /\ ~token'[s].revoked
  BY MintedRows
<1>5. TokensTypeOK'
  <2>1. token' \in [Tokens -> TokenRow \cup {NoToken}]
    BY MintedRows
  <2>2. rotation' \in [Rotations -> Rotation \cup {NoRotation}] /\ raced' \subseteq Tokens
    BY <1>1, <1>3 DEF TokensTypeOK
  <2> QED  BY <2>1, <2>2, <1>1 DEF TokensTypeOK
<1>6. /\ token'[s] # NoToken /\ \A q \in Tokens \ {s} : (token'[q] # NoToken <=> Exists(q))
      /\ \A q \in Tokens \ {s} : token'[q].family = token[q].family
                                 /\ token'[q].user = token[q].user
      /\ \A q \in Tokens \ {s} : Live(q)' => Live(q) /\ q # t
  BY <1>2, MintedRows DEF Exists, Live
<1> HIDE DEF t, f
<1>7. ReferencesExist'
  <2>1. \A p \in Rotations : rotation'[p] # NoRotation => token'[rotation'[p].token] # NoToken
    BY <1>1, <1>6, RotationFields DEF ReferencesExist, TokensTypeOK, Exists
  <2>2. \A g \in closed' \cup raced' : g \in Tokens \ {s} /\ Exists(g)
    BY <1>1, <1>3 DEF ReferencesExist, TokensTypeOK, Exists
  <2> QED  BY <2>1, <2>2, <1>6 DEF ReferencesExist, Exists
<1>8. FamilyOfOneUser'
  <2> SUFFICES ASSUME NEW q \in Tokens, token'[q] # NoToken
               PROVE  LET g == token'[q].family IN
                        token'[g] # NoToken /\ token'[g].user = token'[q].user /\ token'[g].family = g
    BY DEF FamilyOfOneUser, Exists
  <2>1. CASE q = s
    BY <2>1, <1>3, <1>4, <1>6
  <2>2. CASE q # s
    <3>1. Exists(q) /\ token[q].family \in Tokens /\ Exists(token[q].family)
      BY <2>2, <1>6, RowFields DEF FamilyOfOneUser, Exists
    <3>2. token[q].family # s
      BY <3>1, <1>1
    <3> QED  BY <2>2, <3>1, <3>2, <1>6 DEF FamilyOfOneUser, Exists
  <2> QED  BY <2>1, <2>2
<1>9. \A q \in Tokens \ {s} : Live(q)' /\ token'[q].family = f => f \in raced'
  <2> SUFFICES ASSUME NEW q \in Tokens \ {s}, Live(q)', token'[q].family = f
               PROVE  f \in raced'
    OBVIOUS
  <2>1. Live(q) /\ q # t /\ token[q].family = f
    BY <1>6
  <2>2. CASE token[t].revoked
    BY <2>2, <1>1 DEF f, t
  <2>3. CASE ~token[t].revoked
    <3>1. Live(t)
      BY <2>3, <1>2 DEF Live
    <3> QED  BY <2>1, <3>1, <1>1, <1>2 DEF OneLiveSuccessor, f, t
  <2> QED  BY <2>2, <2>3
<1>10. raced \subseteq raced'
  BY <1>1
<1>11. OneLiveSuccessor'
  BY <1>4, <1>6, <1>9, <1>10 DEF OneLiveSuccessor
<1>12. f \in closed => f \in raced'
  <2>1. CASE token[t].revoked
    BY <2>1, <1>1 DEF f, t
  <2>2. CASE ~token[t].revoked
    BY <2>2, <1>2, <1>10 DEF ClosedStaysClosed, Live, f
  <2> QED  BY <2>1, <2>2
<1>13. ClosedStaysClosed'
  BY <1>1, <1>4, <1>6, <1>10, <1>12 DEF ClosedStaysClosed
<1> QED  BY <1>5, <1>7, <1>8, <1>11, <1>13

\* The steps that revoke.
LEMMA RevokingSteps ==
  ASSUME TokensInv,
         \/ \E r \in Rotations : RevokeFamily(r)
         \/ \E t \in Tokens : Revoke(t)
         \/ \E u \in Users : RevokeAllForUser(u)
  PROVE  TokensInv'
<1>1. ASSUME NEW r \in Rotations, RevokeFamily(r) PROVE TokensInv'
  <2> DEFINE f == token[rotation[r].token].family
             rows == {t \in Tokens : token[t].family = f}
  <2>1. rotation[r].token \in Tokens /\ Exists(rotation[r].token)
    BY <1>1, RotationFields DEF RevokeFamily, TokensInv, ReferencesExist
  <2>2. f \in Tokens
    BY <2>1, RowFields DEF TokensInv
  <2>3. \A t \in Tokens : t \in rows => Exists(t)
    BY <2>2, RowFields, TokenAssumption DEF TokensInv
  <2>4. token' = Revoked(rows) /\ closed' = closed \cup {f} /\ raced' = raced
        /\ rotation' = [rotation EXCEPT ![r] = NoRotation]
    BY <1>1 DEF RevokeFamily, Compromised, Members
  <2>5. rotation[r].token \in rows
    BY <2>1
  <2>6. closed' \subseteq closed \cup {token[t].family : t \in rows}
    BY <2>4, <2>5
  <2>7. rotation' \in [Rotations -> Rotation \cup {NoRotation}]
        /\ \A p \in Rotations : rotation'[p] = rotation[p] \/ rotation'[p] = NoRotation
    BY <2>4 DEF TokensInv, TokensTypeOK
  <2>8. \A t \in Tokens : token[t].family \in closed' \ closed => t \in rows
    BY <2>4
  <2> HIDE DEF rows, f
  <2>9. rows \subseteq Tokens
    BY DEF rows
  <2> QED  BY <2>3, <2>4, <2>6, <2>7, <2>8, <2>9, RevokingKeepsInv
<1>2. ASSUME NEW t \in Tokens, Revoke(t) PROVE TokensInv'
  <2>1. /\ Live(t) /\ token' = Revoked({t}) /\ closed' = closed \cup {token[t].family}
        /\ rotation' = rotation /\ raced' = raced
    BY <1>2 DEF Revoke
  <2>2. \A s \in Tokens : Exists(s) /\ token[s].family \in closed' \ closed
                            => s \in {t} \/ token[s].family \in raced \/ token[s].revoked
    BY <2>1 DEF TokensInv, OneLiveSuccessor, Live
  <2>3. closed' \subseteq closed \cup {token[s].family : s \in {t}}
    BY <2>1
  <2>4. \A s \in Tokens : s \in {t} => Exists(s)
    BY <2>1 DEF Live
  <2>5. rotation' \in [Rotations -> Rotation \cup {NoRotation}]
    BY <2>1 DEF TokensInv, TokensTypeOK
  <2> QED  BY <2>1, <2>2, <2>3, <2>4, <2>5, RevokingKeepsInv
<1>3. ASSUME NEW u \in Users, RevokeAllForUser(u) PROVE TokensInv'
  <2> DEFINE rows == {t \in Tokens : token[t].user = u}
  <2>1. /\ token' = Revoked(rows) /\ closed' = closed \cup {token[t].family : t \in rows}
        /\ rotation' = rotation /\ raced' = raced
    BY <1>3 DEF RevokeAllForUser
  <2>2. \A t \in Tokens : t \in rows => Exists(t)
    BY RowFields, TokenAssumption DEF TokensInv
  <2>3. \A s \in Tokens : Exists(s) /\ token[s].family \in closed' \ closed => s \in rows
    <3> SUFFICES ASSUME NEW s \in Tokens, Exists(s), NEW t \in rows,
                        token[s].family = token[t].family
                 PROVE  token[s].user = u
      BY <2>1
    <3> QED  BY <2>2 DEF TokensInv, FamilyOfOneUser
  <2>4. rotation' \in [Rotations -> Rotation \cup {NoRotation}] /\ rows \subseteq Tokens
    BY <2>1 DEF TokensInv, TokensTypeOK
  <2> HIDE DEF rows
  <2> QED  BY <2>1, <2>2, <2>3, <2>4, RevokingKeepsInv
<1> QED  BY <1>1, <1>2, <1>3

\* Starting and ending a request writes no token.
LEMMA RequestSteps ==
  ASSUME TokensInv, NEW r \in Rotations,
         RotationEnds(r) \/ \E t \in Tokens : Present(r, t)
  PROVE  TokensInv'
<1> USE DEF TokensInv
<1>1. /\ UNCHANGED <<token, raced, closed>>
      /\ rotation' \in [Rotations -> Rotation \cup {NoRotation}]
      /\ \A p \in Rotations : rotation'[p] # NoRotation => Exists(rotation'[p].token)
  BY DEF Present, RotationEnds, TokensTypeOK, Rotation, NoRotation, ReferencesExist
<1> QED  BY <1>1 DEF TokensTypeOK, ReferencesExist, FamilyOfOneUser, OneLiveSuccessor,
                     ClosedStaysClosed, Live, Exists

\* Expiry changes neither who owns a token nor whether it is revoked.
LEMMA ExpiredRows ==
  ASSUME TokensInv, NEW t \in Tokens, Expire(t)
  PROVE  /\ token' \in [Tokens -> TokenRow \cup {NoToken}]
         /\ \A s \in Tokens : /\ (token'[s] # NoToken <=> Exists(s)) /\ (Live(s)' <=> Live(s))
                              /\ token'[s].family = token[s].family
                              /\ token'[s].user = token[s].user
<1> USE DEF TokensInv
<1>1. Exists(t) /\ token' = [token EXCEPT ![t].expired = TRUE]
  BY DEF Expire
<1>2. token[t] \in TokenRow
  BY <1>1, RowFields
<1>3. /\ token'[t] \in TokenRow /\ token'[t].family = token[t].family
      /\ token'[t].user = token[t].user /\ token'[t].revoked = token[t].revoked
      /\ \A s \in Tokens \ {t} : token'[s] = token[s]
  BY <1>1, <1>2 DEF TokensTypeOK, TokenRow
<1>4. token' \in [Tokens -> TokenRow \cup {NoToken}]
  BY <1>1, <1>3 DEF TokensTypeOK
<1>5. NoToken \notin TokenRow
  BY TokenAssumption DEF NoToken, TokenRow
<1> QED  BY <1>1, <1>2, <1>3, <1>4, <1>5 DEF Exists, Live

LEMMA ExpireKeepsInv ==
  ASSUME TokensInv, NEW t \in Tokens, Expire(t)
  PROVE  TokensInv'
<1> USE DEF TokensInv
<1>1. UNCHANGED <<rotation, raced, closed>>
  BY DEF Expire
<1>2. /\ token' \in [Tokens -> TokenRow \cup {NoToken}]
      /\ \A s \in Tokens : /\ (token'[s] # NoToken <=> Exists(s)) /\ (Live(s)' <=> Live(s))
                           /\ token'[s].family = token[s].family
                           /\ token'[s].user = token[s].user
  BY ExpiredRows
<1>3. TokensTypeOK'
  BY <1>1, <1>2 DEF TokensTypeOK
<1>4. ReferencesExist'
  BY <1>1, <1>2, RotationFields DEF ReferencesExist, TokensTypeOK, Exists
<1>5. FamilyOfOneUser'
  BY <1>2, RowFields DEF FamilyOfOneUser, Exists
<1>6. OneLiveSuccessor' /\ ClosedStaysClosed'
  BY <1>1, <1>2 DEF OneLiveSuccessor, ClosedStaysClosed
<1> QED  BY <1>3, <1>4, <1>5, <1>6

\* Every step keeps the invariant.
LEMMA TokensStep == TokensInv /\ [TokensNext]_tokenVars => TokensInv'
<1> SUFFICES ASSUME TokensInv, [TokensNext]_tokenVars PROVE TokensInv'
  OBVIOUS
<1>1. CASE UNCHANGED tokenVars
  BY <1>1 DEF tokenVars, TokensInv, TokensTypeOK, ReferencesExist, FamilyOfOneUser,
              OneLiveSuccessor, ClosedStaysClosed, Live, Exists
<1>2. ASSUME NEW u \in Users, NEW t \in Tokens, Issue(u, t) PROVE TokensInv'
  BY <1>2, IssueKeepsInv
<1>3. ASSUME NEW r \in Rotations, RotationEnds(r) \/ \E t \in Tokens : Present(r, t)
      PROVE  TokensInv'
  BY <1>3, RequestSteps
<1>4. ASSUME NEW r \in Rotations, NEW t \in Tokens, Mint(r, t) PROVE TokensInv'
  BY <1>4, MintKeepsInv
<1>5. ASSUME NEW t \in Tokens, Expire(t) PROVE TokensInv'
  BY <1>5, ExpireKeepsInv
<1>6. CASE \/ \E r \in Rotations : RevokeFamily(r)
           \/ \E t \in Tokens : Revoke(t)
           \/ \E u \in Users : RevokeAllForUser(u)
  BY <1>6, RevokingSteps
<1> QED  BY <1>1, <1>2, <1>3, <1>4, <1>5, <1>6 DEF TokensNext, RefreshStep

\* The sessions of a user, in any number of families, tokens and refresh
\* requests in progress.
THEOREM TokensSafe == TokensSpec => []TokensInv
  BY TokensInitial, TokensStep, PTL DEF TokensSpec

\* One step revives no token, moves none to another family and lets no
\* rotation past its test with a revoked token.
LEMMA OverStep ==
  ASSUME TokensInv, TokensNext, NEW f \in Tokens, Over(f)
  PROVE  Over(f)'
<1> DEFINE Kept == /\ Exists(f)'
                   /\ \A t \in Tokens : token'[t].family = f =>
                        token[t].family = f /\ (token[t].revoked => token'[t].revoked)
           Waiting == \A r \in Rotations : rotation'[r].step = "mint" =>
                        rotation'[r].token \in Tokens /\ token[rotation'[r].token].family # f
<1>1. /\ Exists(f)
      /\ \A t \in Tokens : token[t].family = f => token[t].revoked
      /\ \A r \in Rotations : rotation[r].step = "mint" =>
           rotation[r].token \in Tokens /\ token[rotation[r].token].family # f
  BY RotationFields DEF TokensInv, Over, Members
<1>2. ASSUME Kept, Waiting PROVE Over(f)'
  <2>1. \A t \in Tokens : token'[t].family = f => token'[t].revoked
    BY <1>1, <1>2
  <2>2. \A r \in Rotations : rotation'[r].step = "mint" => token'[rotation'[r].token].family # f
    BY <1>2
  <2> QED  BY <1>2, <2>1, <2>2 DEF Over, Members
<1>3. ASSUME NEW u \in Users, NEW t \in Tokens, Issue(u, t) PROVE Over(f)'
  <2>1. t # f /\ token' = [token EXCEPT ![t] = Fresh(u, t)] /\ rotation' = rotation
    BY <1>1, <1>3 DEF Issue
  <2>2. token'[t].family = t /\ \A s \in Tokens \ {t} : token'[s] = token[s]
    BY <2>1 DEF Fresh, TokensInv, TokensTypeOK
  <2> QED  BY <1>1, <1>2, <2>1, <2>2 DEF Exists
<1>4. ASSUME NEW r \in Rotations, RotationEnds(r) \/ \E t \in Tokens : Present(r, t)
      PROVE  Over(f)'
  <2>1. token' = token /\ Kept
    BY <1>1, <1>4 DEF RotationEnds, Present, Exists
  <2>2. \A p \in Rotations \ {r} : rotation'[p] = rotation[p]
    BY <1>4 DEF RotationEnds, Present, TokensInv, TokensTypeOK
  <2>3. rotation'[r].step = "mint" =>
          rotation'[r].token \in Tokens /\ ~token[rotation'[r].token].revoked
    BY <1>4 DEF RotationEnds, Present, NoRotation, TokensInv, TokensTypeOK
  <2>4. Waiting
    BY <1>1, <2>2, <2>3
  <2> QED  BY <1>2, <2>1, <2>4
<1>5. ASSUME NEW r \in Rotations, NEW s \in Tokens, Mint(r, s) PROVE Over(f)'
  <2> DEFINE t == rotation[r].token
  <2>1. /\ rotation[r].step = "mint" /\ ~Exists(s) /\ rotation' = [rotation EXCEPT ![r] = NoRotation]
        /\ token[t].family # f /\ s # f
    BY <1>1, <1>5 DEF Mint
  <2>2. /\ token'[s].family = token[t].family /\ token'[t].revoked
        /\ \A q \in Tokens \ {s} : /\ token'[q] # NoToken <=> Exists(q)
                                   /\ token'[q].family = token[q].family
        /\ \A q \in Tokens \ {s, t} : token'[q] = token[q]
    BY <1>5, MintedRows
  <2>3. Kept
    BY <1>1, <2>1, <2>2 DEF Exists
  <2>4. \A p \in Rotations : rotation'[p].step = "mint" => rotation'[p] = rotation[p]
    BY <2>1 DEF NoRotation, TokensInv, TokensTypeOK
  <2>5. Waiting
    BY <1>1, <2>4
  <2> QED  BY <1>2, <2>3, <2>5
<1>6. ASSUME NEW t \in Tokens, Expire(t) PROVE Over(f)'
  <2>1. rotation' = rotation /\ token' = [token EXCEPT ![t].expired = TRUE]
    BY <1>6 DEF Expire
  <2>2. \A s \in Tokens : /\ (token'[s] # NoToken <=> Exists(s)) /\ (Live(s)' <=> Live(s))
                          /\ token'[s].family = token[s].family
    BY <1>6, ExpiredRows
  <2>3. \A s \in Tokens : token[s].family = f => Exists(s)
    BY RowFields, TokenAssumption DEF TokensInv
  <2>4. Kept
    BY <1>1, <2>2, <2>3 DEF Live, Exists
  <2> QED  BY <1>1, <1>2, <2>1, <2>4
<1>7. ASSUME NEW rows, token' = Revoked(rows), \A t \in Tokens : t \in rows => Exists(t),
             \A r \in Rotations : rotation'[r].step = "mint" => rotation'[r] = rotation[r]
      PROVE  Over(f)'
  <2>1. \A t \in Tokens : /\ (token'[t] # NoToken <=> Exists(t))
                          /\ token'[t].family = token[t].family
                          /\ token'[t].revoked <=> token[t].revoked \/ t \in rows
    BY <1>7, RevokedRows DEF TokensInv
  <2>2. Exists(f)'
    BY <1>1, <2>1 DEF Exists
  <2>3. \A t \in Tokens : token[t].revoked => token'[t].revoked
    BY <2>1
  <2>4. Kept
    BY <2>1, <2>2, <2>3
  <2> QED  BY <1>1, <1>2, <1>7, <2>4
<1>8. ASSUME NEW r \in Rotations, RevokeFamily(r) PROVE Over(f)'
  <2> DEFINE rows == Compromised(rotation[r].token)
  <2>1. /\ rotation[r].step = "reused" /\ token' = Revoked(rows)
        /\ rotation' = [rotation EXCEPT ![r] = NoRotation]
    BY <1>8 DEF RevokeFamily
  <2>2. \A t \in Tokens : t \in rows => Exists(t)
    <3>1. rotation[r].token \in Tokens /\ Exists(rotation[r].token)
      BY <2>1, RotationFields DEF TokensInv, ReferencesExist
    <3>2. token[rotation[r].token].family \in Tokens
      BY <3>1, RowFields DEF TokensInv
    <3> QED  BY <3>2, RowFields, TokenAssumption DEF TokensInv, Compromised, Members
  <2>3. \A p \in Rotations : rotation'[p].step = "mint" => rotation'[p] = rotation[p]
    BY <2>1 DEF NoRotation, TokensInv, TokensTypeOK
  <2> QED  BY <1>7, <2>1, <2>2, <2>3
<1>9. ASSUME NEW t \in Tokens, Revoke(t) PROVE Over(f)'
  <2>1. Exists(t) /\ token' = Revoked({t}) /\ rotation' = rotation
    BY <1>9 DEF Revoke, Live
  <2> QED  BY <1>7, <2>1
<1>10. ASSUME NEW u \in Users, RevokeAllForUser(u) PROVE Over(f)'
  <2> DEFINE rows == {t \in Tokens : token[t].user = u}
  <2>1. token' = Revoked(rows) /\ rotation' = rotation
    BY <1>10 DEF RevokeAllForUser
  <2>2. \A t \in rows : Exists(t)
    BY RowFields, TokenAssumption DEF TokensInv
  <2> QED  BY <1>7, <2>1, <2>2
<1> QED  BY <1>3, <1>4, <1>5, <1>6, <1>8, <1>9, <1>10 DEF TokensNext, RefreshStep

(***************************************************************************)
(* OverIsFinal: in any order of logins, rotations that raced or did not,   *)
(* logouts, resets and deaths of the process, a session whose tokens are   *)
(* all revoked, and of which no rotation is past its test, is over.        *)
(***************************************************************************)
THEOREM TokensStayOver == TokensSpec => OverIsFinal
<1>1. TokensInv /\ [TokensNext]_tokenVars => [\A f \in Tokens : Over(f) => Over(f)']_tokenVars
  BY OverStep
<1> QED  BY <1>1, TokensSafe, PTL DEF TokensSpec, OverIsFinal

-----------------------------------------------------------------------------
(* The promise of LoginSessions *)

LEMMA SessionsInitial == TokensInit => Session!SessionsInit
<1> SUFFICES ASSUME TokensInit PROVE Session!SessionsInit
  OBVIOUS
<1>1. \A t \in Tokens : token[t] = NoToken /\ ~Exists(t) /\ ~Live(t)
  BY DEF TokensInit, Exists, Live
<1>2. \A f \in Tokens : token[f].user = None
  BY <1>1 DEF NoToken
<1>3. [f \in Tokens |-> IF token[f].family = f THEN token[f].user ELSE None]
        = [t \in Tokens |-> None]
  BY <1>2
<1>4. \A f \in Tokens : {t \in Members(f) : Live(t)} = {}
  BY <1>1 DEF Members
<1>5. [f \in Tokens |-> IF f \in raced THEN {} ELSE {t \in Members(f) : Live(t)}]
        = [t \in Tokens |-> {}]
  BY <1>4
<1>6. raced = {} /\ {t \in Tokens : Exists(t)} = {}
  BY <1>1 DEF TokensInit
<1> QED  BY <1>3, <1>5, <1>6 DEF Session!SessionsInit

\* Who owns the sessions and what was handed out is the same for rows with
\* the same families, users and existence.
LEMMA SameOwners ==
  ASSUME \A t \in Tokens : /\ token'[t] # NoToken <=> Exists(t)
                           /\ token'[t].family = token[t].family
                           /\ token'[t].user = token[t].user
  PROVE  /\ [f \in Tokens |-> IF token'[f].family = f THEN token'[f].user ELSE None]
              = [f \in Tokens |-> IF token[f].family = f THEN token[f].user ELSE None]
         /\ {t \in Tokens : Exists(t)'} = {t \in Tokens : Exists(t)}
  BY DEF Exists

\* Revoking rows ends the sessions they are the current tokens of.
LEMMA RevokingEnds ==
  ASSUME TokensInv, NEW rows, NEW ended, token' = Revoked(rows), raced' = raced,
         \A t \in Tokens : t \in rows => Exists(t),
         \A t \in Tokens : Live(t) /\ token[t].family \notin raced
                             => (t \in rows <=> token[t].family \in ended)
  PROVE  Session!End(ended)
<1>1. \A t \in Tokens :
        /\ (token'[t] # NoToken <=> Exists(t))
        /\ token'[t].family = token[t].family
        /\ token'[t].user = token[t].user
        /\ token'[t].revoked <=> token[t].revoked \/ t \in rows
  BY RevokedRows DEF TokensInv
<1>2. \A t \in Tokens : Live(t)' <=> Live(t) /\ t \notin rows
  BY <1>1 DEF Live, Exists
<1>3. \A f \in Tokens : {t \in Members(f)' : Live(t)'} = {t \in Members(f) : Live(t) /\ t \notin rows}
  BY <1>1, <1>2 DEF Members
<1>4. \A f \in Tokens : f \notin raced =>
        {t \in Members(f)' : Live(t)'} = IF f \in ended THEN {} ELSE {t \in Members(f) : Live(t)}
  <2> SUFFICES ASSUME NEW f \in Tokens, f \notin raced
               PROVE  {t \in Members(f) : Live(t) /\ t \notin rows}
                        = IF f \in ended THEN {} ELSE {t \in Members(f) : Live(t)}
    BY <1>3
  <2> QED  BY DEF Members
<1>5. [f \in Tokens |-> IF f \in raced' THEN {} ELSE {t \in Members(f)' : Live(t)'}]
        = [f \in Tokens |-> IF f \in ended THEN {}
             ELSE [g \in Tokens |-> IF g \in raced THEN {} ELSE {t \in Members(g) : Live(t)}][f]]
  BY <1>4
<1> QED  BY <1>1, <1>5, SameOwners DEF Session!End

\* A login begins a session.
LEMMA IssueBegins ==
  ASSUME TokensInv, NEW u \in Users, NEW t \in Tokens, Issue(u, t)
  PROVE  Session!Begin(u, t)
<1>1. /\ token' = [token EXCEPT ![t] = Fresh(u, t)] /\ ~Exists(t) /\ raced' = raced
      /\ TokensTypeOK /\ t \notin raced
  <2>1. t \notin raced
    BY DEF Issue, TokensInv, ReferencesExist, Exists
  <2> QED  BY <2>1 DEF Issue, TokensInv
<1>2. /\ token'[t].user = u /\ token'[t].family = t /\ ~token'[t].revoked
      /\ token'[t] # NoToken
      /\ \A s \in Tokens \ {t} : token'[s] = token[s]
  BY <1>1, TokenAssumption DEF Fresh, TokensTypeOK, NoToken
<1>3. \A s \in Tokens \ {t} : token[s].family # t
  BY <1>1, RowFields, TokenAssumption DEF TokensInv, FamilyOfOneUser, Exists
<1>4. {s \in Tokens : Exists(s)'} = {s \in Tokens : Exists(s)} \cup {t}
  BY <1>2 DEF Exists
<1>5. /\ {s \in Members(t)' : Live(s)'} = {t}
      /\ \A f \in Tokens \ {t} :
           {s \in Members(f)' : Live(s)'} = {s \in Members(f) : Live(s)}
  <2>1. \A s \in Tokens \ {t} : (Live(s)' <=> Live(s)) /\ token'[s].family # t
    BY <1>2, <1>3 DEF Live, Exists
  <2>2. Live(t)' /\ ~Live(t)
    BY <1>1, <1>2 DEF Live, Exists
  <2> QED  BY <1>2, <2>1, <2>2 DEF Members
<1>6. [f \in Tokens |-> IF token'[f].family = f THEN token'[f].user ELSE None]
        = [[f \in Tokens |-> IF token[f].family = f THEN token[f].user ELSE None]
             EXCEPT ![t] = u]
  BY <1>2
<1>7. [f \in Tokens |-> IF f \in raced' THEN {} ELSE {s \in Members(f)' : Live(s)'}]
        = [[f \in Tokens |-> IF f \in raced THEN {} ELSE {s \in Members(f) : Live(s)}]
             EXCEPT ![t] = {t}]
  BY <1>1, <1>5
<1> QED  BY <1>1, <1>4, <1>6, <1>7 DEF Session!Begin

\* A rotation refreshes its session, or overlaps with what has replaced or
\* ended the token it was shown.
LEMMA MintRefreshes ==
  ASSUME TokensInv, NEW r \in Rotations, NEW s \in Tokens, Mint(r, s)
  PROVE  LET f == token[rotation[r].token].family
         IN  f \in Tokens /\ (Session!Refresh(f, s) \/ Session!Overlap(f, s))
<1> DEFINE t == rotation[r].token
           f == token[t].family
           owner == [g \in Tokens |-> IF token[g].family = g THEN token[g].user ELSE None]
           current == [g \in Tokens |-> IF g \in raced THEN {} ELSE {q \in Members(g) : Live(q)}]
<1>1. /\ t \in Tokens /\ Exists(t) /\ ~Exists(s) /\ s # t
      /\ f \in Tokens /\ Exists(f) /\ f # s
      /\ token[f].user = token[t].user /\ token[f].family = f
      /\ token'[s] # NoToken /\ ~token'[s].revoked
      /\ token'[s].family = f /\ token'[s].user = token[t].user
      /\ token'[t].revoked
      /\ \A q \in Tokens \ {s} : /\ token'[q] # NoToken <=> Exists(q)
                                 /\ token'[q].family = token[q].family
                                 /\ token'[q].user = token[q].user
      /\ \A q \in Tokens \ {s, t} : token'[q] = token[q]
  BY MintedRows
<1>2. raced' = IF token[t].revoked THEN raced \cup {f} ELSE raced
  BY DEF Mint
<1>3. token[s].family = None /\ token[f].user # None /\ token[t].revoked \in BOOLEAN
  BY <1>1, RowFields, TokenAssumption DEF TokensInv
<1> HIDE DEF t, f
<1>4. {q \in Tokens : Exists(q)'} = {q \in Tokens : Exists(q)} \cup {s}
  BY <1>1 DEF Exists
<1>5. owner' = owner
  <2>1. \A g \in Tokens : IF token'[g].family = g
                          THEN token[g].family = g /\ token'[g].user = token[g].user
                          ELSE token[g].family # g
    BY <1>1, <1>3, TokenAssumption
  <2> QED  BY <2>1
<1>6. \A g \in Tokens \ {f} :
        {q \in Members(g)' : Live(q)'} = {q \in Members(g) : Live(q)}
  <2> SUFFICES ASSUME NEW g \in Tokens \ {f}, NEW q \in Tokens
               PROVE  token'[q].family = g /\ Live(q)' <=> token[q].family = g /\ Live(q)
    BY DEF Members
  <2>1. CASE q \in {s, t}
    BY <2>1, <1>1, <1>3, TokenAssumption DEF f
  <2>2. CASE q \notin {s, t}
    BY <2>2, <1>1 DEF Live, Exists
  <2> QED  BY <2>1, <2>2
<1>7. CASE token[t].revoked \/ f \in raced
  <2>1. raced' = raced \cup {f}
    BY <1>2, <1>7
  <2>2. current' = [current EXCEPT ![f] = {}]
    BY <1>6, <2>1
  <2>3. owner[f] # None
    BY <1>1, <1>3
  <2>4. Session!Overlap(f, s)
    BY <1>1, <1>4, <1>5, <2>1, <2>2, <2>3 DEF Session!Overlap
  <2> QED  BY <1>1, <2>4 DEF f, t
<1>8. CASE ~token[t].revoked /\ f \notin raced
  <2>1. raced' = raced
    BY <1>2, <1>8
  <2>2. Live(t) /\ token[t].family = f
    BY <1>1, <1>8 DEF Live, f
  <2>3. \A q \in Tokens : Live(q)' /\ token'[q].family = f => q = s
    <3> SUFFICES ASSUME NEW q \in Tokens \ {s, t}, Live(q)', token'[q].family = f
                 PROVE  FALSE
      BY <1>1 DEF Live
    <3>1. Live(q) /\ token[q].family = f
      BY <1>1 DEF Live, Exists
    <3> QED  BY <1>1, <1>8, <2>2, <3>1 DEF TokensInv, OneLiveSuccessor
  <2>4. \A g \in {f} : {q \in Members(g)' : Live(q)'} = {s}
    <3>1. s \in Tokens /\ Live(s)' /\ token'[s].family = f
      BY <1>1 DEF Live, Exists
    <3> QED  BY <2>3, <3>1 DEF Members
  <2>5. current' = [current EXCEPT ![f] = {s}]
    BY <1>6, <1>8, <2>1, <2>4
  <2>6. current[f] # {}
    BY <1>1, <1>8, <2>2 DEF Members
  <2>7. Session!Refresh(f, s)
    BY <1>1, <1>4, <1>5, <2>1, <2>5, <2>6 DEF Session!Refresh
  <2> QED  BY <1>1, <2>7 DEF f, t
<1> QED  BY <1>3, <1>7, <1>8

\* The steps that revoke end a session, or all those of a user.
LEMMA RevokingView ==
  ASSUME TokensInv,
         \/ \E r \in Rotations : RevokeFamily(r)
         \/ \E t \in Tokens : Revoke(t)
         \/ \E u \in Users : RevokeAllForUser(u)
  PROVE  Session!SessionsNext
<1>1. ASSUME NEW r \in Rotations, RevokeFamily(r) PROVE Session!SessionsNext
  <2>1. rotation[r].token \in Tokens /\ Exists(rotation[r].token)
    BY <1>1, RotationFields DEF RevokeFamily, TokensInv, ReferencesExist
  <2>2. PICK f \in Tokens : f = token[rotation[r].token].family
    BY <2>1, RowFields DEF TokensInv
  <2>3. PICK rows : rows = Members(f)
    OBVIOUS
  <2>4. token' = Revoked(rows) /\ raced' = raced
    BY <1>1, <2>2, <2>3 DEF RevokeFamily, Compromised
  <2>5. \A t \in Tokens : t \in rows => Exists(t)
    BY <2>2, <2>3, RowFields, TokenAssumption DEF TokensInv, Members
  <2>6. PICK ended : ended = {f}
    OBVIOUS
  <2>7. \A t \in Tokens : Live(t) /\ token[t].family \notin raced
                            => (t \in rows <=> token[t].family \in ended)
    BY <2>3, <2>6 DEF Members
  <2>8. Session!End(ended)
    BY <2>4, <2>5, <2>7, RevokingEnds
  <2> QED  BY <2>6, <2>8 DEF Session!SessionsNext
<1>2. ASSUME NEW t \in Tokens, Revoke(t) PROVE Session!SessionsNext
  <2>1. Live(t) /\ token' = Revoked({t}) /\ raced' = raced /\ Exists(t)
    BY <1>2 DEF Revoke, Live
  <2>2. PICK f \in Tokens : f = token[t].family
    BY <2>1, RowFields DEF TokensInv
  <2>3. PICK rows, ended : rows = {t} /\ ended = {f}
    OBVIOUS
  <2>4. \A s \in Tokens : Live(s) /\ token[s].family \notin raced
                            => (s \in rows <=> token[s].family \in ended)
    BY <2>1, <2>2, <2>3 DEF TokensInv, OneLiveSuccessor
  <2>5. \A s \in Tokens : s \in rows => Exists(s)
    BY <2>1, <2>3
  <2>6. token' = Revoked(rows)
    BY <2>1, <2>3
  <2>7. Session!End(ended)
    BY <2>1, <2>4, <2>5, <2>6, RevokingEnds
  <2> QED  BY <2>3, <2>7 DEF Session!SessionsNext
<1>3. ASSUME NEW u \in Users, RevokeAllForUser(u) PROVE Session!SessionsNext
  <2> DEFINE owner == [f \in Tokens |-> IF token[f].family = f THEN token[f].user ELSE None]
             hers == {f \in Tokens : owner[f] = u}
  <2>1. PICK rows : rows = {t \in Tokens : token[t].user = u}
    OBVIOUS
  <2>2. PICK ended : ended = hers
    OBVIOUS
  <2>3. token' = Revoked(rows) /\ raced' = raced
    BY <1>3, <2>1 DEF RevokeAllForUser
  <2>4. \A t \in Tokens : t \in rows => Exists(t)
    BY <2>1, RowFields, TokenAssumption DEF TokensInv
  <2>5. \A t \in Tokens : Live(t) /\ token[t].family \notin raced
                            => (t \in rows <=> token[t].family \in ended)
    <3> SUFFICES ASSUME NEW t \in Tokens, Exists(t)
                 PROVE  token[t].user = u <=> token[t].family \in hers
      BY <2>1, <2>2 DEF Live
    <3>1. token[t].family \in Tokens
      BY RowFields DEF TokensInv
    <3>2. owner[token[t].family] = token[t].user
      BY <3>1 DEF TokensInv, FamilyOfOneUser
    <3> QED  BY <3>1, <3>2
  <2>6. Session!End(ended)
    BY <2>3, <2>4, <2>5, RevokingEnds
  <2>7. Session!End(hers)
    BY <2>2, <2>6 DEF Session!End
  <2> QED  BY <2>7, Zenon DEF Session!SessionsNext
<1> QED  BY <1>1, <1>2, <1>3

LEMMA SessionsStep ==
  TokensInv /\ [TokensNext]_tokenVars => [Session!SessionsNext]_Session!sessionVars
<1> SUFFICES ASSUME TokensInv, [TokensNext]_tokenVars
             PROVE  [Session!SessionsNext]_Session!sessionVars
  OBVIOUS
<1>1. ASSUME UNCHANGED <<token, raced>> PROVE UNCHANGED Session!sessionVars
  BY <1>1 DEF Session!sessionVars, Members, Live, Exists
<1>2. ASSUME NEW u \in Users, NEW t \in Tokens, Issue(u, t) PROVE Session!SessionsNext
  BY <1>2, IssueBegins DEF Session!SessionsNext
<1>3. ASSUME NEW r \in Rotations, RotationEnds(r) \/ \E t \in Tokens : Present(r, t)
      PROVE  UNCHANGED <<token, raced>>
  BY <1>3 DEF RotationEnds, Present
<1>4. ASSUME NEW r \in Rotations, NEW t \in Tokens, Mint(r, t) PROVE Session!SessionsNext
  BY <1>4, MintRefreshes DEF Session!SessionsNext
<1>5. ASSUME NEW t \in Tokens, Expire(t) PROVE UNCHANGED Session!sessionVars
  <2>1. raced' = raced /\ \A s \in Tokens :
          /\ (token'[s] # NoToken <=> Exists(s)) /\ (Live(s)' <=> Live(s))
          /\ token'[s].family = token[s].family
          /\ token'[s].user = token[s].user
    BY <1>5, ExpiredRows DEF Expire
  <2>2. \A f \in Tokens : {s \in Members(f)' : Live(s)'} = {s \in Members(f) : Live(s)}
    BY <2>1 DEF Members
  <2>3. [f \in Tokens |-> IF f \in raced' THEN {} ELSE {s \in Members(f)' : Live(s)'}]
          = [f \in Tokens |-> IF f \in raced THEN {} ELSE {s \in Members(f) : Live(s)}]
    BY <2>1, <2>2
  <2> QED  BY <2>1, <2>3, SameOwners DEF Session!sessionVars
<1>6. CASE \/ \E r \in Rotations : RevokeFamily(r)
           \/ \E t \in Tokens : Revoke(t)
           \/ \E u \in Users : RevokeAllForUser(u)
  BY <1>6, RevokingView
<1>7. CASE UNCHANGED tokenVars
  BY <1>1, <1>7 DEF tokenVars
<1> QED  BY <1>1, <1>2, <1>3, <1>4, <1>5, <1>6, <1>7 DEF TokensNext, RefreshStep

\* SessionsKept: whatever refreshes overlap, tokens are shown late or twice,
\* and sessions end in between, the rows of the tokens keep every session as
\* LoginSessions promises it, for any number of users, tokens and requests.
THEOREM TokensKeepSessions == TokensSpec => SessionsKept
  BY SessionsInitial, SessionsStep, TokensSafe, TokensInitial, PTL
     DEF TokensSpec, SessionsKept, Session!SessionsSpec

-----------------------------------------------------------------------------
(* Accounts *)


LinksInv ==
  /\ \A c, d \in Calls :
       /\ call[c].step \in {"invalidate", "mint"} /\ call[d].step \in {"invalidate", "mint"}
       /\ call[c].user = call[d].user /\ call[c].user \notin overlapped
       => c = d
  /\ \A c \in Calls, n \in Resets :
       call[c].step = "mint" /\ call[c].user \notin overlapped
         /\ reset[n].user = call[c].user => ~reset[n].live

ConfirmsProved ==
  \A c \in Calls : call[c].step = "confirm" => call[c].row.secret \in proved[call[c].user] \cap Secrets

AccountsInv ==
  /\ TypeOK /\ TokensInv
  /\ FailuresAreCounted
  /\ OneValidLink /\ LinksInv
  /\ ActiveSecretWasProved /\ ConfirmsProved

-----------------------------------------------------------------------------
\* What a call in progress holds.
LEMMA CallFields ==
  ASSUME TypeOK, NEW c \in Calls
  PROVE  /\ call[c] = NoCall <=> call[c].step = "none"
         /\ call[c] # NoCall => call[c] \in Call
         /\ call[c].step # "none" =>
              /\ call[c].user \in Users /\ call[c].password \in Passwords \cup {None}
              /\ call[c].reset \in Resets \cup {None}
              /\ call[c].row.failed \in 0..MaxFailed
              /\ call[c].row.secret \in Secrets \cup {None}
<1>1. call[c] \in Call \cup {NoCall}
  BY DEF TypeOK
<1>2. NoCall.step = "none"
  BY DEF NoCall
<1>3. ASSUME call[c] \in Call
      PROVE  /\ call[c].step # "none"
             /\ call[c].user \in Users /\ call[c].password \in Passwords \cup {None}
             /\ call[c].reset \in Resets \cup {None}
             /\ call[c].row \in Reading
  BY <1>3 DEF Call, Steps
<1>4. \A row \in Reading : row.failed \in 0..MaxFailed /\ row.secret \in Secrets \cup {None}
  BY DEF Reading
<1> QED  BY <1>1, <1>2, <1>3, <1>4

\* Accounts does nothing to the tokens that RefreshTokens does not.
LEMMA TokensView == TypeOK /\ [Next]_vars => [TokensNext]_tokenVars
<1> SUFFICES ASSUME TypeOK, [Next]_vars PROVE [TokensNext]_tokenVars
  OBVIOUS
<1>1. CASE UNCHANGED vars
  BY <1>1 DEF vars
<1>2. CASE RefreshStep /\ UNCHANGED accountVars
  BY <1>2 DEF TokensNext
<1>3. CASE \E c \in Calls, t \in Tokens : IssueSession(c, t)
  <2>1. PICK c \in Calls, t \in Tokens : IssueSession(c, t)
    BY <1>3
  <2>2. call[c].user \in Users /\ Issue(call[c].user, t)
    BY <2>1, CallFields DEF IssueSession
  <2> QED  BY <2>2 DEF TokensNext
<1>4. CASE \E c \in Calls : RevokeSessions(c)
  <2>1. PICK c \in Calls : RevokeSessions(c)
    BY <1>4
  <2>2. call[c].user \in Users /\ RevokeAllForUser(call[c].user)
    BY <2>1, CallFields DEF RevokeSessions
  <2> QED  BY <2>2 DEF TokensNext
<1>5. ASSUME NEW u \in Users,
             \/ SendVerification(u) \/ VerifyEmail(u) \/ Lapse(u)
             \/ \E p \in Passwords : Register(u, p)
      PROVE  UNCHANGED tokenVars
  BY <1>5 DEF SendVerification, VerifyEmail, Lapse, Register
<1>6. ASSUME NEW c \in Calls,
             \/ LoginFails(c) \/ LoginPasses(c) \/ CallEnds(c)
             \/ InvalidateLinks(c) \/ WritePassword(c) \/ WriteMfa(c)
             \/ \E n \in Resets : MintLink(c, n) \/ \E p \in Passwords : ResetPassword(c, n, p)
      PROVE  UNCHANGED tokenVars
  BY <1>6 DEF LoginFails, LoginPasses, CallEnds, InvalidateLinks, WritePassword, WriteMfa,
              MintLink, ResetPassword, MfaUnchanged
<1>7. ASSUME NEW c \in Calls, NEW u \in Users,
             \/ \E p \in Passwords \cup {None} : Login(c, u, p)
             \/ AnswerChallenge(c, u) \/ ForgotPassword(c, u)
             \/ BeginSetup(c, u) \/ ConfirmSetup(c, u) \/ CancelSetup(c, u) \/ Disable(c, u)
      PROVE  UNCHANGED tokenVars
  BY <1>7 DEF Login, AnswerChallenge, ForgotPassword, BeginSetup, ConfirmSetup, CancelSetup,
              Disable, MfaUnchanged
<1> QED  BY <1>1, <1>2, <1>3, <1>4, <1>5, <1>6, <1>7 DEF Next

-----------------------------------------------------------------------------
\* A step that starts, moves on or ends a call keeps the calls' type.
LEMMA CallsStayTyped ==
  ASSUME TypeOK, NEW c \in Calls,
         \/ Ends(c)
         \/ \E s \in Steps : Goes(c, s) /\ call[c] # NoCall
         \/ \E s \in Steps, u \in Users, p \in Passwords \cup {None},
               n \in Resets \cup {None}, row \in Reading : Begin(c, s, u, p, n, row)
  PROVE  /\ call' \in [Calls -> Call \cup {NoCall}]
         /\ \A d \in Calls \ {c} : call'[d] = call[d]
<1>1. CASE Ends(c)
  BY <1>1 DEF Ends, TypeOK
<1>2. ASSUME NEW s \in Steps, Goes(c, s), call[c] # NoCall
      PROVE  /\ call' \in [Calls -> Call \cup {NoCall}]
             /\ \A d \in Calls \ {c} : call'[d] = call[d]
  <2>1. call[c] \in Call
    BY <1>2, CallFields
  <2>2. [call[c] EXCEPT !.step = s] \in Call
    BY <2>1 DEF Call
  <2> QED  BY <1>2, <2>2 DEF Goes, TypeOK
<1>3. ASSUME NEW s \in Steps, NEW u \in Users, NEW p \in Passwords \cup {None},
             NEW n \in Resets \cup {None}, NEW row \in Reading, Begin(c, s, u, p, n, row)
      PROVE  /\ call' \in [Calls -> Call \cup {NoCall}]
             /\ \A d \in Calls \ {c} : call'[d] = call[d]
  <2>1. [step |-> s, user |-> u, password |-> p, reset |-> n, row |-> row] \in Call
    BY DEF Call
  <2> QED  BY <1>3, <2>1 DEF Begin, TypeOK
<1> QED  BY <1>1, <1>2, <1>3

\* What a handler reads of a user is a reading.
LEMMA SeenIsReading == ASSUME TypeOK, NEW u \in Users PROVE Seen(u) \in Reading /\ Unread \in Reading
  BY AccountAssumption DEF TypeOK, UserRow, Seen, Unread, Reading

\* The writes of the handlers keep a row a row.
LEMMA RowWrites ==
  ASSUME NEW row \in UserRow
  PROVE  /\ [row EXCEPT !.verified = TRUE] \in UserRow
         /\ [row EXCEPT !.locked = FALSE] \in UserRow
         /\ [row EXCEPT !.totp = "none", !.secret = None] \in UserRow
         /\ \A p \in Passwords \cup {None} :
              /\ [row EXCEPT !.password = p] \in UserRow
              /\ [row EXCEPT !.failed = 0, !.locked = FALSE, !.password = p] \in UserRow
              /\ [row EXCEPT !.password = p, !.failed = 0, !.locked = FALSE] \in UserRow
         /\ \A f \in 0..MaxFailed, l \in BOOLEAN :
              [row EXCEPT !.failed = f, !.locked = l] \in UserRow
<1>1. 0 \in 0..MaxFailed
  BY AccountAssumption
<1>2. /\ [row EXCEPT !.verified = TRUE] \in UserRow
      /\ [row EXCEPT !.locked = FALSE] \in UserRow
  BY DEF UserRow
<1>3. [row EXCEPT !.totp = "none", !.secret = None] \in UserRow
  BY DEF UserRow
<1>4. \A p \in Passwords \cup {None} : [row EXCEPT !.password = p] \in UserRow
  BY DEF UserRow
<1>5. \A p \in Passwords \cup {None} :
        /\ [row EXCEPT !.failed = 0, !.locked = FALSE, !.password = p] \in UserRow
        /\ [row EXCEPT !.password = p, !.failed = 0, !.locked = FALSE] \in UserRow
  BY <1>1 DEF UserRow
<1>6. \A f \in 0..MaxFailed, l \in BOOLEAN :
        [row EXCEPT !.failed = f, !.locked = l] \in UserRow
  BY DEF UserRow
<1> QED  BY <1>2, <1>3, <1>4, <1>5, <1>6

\* A second factor comes with its secret.
LEMMA FactorWrites ==
  ASSUME NEW row \in UserRow, NEW k \in Secrets
  PROVE  /\ [row EXCEPT !.totp = "staged", !.secret = k] \in UserRow
         /\ [row EXCEPT !.totp = "active", !.secret = k] \in UserRow
  BY AccountAssumption DEF UserRow

\* Every write of a user's row writes a row.
LEMMA UserStaysTyped ==
  ASSUME AccountsInv, Next, user' # user
  PROVE  user' \in [Users -> UserRow]
<1> USE AccountAssumption DEF AccountsInv
<1>1. \A u \in Users : user[u] \in UserRow /\ user[u].password \in Passwords \cup {None}
  BY DEF TypeOK, UserRow
<1>2. \A n \in Nat : AtMost(n) \in 0..MaxFailed
  BY DEF AtMost
<1>3. ASSUME NEW u \in Users, \/ VerifyEmail(u) \/ Lapse(u) \/ \E p \in Passwords : Register(u, p)
      PROVE  user' \in [Users -> UserRow]
  <2>1. user[u] \in UserRow /\ user \in [Users -> UserRow]
    BY DEF TypeOK
  <2>2. \/ user' = user
        \/ user' = [user EXCEPT ![u] = [@ EXCEPT !.verified = TRUE]]
        \/ user' = [user EXCEPT ![u] = [@ EXCEPT !.locked = FALSE]]
        \/ \E p \in Passwords : user' = [user EXCEPT ![u] = [@ EXCEPT !.password = p]]
    BY <1>3 DEF VerifyEmail, Lapse, Register
  <2>3. \/ user' = user
        \/ \E row \in UserRow : user' = [user EXCEPT ![u] = row]
    BY <2>1, <2>2, RowWrites
  <2> QED  BY <2>1, <2>3
<1>4. ASSUME NEW c \in Calls, LoginFails(c) PROVE user' \in [Users -> UserRow]
  <2>1. call[c].user \in Users /\ call[c].row.failed + 1 \in Nat
    BY <1>4, CallFields DEF LoginFails
  <2>2. Failure(c) \in UserRow
    <3> DEFINE n == call[c].row.failed + 1
    <3>1. AtMost(n) \in 0..MaxFailed
      BY <1>2, <2>1
    <3>2. Failure(c) = [user[call[c].user] EXCEPT !.failed = AtMost(n), !.locked = (n >= MaxFailed)]
      BY DEF Failure
    <3>3. \A f \in 0..MaxFailed, l \in BOOLEAN :
            [user[call[c].user] EXCEPT !.failed = f, !.locked = l] \in UserRow
      BY <1>1, <2>1, RowWrites
    <3>4. CASE n >= MaxFailed
      <4>1. (n >= MaxFailed) = TRUE
        BY <3>4
      <4>2. Failure(c) = [user[call[c].user] EXCEPT !.failed = AtMost(n), !.locked = TRUE]
        BY <3>2, <4>1, Zenon
      <4> QED  BY <3>1, <3>3, <4>2
    <3>5. CASE ~(n >= MaxFailed)
      <4>1. (n >= MaxFailed) = FALSE
        BY <3>5
      <4>2. Failure(c) = [user[call[c].user] EXCEPT !.failed = AtMost(n), !.locked = FALSE]
        BY <3>2, <4>1, Zenon
      <4> QED  BY <3>1, <3>3, <4>2
    <3> QED  BY <3>4, <3>5
  <2> QED  BY <1>4, <2>1, <2>2 DEF LoginFails, TypeOK
<1>5. ASSUME NEW c \in Calls, LoginPasses(c) PROVE user' \in [Users -> UserRow]
  <2> DEFINE u == call[c].user
  <2>1. u \in Users /\ call[c].password \in Passwords \cup {None}
    BY <1>5, CallFields DEF LoginPasses
  <2>2. PICK p \in Passwords \cup {None} :
          user' = [user EXCEPT ![u].failed = 0, ![u].locked = FALSE, ![u].password = p]
    BY <1>1, <1>5, <2>1 DEF LoginPasses
  <2>3. 0 \in 0..MaxFailed
    OBVIOUS
  <2>4. [user[u] EXCEPT !.failed = 0, !.locked = FALSE, !.password = p] \in UserRow
    BY <1>1, <2>1, <2>3, RowWrites
  <2> QED  BY <2>1, <2>2, <2>4 DEF TypeOK
<1>6. ASSUME NEW c \in Calls, WritePassword(c) PROVE user' \in [Users -> UserRow]
  <2> DEFINE u == call[c].user
             p == call[c].password
  <2>1. u \in Users /\ p \in Passwords \cup {None}
    BY <1>6, CallFields DEF WritePassword
  <2>2. user' = [user EXCEPT ![u].password = p, ![u].failed = 0, ![u].locked = FALSE]
    BY <1>6 DEF WritePassword
  <2>3. 0 \in 0..MaxFailed
    OBVIOUS
  <2>4. [user[u] EXCEPT !.password = p, !.failed = 0, !.locked = FALSE] \in UserRow
    BY <1>1, <2>1, <2>3, RowWrites
  <2> QED  BY <2>1, <2>2, <2>4 DEF TypeOK
<1>7. ASSUME NEW c \in Calls, WriteMfa(c) PROVE user' \in [Users -> UserRow]
  <2> DEFINE u == call[c].user
  <2>1. u \in Users
    BY <1>7, CallFields DEF WriteMfa
  <2>2. user[u] \in UserRow /\ user \in [Users -> UserRow]
    BY <1>1, <2>1 DEF TypeOK
  <2>3. ASSUME NEW k \in Secrets, user' = [user EXCEPT ![u].totp = "staged", ![u].secret = k]
        PROVE  user' \in [Users -> UserRow]
    <3>1. [user[u] EXCEPT !.totp = "staged", !.secret = k] \in UserRow
      BY <2>2, FactorWrites
    <3> QED  BY <2>1, <2>2, <2>3, <3>1
  <2>5. CASE call[c].step = "confirm"
    <3>1. Committed(c) \in Secrets
      BY <2>5 DEF Committed, ConfirmsProved
    <3>2. [user[u] EXCEPT !.totp = "active", !.secret = Committed(c)] \in UserRow
      BY <2>2, <3>1, FactorWrites
    <3>3. user' = [user EXCEPT ![u].totp = "active", ![u].secret = Committed(c)]
      BY <1>7, <2>5 DEF WriteMfa
    <3> QED  BY <2>1, <2>2, <3>2, <3>3
  <2>6. CASE user' = [user EXCEPT ![u].totp = "none", ![u].secret = None]
    <3>1. [user[u] EXCEPT !.totp = "none", !.secret = None] \in UserRow
      BY <2>2, RowWrites
    <3> QED  BY <2>1, <2>2, <2>6, <3>1
  <2> QED  BY <1>7, <2>3, <2>5, <2>6 DEF WriteMfa
<1>8. \/ \E u \in Users : VerifyEmail(u) \/ Lapse(u) \/ \E p \in Passwords : Register(u, p)
      \/ \E c \in Calls : LoginFails(c) \/ LoginPasses(c) \/ WritePassword(c) \/ WriteMfa(c)
  BY DEF Next, accountVars, SendVerification, CallEnds, InvalidateLinks, RevokeSessions,
         IssueSession, MintLink, ResetPassword, Login, AnswerChallenge, ForgotPassword,
         BeginSetup, ConfirmSetup, CancelSetup, Disable, MfaUnchanged
<1> QED  BY <1>3, <1>4, <1>5, <1>6, <1>7, <1>8

\* A step works for one call at most, and starts, moves on or ends it.
LEMMA CallStaysTyped ==
  ASSUME AccountsInv, Next
  PROVE  call' \in [Calls -> Call \cup {NoCall}]
<1> USE DEF AccountsInv
<1>1. ASSUME NEW c \in Calls,
             \/ LoginFails(c) \/ LoginPasses(c) \/ CallEnds(c) \/ InvalidateLinks(c)
             \/ WritePassword(c) \/ RevokeSessions(c) \/ WriteMfa(c)
             \/ \E t \in Tokens : IssueSession(c, t)
             \/ \E n \in Resets : MintLink(c, n)
      PROVE  call' \in [Calls -> Call \cup {NoCall}]
  <2>1. Ends(c) \/ \E s \in Steps : Goes(c, s) /\ call[c] # NoCall
    BY <1>1, CallFields DEF LoginFails, LoginPasses, CallEnds, InvalidateLinks, WritePassword,
         RevokeSessions, WriteMfa, IssueSession, MintLink, Steps
  <2> QED  BY <2>1, CallsStayTyped
<1>2. ASSUME NEW c \in Calls, NEW n \in Resets, NEW p \in Passwords, ResetPassword(c, n, p)
      PROVE  call' \in [Calls -> Call \cup {NoCall}]
  <2>1. reset[n].user \in Users
    BY <1>2 DEF ResetPassword, TypeOK, ResetRow, NoReset
  <2>2. "write" \in Steps /\ Unread \in Reading
    BY AccountAssumption DEF Steps, Unread, Reading
  <2> QED  BY <1>2, <2>1, <2>2, CallsStayTyped DEF ResetPassword
<1>3. ASSUME NEW c \in Calls, NEW u \in Users,
             \/ \E p \in Passwords \cup {None} : Login(c, u, p)
             \/ AnswerChallenge(c, u) \/ ForgotPassword(c, u)
             \/ BeginSetup(c, u) \/ ConfirmSetup(c, u) \/ CancelSetup(c, u) \/ Disable(c, u)
      PROVE  call' \in [Calls -> Call \cup {NoCall}]
  <2>1. Seen(u) \in Reading /\ Unread \in Reading
    BY SeenIsReading
  <2>2. \E s \in Steps, p \in Passwords \cup {None}, row \in Reading : Begin(c, s, u, p, None, row)
    BY <1>3, <2>1 DEF Login, AnswerChallenge, ForgotPassword, BeginSetup, ConfirmSetup,
         CancelSetup, Disable, Steps
  <2> QED  BY <2>2, CallsStayTyped
<1>4. CASE UNCHANGED call
  BY <1>4 DEF TypeOK
<1>5. ASSUME NEW u \in Users,
             \/ SendVerification(u) \/ VerifyEmail(u) \/ Lapse(u)
             \/ \E p \in Passwords : Register(u, p)
      PROVE  UNCHANGED call
  BY <1>5 DEF SendVerification, VerifyEmail, Lapse, Register
<1>6. UNCHANGED accountVars => UNCHANGED call
  BY DEF accountVars
<1> QED  BY <1>1, <1>2, <1>3, <1>4, <1>5, <1>6 DEF Next

\* Marking an absent link used leaves it absent.
LEMMA DeadNoReset == [NoReset EXCEPT !.live = FALSE] = NoReset
<1> DEFINE e == [NoReset EXCEPT !.live = FALSE]
<1>1. e = [x \in {"user", "live"} |-> e[x]] /\ e.user = None /\ e.live = FALSE
  BY DEF NoReset
<1>2. /\ NoReset = [x \in {"user", "live"} |-> NoReset[x]]
      /\ NoReset.user = None /\ NoReset.live = FALSE
  BY DEF NoReset
<1> QED  BY <1>1, <1>2

\* The rest of the state keeps its type.
LEMMA RestStaysTyped ==
  ASSUME AccountsInv, Next
  PROVE  /\ link' \in [Users -> {"none", "sent", "used", "expired"}]
         /\ reset' \in [Resets -> ResetRow \cup {NoReset}]
         /\ cooling' \subseteq Users /\ challenge' \subseteq Users
         /\ wrong' \in [Users -> 0..MaxFailed]
         /\ lost' \subseteq Users /\ overlapped' \subseteq Users
         /\ proved' \in [Users -> SUBSET Secrets]
         /\ stale' \subseteq Tokens
<1> USE DEF AccountsInv
<1> DEFINE Rest ==
      /\ link' \in [Users -> {"none", "sent", "used", "expired"}]
      /\ reset' \in [Resets -> ResetRow \cup {NoReset}]
      /\ cooling' \subseteq Users /\ challenge' \subseteq Users
      /\ wrong' \in [Users -> 0..MaxFailed]
      /\ lost' \subseteq Users /\ overlapped' \subseteq Users
      /\ proved' \in [Users -> SUBSET Secrets]
      /\ stale' \subseteq Tokens
<1>1. CASE UNCHANGED accountVars
  BY <1>1 DEF accountVars, TypeOK
<1>2. ASSUME NEW n \in Resets
      PROVE  [reset[n] EXCEPT !.live = FALSE] \in ResetRow \cup {NoReset}
  <2>1. reset[n] \in ResetRow \cup {NoReset}
    BY DEF TypeOK
  <2>2. [NoReset EXCEPT !.live = FALSE] = NoReset
    BY DeadNoReset
  <2>3. \A row \in ResetRow : [row EXCEPT !.live = FALSE] \in ResetRow
    BY DEF ResetRow
  <2> QED  BY <2>1, <2>2, <2>3
<1>3. ASSUME NEW u \in Users, \/ SendVerification(u) \/ VerifyEmail(u)
                              \/ \E p \in Passwords : Register(u, p)
      PROVE  Rest
  BY <1>3 DEF SendVerification, VerifyEmail, Register, TypeOK
<1>4. ASSUME NEW u \in Users, Lapse(u) PROVE Rest
  BY <1>2, <1>4 DEF Lapse, TypeOK
<1>5. ASSUME NEW c \in Calls, LoginFails(c) \/ LoginPasses(c) PROVE Rest
  <2>1. call[c].user \in Users
    BY <1>5, CallFields DEF LoginFails, LoginPasses
  <2>2. \A n \in 0..MaxFailed : AtMost(n + 1) \in 0..MaxFailed /\ 0 \in 0..MaxFailed
    BY AccountAssumption DEF AtMost
  <2>3. wrong' \in [Users -> 0..MaxFailed]
    BY <1>5, <2>1, <2>2, AccountAssumption DEF LoginFails, LoginPasses, TypeOK
  <2>4. lost' \subseteq Users /\ challenge' \subseteq Users
    BY <1>5, <2>1 DEF LoginFails, LoginPasses, TypeOK
  <2> QED  BY <1>5, <2>3, <2>4 DEF LoginFails, LoginPasses, TypeOK
<1>6. ASSUME NEW c \in Calls, \/ CallEnds(c) \/ RevokeSessions(c) \/ WriteMfa(c)
                              \/ \E t \in Tokens : IssueSession(c, t)
      PROVE  Rest
  <2>1. \A t \in Tokens : token[t].user = call[c].user /\ RevokeSessions(c)
                            => token[t].family \in Tokens
    <3> SUFFICES ASSUME NEW t \in Tokens, token[t].user = call[c].user, RevokeSessions(c)
                 PROVE  token[t].family \in Tokens
      OBVIOUS
    <3>1. call[c].user \in Users
      BY CallFields DEF RevokeSessions
    <3> QED  BY <3>1, RowFields, TokenAssumption DEF TypeOK
  <2> QED  BY <1>6, <2>1 DEF CallEnds, RevokeSessions, WriteMfa, IssueSession, MfaUnchanged, TypeOK
<1>7. ASSUME NEW c \in Calls, \/ InvalidateLinks(c) \/ \E n \in Resets : MintLink(c, n)
      PROVE  Rest
  <2>1. call[c].user \in Users
    BY <1>7, CallFields DEF InvalidateLinks, MintLink
  <2>2. [user |-> call[c].user, live |-> TRUE] \in ResetRow
    BY <2>1 DEF ResetRow
  <2>3. CASE InvalidateLinks(c)
    <3>1. \A n \in Resets : reset'[n] \in ResetRow \cup {NoReset}
      BY <1>2, <2>3 DEF InvalidateLinks, Invalidated, TypeOK
    <3>2. reset' \in [Resets -> ResetRow \cup {NoReset}]
      BY <2>3, <3>1 DEF InvalidateLinks, Invalidated
    <3> QED  BY <2>3, <3>2 DEF InvalidateLinks, TypeOK
  <2>4. CASE \E n \in Resets : MintLink(c, n)
    BY <2>1, <2>2, <2>4 DEF MintLink, TypeOK
  <2> QED  BY <1>7, <2>3, <2>4
<1>8. ASSUME NEW c \in Calls, WritePassword(c) PROVE Rest
  <2>1. call[c].user \in Users
    BY <1>8, CallFields DEF WritePassword
  <2>2. reset' \in [Resets -> ResetRow \cup {NoReset}]
    <3>1. reset' = [reset EXCEPT ![call[c].reset].live = FALSE]
      BY <1>8 DEF WritePassword
    <3> QED  BY <1>2, <3>1 DEF TypeOK
  <2>3. wrong' \in [Users -> 0..MaxFailed]
    BY <1>8, <2>1, AccountAssumption DEF WritePassword, TypeOK
  <2> QED  BY <1>8, <2>2, <2>3 DEF WritePassword, TypeOK
<1>9. ASSUME NEW c \in Calls, NEW n \in Resets, NEW p \in Passwords, ResetPassword(c, n, p)
      PROVE  Rest
  BY <1>9 DEF ResetPassword, TypeOK
<1>10. ASSUME NEW c \in Calls, NEW u \in Users,
             \/ \E p \in Passwords \cup {None} : Login(c, u, p)
             \/ AnswerChallenge(c, u) \/ ForgotPassword(c, u)
             \/ BeginSetup(c, u) \/ CancelSetup(c, u) \/ Disable(c, u)
      PROVE  Rest
  BY <1>10 DEF Login, AnswerChallenge, ForgotPassword, BeginSetup, CancelSetup, Disable,
               MfaUnchanged, TypeOK
<1>11. ASSUME NEW c \in Calls, NEW u \in Users, ConfirmSetup(c, u) PROVE Rest
  <2>1. user[u].secret \in Secrets
    <3>1. user[u] \in UserRow /\ user[u].totp = "staged"
      BY <1>11 DEF ConfirmSetup, TypeOK
    <3> QED  BY <3>1 DEF UserRow
  <2> QED  BY <1>11, <2>1 DEF ConfirmSetup, MfaUnchanged, TypeOK
<1> QED  BY <1>1, <1>3, <1>4, <1>5, <1>6, <1>7, <1>8, <1>9, <1>10, <1>11 DEF Next

LEMMA TypeStep == AccountsInv /\ Next => TypeOK'
<1> SUFFICES ASSUME AccountsInv, Next PROVE TypeOK'
  OBVIOUS
<1>1. TokensInv'
  BY TokensView, TokensStep DEF AccountsInv
<1>2. user' \in [Users -> UserRow]
  BY UserStaysTyped DEF AccountsInv, TypeOK
<1> QED  BY <1>1, <1>2, CallStaysTyped, RestStaysTyped DEF TypeOK, TokensInv
-----------------------------------------------------------------------------
\* What the writes of a row change, and what they leave.
LEMMA RowFieldsWritten ==
  ASSUME NEW row \in UserRow, NEW p, NEW f, NEW l, NEW k
  PROVE  /\ LET new == [row EXCEPT !.failed = f, !.locked = l] IN
              new.failed = f /\ new.totp = row.totp /\ new.secret = row.secret
         /\ LET new == [row EXCEPT !.failed = f, !.locked = l, !.password = p] IN
              new.failed = f /\ new.totp = row.totp /\ new.secret = row.secret
         /\ LET new == [row EXCEPT !.password = p, !.failed = f, !.locked = l] IN
              new.failed = f /\ new.totp = row.totp /\ new.secret = row.secret
         /\ LET new == [row EXCEPT !.totp = f, !.secret = k] IN
              new.failed = row.failed /\ new.totp = f /\ new.secret = k
  BY DEF UserRow

\* A call other than the one a step is made for stays as it is.
LEMMA CallEffect ==
  ASSUME TypeOK, NEW c \in Calls
  PROVE  /\ Ends(c) => /\ call'[c].step = "none"
                       /\ \A d \in Calls \ {c} : call'[d] = call[d]
         /\ \A s : Goes(c, s) => /\ call'[c].step = s /\ call'[c].user = call[c].user
                                 /\ \A d \in Calls \ {c} : call'[d] = call[d]
         /\ \A s, u, p, n, row : Begin(c, s, u, p, n, row) =>
              /\ call'[c].step = s /\ call'[c].user = u /\ call'[c].row = row
              /\ call[c].step = "none"
              /\ \A d \in Calls \ {c} : call'[d] = call[d]
<1>1. DOMAIN call = Calls /\ call[c] \in Call \cup {NoCall}
  BY DEF TypeOK
<1>2. \A s : LET next == [call[c] EXCEPT !.step = s] IN
               next.step = s /\ next.user = call[c].user
  BY <1>1 DEF Call, NoCall
<1>3. ASSUME NEW s, Goes(c, s)
      PROVE  /\ call'[c].step = s /\ call'[c].user = call[c].user
             /\ \A d \in Calls \ {c} : call'[d] = call[d]
  <2>1. call'[c] = [call[c] EXCEPT !.step = s]
    BY <1>1, <1>3 DEF Goes, TypeOK
  <2> QED  BY <1>1, <1>2, <1>3, <2>1 DEF Goes, TypeOK
<1>4. Ends(c) => call'[c].step = "none" /\ \A d \in Calls \ {c} : call'[d] = call[d]
  BY <1>1 DEF Ends, NoCall, TypeOK
<1>5. ASSUME NEW s, NEW u, NEW p, NEW n, NEW row, Begin(c, s, u, p, n, row)
      PROVE  /\ call'[c].step = s /\ call'[c].user = u /\ call'[c].row = row
             /\ call[c].step = "none"
             /\ \A d \in Calls \ {c} : call'[d] = call[d]
  BY <1>1, <1>5 DEF Begin, NoCall, TypeOK
<1> QED  BY <1>3, <1>4, <1>5

\* What a login or a reset writes is a count and a lock, not a second factor.
LEMMA LoginWrites ==
  ASSUME AccountsInv, NEW c \in Calls, LoginFails(c) \/ LoginPasses(c) \/ WritePassword(c)
  PROVE  /\ call[c].user \in Users
         /\ \A v \in Users \ {call[c].user} : user'[v] = user[v]
         /\ LoginFails(c) => user'[call[c].user].failed = AtMost(call[c].row.failed + 1)
         /\ ~LoginFails(c) => user'[call[c].user].failed = 0
         /\ \A v \in Users : user'[v].totp = user[v].totp /\ user'[v].secret = user[v].secret
<1> USE DEF AccountsInv
<1> DEFINE u == call[c].user
<1>1. u \in Users
  BY CallFields DEF LoginFails, LoginPasses, WritePassword
<1>2. user \in [Users -> UserRow] /\ user[u] \in UserRow
  BY <1>1 DEF TypeOK
<1>3. CASE LoginFails(c)
  <2>1. user' = [user EXCEPT ![u] = Failure(c)]
    BY <1>3 DEF LoginFails
  <2>2. /\ Failure(c).failed = AtMost(call[c].row.failed + 1)
        /\ Failure(c).totp = user[u].totp /\ Failure(c).secret = user[u].secret
    BY <1>2, RowFieldsWritten DEF Failure
  <2> HIDE DEF u
  <2> QED  BY <1>1, <1>2, <1>3, <2>1, <2>2 DEF u
<1>4. CASE ~LoginFails(c)
  <2>1. \/ \E p : user' = [user EXCEPT ![u] = [@ EXCEPT !.failed = 0, !.locked = FALSE, !.password = p]]
        \/ \E p : user' = [user EXCEPT ![u] = [@ EXCEPT !.password = p, !.failed = 0, !.locked = FALSE]]
    <3>1. CASE LoginPasses(c)
      <4>1. \E p : user' = [user EXCEPT ![u].failed = 0, ![u].locked = FALSE, ![u].password = p]
        BY <3>1 DEF LoginPasses
      <4> QED  BY <1>1, <1>2, <4>1
    <3>2. CASE WritePassword(c)
      <4>1. \E p : user' = [user EXCEPT ![u].password = p, ![u].failed = 0, ![u].locked = FALSE]
        BY <3>2 DEF WritePassword
      <4> QED  BY <1>1, <1>2, <4>1
    <3> QED  BY <1>4, <3>1, <3>2
  <2>2. /\ user'[u].failed = 0 /\ user'[u].totp = user[u].totp
        /\ user'[u].secret = user[u].secret
        /\ \A v \in Users \ {u} : user'[v] = user[v]
    <3>1. ASSUME NEW p, user' = [user EXCEPT ![u] = [@ EXCEPT !.failed = 0, !.locked = FALSE, !.password = p]]
          PROVE  /\ user'[u].failed = 0 /\ user'[u].totp = user[u].totp
                 /\ user'[u].secret = user[u].secret
                 /\ \A v \in Users \ {u} : user'[v] = user[v]
      <4>1. user'[u] = [user[u] EXCEPT !.failed = 0, !.locked = FALSE, !.password = p]
        BY <1>1, <1>2, <3>1
      <4>2. \A v \in Users \ {u} : user'[v] = user[v]
        BY <1>2, <3>1
      <4>3. LET new == [user[u] EXCEPT !.failed = 0, !.locked = FALSE, !.password = p] IN
              new.failed = 0 /\ new.totp = user[u].totp /\ new.secret = user[u].secret
        BY <1>2, RowFieldsWritten
      <4> QED  BY <4>1, <4>2, <4>3
    <3>2. ASSUME NEW p, user' = [user EXCEPT ![u] = [@ EXCEPT !.password = p, !.failed = 0, !.locked = FALSE]]
          PROVE  /\ user'[u].failed = 0 /\ user'[u].totp = user[u].totp
                 /\ user'[u].secret = user[u].secret
                 /\ \A v \in Users \ {u} : user'[v] = user[v]
      <4>1. user'[u] = [user[u] EXCEPT !.password = p, !.failed = 0, !.locked = FALSE]
        BY <1>1, <1>2, <3>2
      <4>2. \A v \in Users \ {u} : user'[v] = user[v]
        BY <1>2, <3>2
      <4>3. LET new == [user[u] EXCEPT !.password = p, !.failed = 0, !.locked = FALSE] IN
              new.failed = 0 /\ new.totp = user[u].totp /\ new.secret = user[u].secret
        BY <1>2, RowFieldsWritten
      <4> QED  BY <4>1, <4>2, <4>3
    <3> QED  BY <2>1, <3>1, <3>2
  <2> QED  BY <1>1, <1>4, <2>2
<1> QED  BY <1>3, <1>4

\* What a call of the second factor writes.
LEMMA FactorEffect ==
  ASSUME AccountsInv, NEW c \in Calls, WriteMfa(c)
  PROVE  /\ call[c].user \in Users
         /\ \A v \in Users \ {call[c].user} : user'[v] = user[v]
         /\ user'[call[c].user].failed = user[call[c].user].failed
         /\ user'[call[c].user].totp = "active" =>
              call[c].step = "confirm" /\ user'[call[c].user].secret = call[c].row.secret
<1> USE DEF AccountsInv
<1> DEFINE u == call[c].user
<1>1. u \in Users
  BY CallFields DEF WriteMfa
<1>2. user \in [Users -> UserRow] /\ user[u] \in UserRow
  BY <1>1 DEF TypeOK
<1>3. ASSUME NEW t, NEW k, user' = [user EXCEPT ![u].totp = t, ![u].secret = k]
      PROVE  /\ user'[u].failed = user[u].failed /\ user'[u].totp = t /\ user'[u].secret = k
             /\ \A v \in Users \ {u} : user'[v] = user[v]
  <2>1. user'[u] = [user[u] EXCEPT !.totp = t, !.secret = k]
    BY <1>1, <1>2, <1>3
  <2>2. \A v \in Users \ {u} : user'[v] = user[v]
    BY <1>2, <1>3
  <2> QED  BY <1>2, <2>1, <2>2, RowFieldsWritten
<1>4. ASSUME NEW k \in Secrets, user' = [user EXCEPT ![u].totp = "staged", ![u].secret = k]
      PROVE  /\ user'[u].failed = user[u].failed /\ user'[u].totp = "staged"
             /\ \A v \in Users \ {u} : user'[v] = user[v]
  BY <1>3, <1>4
<1>5. CASE call[c].step = "confirm"
           /\ user' = [user EXCEPT ![u].totp = "active", ![u].secret = call[c].row.secret]
  BY <1>1, <1>3, <1>5
<1>6. CASE user' = [user EXCEPT ![u].totp = "none", ![u].secret = None]
  BY <1>1, <1>3, <1>6
<1> QED  BY <1>1, <1>4, <1>5, <1>6 DEF WriteMfa, Committed

\* The stored count and the number of wrong passwords move together, except
\* when a login writes a count it read before another's write.
LEMMA CountStep == AccountsInv /\ Next => FailuresAreCounted'
<1> SUFFICES ASSUME AccountsInv, Next PROVE FailuresAreCounted'
  OBVIOUS
<1> USE DEF AccountsInv
<1>1. \A u \in Users : user[u] \in UserRow
  BY DEF TypeOK
<1>2. ASSUME NEW c \in Calls, LoginFails(c) PROVE FailuresAreCounted'
  <2> DEFINE u == call[c].user
  <2>1. u \in Users /\ call[c].row.failed \in Nat
    BY <1>2, CallFields DEF LoginFails
  <2>2. user'[u].failed = AtMost(call[c].row.failed + 1) /\ wrong'[u] = AtMost(wrong[u] + 1)
    BY <1>2, <2>1, LoginWrites DEF LoginFails, TypeOK
  <2>3. u \in Users \ lost' => u \notin lost /\ call[c].row.failed = user[u].failed
    BY <1>2 DEF LoginFails
  <2>4. \A v \in Users \ {u} : user'[v] = user[v] /\ wrong'[v] = wrong[v]
                               /\ (v \in lost' <=> v \in lost)
    BY <1>2, <2>1 DEF LoginFails, TypeOK
  <2>5. u \notin lost' => user'[u].failed = wrong'[u]
    BY <2>1, <2>2, <2>3 DEF FailuresAreCounted
  <2> QED  BY <2>4, <2>5 DEF FailuresAreCounted
<1>3. ASSUME NEW c \in Calls, LoginPasses(c) \/ WritePassword(c) PROVE FailuresAreCounted'
  <2> DEFINE u == call[c].user
  <2>1. u \in Users
    BY <1>3, CallFields DEF LoginPasses, WritePassword
  <2>2. user'[u].failed = 0 /\ wrong'[u] = 0
    <3>1. ~LoginFails(c)
      BY <1>3 DEF LoginFails, LoginPasses, WritePassword
    <3> QED  BY <1>3, <2>1, <3>1, LoginWrites DEF LoginPasses, WritePassword, TypeOK
  <2>3. \A v \in Users \ {u} : user'[v] = user[v] /\ wrong'[v] = wrong[v]
                               /\ (v \in lost' <=> v \in lost)
    BY <1>3, <2>1 DEF LoginPasses, WritePassword, TypeOK
  <2> QED  BY <2>2, <2>3 DEF FailuresAreCounted
<1>4. ASSUME NEW u \in Users, \/ VerifyEmail(u) \/ Lapse(u) \/ SendVerification(u)
                              \/ \E p \in Passwords : Register(u, p)
      PROVE  FailuresAreCounted'
  <2>1. UNCHANGED <<wrong, lost>>
    BY <1>4 DEF VerifyEmail, Lapse, SendVerification, Register
  <2>2. \A v \in Users : user'[v].failed = user[v].failed
    BY <1>1, <1>4 DEF VerifyEmail, Lapse, SendVerification, Register, TypeOK, UserRow
  <2> QED  BY <2>1, <2>2 DEF FailuresAreCounted
<1>5. ASSUME NEW c \in Calls, WriteMfa(c) PROVE FailuresAreCounted'
  <2>1. call[c].user \in Users
    BY <1>5, CallFields DEF WriteMfa
  <2>2. UNCHANGED <<wrong, lost>>
    BY <1>5 DEF WriteMfa, MfaUnchanged
  <2>3. \A v \in Users : user'[v].failed = user[v].failed
    BY <1>5, FactorEffect
  <2> QED  BY <2>2, <2>3 DEF FailuresAreCounted
<1>6. CASE UNCHANGED <<user, wrong, lost>>
  BY <1>6 DEF FailuresAreCounted
<1>7. \/ UNCHANGED <<user, wrong, lost>>
      \/ \E u \in Users : \/ VerifyEmail(u) \/ Lapse(u) \/ SendVerification(u)
                          \/ \E p \in Passwords : Register(u, p)
      \/ \E c \in Calls : LoginFails(c) \/ LoginPasses(c) \/ WritePassword(c) \/ WriteMfa(c)
  BY DEF Next, accountVars, CallEnds, InvalidateLinks, RevokeSessions,
         IssueSession, MintLink, ResetPassword, Login, AnswerChallenge, ForgotPassword,
         BeginSetup, ConfirmSetup, CancelSetup, Disable, MfaUnchanged
<1> QED  BY <1>2, <1>3, <1>4, <1>5, <1>6, <1>7

\* A secret becomes the active one only through a call that verified it.
LEMMA FactorStep == AccountsInv /\ Next => (ActiveSecretWasProved /\ ConfirmsProved)'
<1> SUFFICES ASSUME AccountsInv, Next PROVE ActiveSecretWasProved' /\ ConfirmsProved'
  OBVIOUS
<1> USE DEF AccountsInv
<1>1. \A u \in Users : user[u] \in UserRow
  BY DEF TypeOK
<1>2. ASSUME NEW c \in Calls, NEW u \in Users, ConfirmSetup(c, u)
      PROVE  ActiveSecretWasProved' /\ ConfirmsProved'
  <2>1. user[u].secret \in Secrets /\ user' = user
    <3>1. user[u].totp = "staged"
      BY <1>2 DEF ConfirmSetup
    <3> QED  BY <1>1, <1>2, <3>1 DEF UserRow, ConfirmSetup
  <2>2. /\ proved'[u] = proved[u] \cup {user[u].secret}
        /\ \A v \in Users : proved[v] \subseteq proved'[v]
    BY <1>2 DEF ConfirmSetup, TypeOK
  <2>3. /\ call'[c].user = u /\ call'[c].row.secret = user[u].secret
        /\ \A d \in Calls \ {c} : call'[d] = call[d]
    BY <1>2 DEF ConfirmSetup, Begin, TypeOK, Seen
  <2>4. ActiveSecretWasProved'
    BY <2>1, <2>2 DEF ActiveSecretWasProved
  <2>5. ASSUME NEW d \in Calls, call'[d].step = "confirm"
        PROVE  call'[d].row.secret \in proved'[call'[d].user] \cap Secrets
    <3>1. CASE d = c
      BY <2>1, <2>2, <2>3, <3>1
    <3>2. CASE d # c
      <4>1. call[d].step = "confirm" /\ call'[d] = call[d] /\ call[d].user \in Users
        BY <2>3, <2>5, <3>2, CallFields
      <4> QED  BY <2>2, <4>1 DEF ConfirmsProved
    <3> QED  BY <3>1, <3>2
  <2> QED  BY <2>4, <2>5 DEF ConfirmsProved
<1>3. ASSUME UNCHANGED proved,
             \A d \in Calls : call'[d].step = "confirm" => call'[d] = call[d]
      PROVE  ConfirmsProved'
  BY <1>3 DEF ConfirmsProved
<1>4. ASSUME UNCHANGED proved,
             \A v \in Users : user'[v].totp = "active" =>
               user[v].totp = "active" /\ user'[v].secret = user[v].secret
      PROVE  ActiveSecretWasProved'
  BY <1>4 DEF ActiveSecretWasProved
<1>5. ASSUME NEW c \in Calls, WriteMfa(c) PROVE ActiveSecretWasProved' /\ ConfirmsProved'
  <2>1. call[c].user \in Users /\ UNCHANGED proved
    BY <1>5, CallFields DEF WriteMfa
  <2>2. \A d \in Calls : call'[d].step = "confirm" => call'[d] = call[d]
    BY <1>5, CallEffect DEF WriteMfa
  <2>3. \A v \in Users : user'[v].totp = "active" => user'[v].secret \in proved[v]
    BY <1>5, <2>1, FactorEffect DEF ConfirmsProved, ActiveSecretWasProved
  <2> QED  BY <1>3, <2>1, <2>2, <2>3 DEF ActiveSecretWasProved
<1>6. ASSUME NEW u \in Users, \/ VerifyEmail(u) \/ Lapse(u) \/ SendVerification(u)
                              \/ \E p \in Passwords : Register(u, p)
      PROVE  ActiveSecretWasProved' /\ ConfirmsProved'
  <2>1. UNCHANGED <<proved, call>>
    BY <1>6 DEF VerifyEmail, Lapse, SendVerification, Register
  <2>2. \A v \in Users : user'[v].totp = user[v].totp /\ user'[v].secret = user[v].secret
    BY <1>1, <1>6 DEF VerifyEmail, Lapse, SendVerification, Register, TypeOK, UserRow
  <2> QED  BY <1>3, <1>4, <2>1, <2>2
<1>7. ASSUME NEW c \in Calls, LoginFails(c) \/ LoginPasses(c) \/ WritePassword(c)
      PROVE  ActiveSecretWasProved' /\ ConfirmsProved'
  <2>1. call[c].user \in Users /\ UNCHANGED proved
    BY <1>7, CallFields DEF LoginFails, LoginPasses, WritePassword
  <2>2. \A v \in Users : user'[v].totp = user[v].totp /\ user'[v].secret = user[v].secret
    BY <1>7, LoginWrites
  <2>3. \A d \in Calls : call'[d].step = "confirm" => call'[d] = call[d]
    <3>1. Ends(c) \/ Goes(c, "session") \/ Goes(c, "revoke")
      BY <1>7 DEF LoginFails, LoginPasses, WritePassword
    <3>2. \A s : Goes(c, s) => call'[c].step = s /\ \A d \in Calls \ {c} : call'[d] = call[d]
      BY CallEffect
    <3>3. Ends(c) => call'[c].step = "none" /\ \A d \in Calls \ {c} : call'[d] = call[d]
      BY CallEffect
    <3>4. call'[c].step # "confirm" /\ \A d \in Calls \ {c} : call'[d] = call[d]
      BY <3>1, <3>2, <3>3
    <3> QED  BY <3>4
  <2> QED  BY <1>3, <1>4, <2>1, <2>2, <2>3
<1>8. ASSUME NEW c \in Calls,
             \/ CallEnds(c) \/ InvalidateLinks(c) \/ RevokeSessions(c)
             \/ \E t \in Tokens : IssueSession(c, t)
             \/ \E n \in Resets : MintLink(c, n) \/ \E p \in Passwords : ResetPassword(c, n, p)
      PROVE  ActiveSecretWasProved' /\ ConfirmsProved'
  <2>1. UNCHANGED <<proved, user>>
    BY <1>8 DEF CallEnds, InvalidateLinks, RevokeSessions, IssueSession, MintLink, ResetPassword
  <2>2. \A d \in Calls : call'[d].step = "confirm" => call'[d] = call[d]
    BY <1>8, CallEffect DEF CallEnds, InvalidateLinks, RevokeSessions, IssueSession, MintLink,
                            ResetPassword
  <2> QED  BY <1>3, <1>4, <2>1, <2>2
<1>9. ASSUME NEW c \in Calls, NEW u \in Users,
             \/ \E p \in Passwords \cup {None} : Login(c, u, p)
             \/ AnswerChallenge(c, u) \/ ForgotPassword(c, u)
             \/ BeginSetup(c, u) \/ CancelSetup(c, u) \/ Disable(c, u)
      PROVE  ActiveSecretWasProved' /\ ConfirmsProved'
  <2>1. UNCHANGED <<proved, user>>
    BY <1>9 DEF Login, AnswerChallenge, ForgotPassword, BeginSetup, CancelSetup, Disable
  <2>2. \A d \in Calls : call'[d].step = "confirm" => call'[d] = call[d]
    BY <1>9, CallEffect DEF Login, AnswerChallenge, ForgotPassword, BeginSetup, CancelSetup,
                            Disable
  <2> QED  BY <1>3, <1>4, <2>1, <2>2
<1>10. CASE UNCHANGED accountVars
  BY <1>3, <1>4, <1>10 DEF accountVars
<1> QED  BY <1>2, <1>5, <1>6, <1>7, <1>8, <1>9, <1>10 DEF Next

-----------------------------------------------------------------------------
\* Which steps touch the links and the calls that mail them.
LinkCall(c) == call[c].step \in {"invalidate", "mint"}

\* A step that begins no such call and revives no link keeps the invariant.
LEMMA QuietStep ==
  ASSUME AccountsInv, overlapped' = overlapped,
         \A c \in Calls : call'[c].step \in {"invalidate", "mint"} => call'[c] = call[c],
         \A n \in Resets : reset'[n].user = reset[n].user /\ (reset'[n].live => reset[n].live)
  PROVE  (OneValidLink /\ LinksInv)'
<1> USE DEF AccountsInv
<1>1. OneValidLink'
  BY DEF OneValidLink
<1>2. LinksInv'
  BY DEF LinksInv
<1> QED  BY <1>1, <1>2

LEMMA LinkStep == AccountsInv /\ Next => (OneValidLink /\ LinksInv)'
<1> SUFFICES ASSUME AccountsInv, Next PROVE (OneValidLink /\ LinksInv)'
  OBVIOUS
<1> USE DEF AccountsInv
<1>1. CASE UNCHANGED <<call, reset, overlapped>>
  BY <1>1, QuietStep
<1>2. ASSUME NEW c \in Calls, NEW u \in Users, ForgotPassword(c, u)
      PROVE  (OneValidLink /\ LinksInv)'
  <2>1. /\ call'[c].step = "invalidate" /\ call'[c].user = u /\ UNCHANGED reset
        /\ \A d \in Calls \ {c} : call'[d] = call[d]
    BY <1>2, CallEffect DEF ForgotPassword
  <2>2. /\ overlapped \subseteq overlapped'
        /\ \A d \in Calls : LinkCall(d) /\ call[d].user = u => u \in overlapped'
    BY <1>2 DEF ForgotPassword, LinkCall
  <2>3. OneValidLink'
    BY <2>1, <2>2 DEF OneValidLink
  <2>4. LinksInv'
    BY <2>1, <2>2 DEF LinksInv, LinkCall
  <2> QED  BY <2>3, <2>4
<1>3. ASSUME NEW c \in Calls, InvalidateLinks(c)
      PROVE  (OneValidLink /\ LinksInv)'
  <2>1. /\ call'[c].step = "mint" /\ call'[c].user = call[c].user /\ call[c].step = "invalidate"
        /\ \A d \in Calls \ {c} : call'[d] = call[d]
        /\ UNCHANGED overlapped
    BY <1>3, CallEffect DEF InvalidateLinks
  <2>2. \A n \in Resets : /\ reset'[n].user = reset[n].user
                          /\ reset'[n].live => reset[n].live
                          /\ reset[n].user = call[c].user => ~reset'[n].live
    <3> SUFFICES ASSUME NEW n \in Resets
                 PROVE  /\ reset'[n].user = reset[n].user
                        /\ reset'[n].live => reset[n].live
                        /\ reset[n].user = call[c].user => ~reset'[n].live
      OBVIOUS
    <3>1. reset'[n] = IF reset[n].user = call[c].user THEN [reset[n] EXCEPT !.live = FALSE] ELSE reset[n]
      BY <1>3 DEF InvalidateLinks, Invalidated
    <3>2. LET used == [reset[n] EXCEPT !.live = FALSE] IN used.user = reset[n].user /\ ~used.live
      BY DEF TypeOK, ResetRow, NoReset
    <3> QED  BY <3>1, <3>2
  <2>3. OneValidLink'
    BY <2>1, <2>2 DEF OneValidLink
  <2>4. LinksInv'
    BY <2>1, <2>2 DEF LinksInv
  <2> QED  BY <2>3, <2>4
<1>4. ASSUME NEW c \in Calls, NEW n \in Resets, MintLink(c, n)
      PROVE  (OneValidLink /\ LinksInv)'
  <2>1. /\ call'[c].step = "none" /\ call[c].step = "mint" /\ UNCHANGED overlapped
        /\ \A d \in Calls \ {c} : call'[d] = call[d]
        /\ reset'[n] = [user |-> call[c].user, live |-> TRUE]
        /\ \A m \in Resets \ {n} : reset'[m] = reset[m]
    BY <1>4, CallEffect DEF MintLink, TypeOK
  <2>2. OneValidLink'
    BY <2>1 DEF OneValidLink, LinksInv
  <2>3. LinksInv'
    BY <2>1 DEF LinksInv
  <2> QED  BY <2>2, <2>3
<1>5. ASSUME NEW u \in Users, Lapse(u) PROVE (OneValidLink /\ LinksInv)'
  <2>1. UNCHANGED <<call, overlapped>>
    BY <1>5 DEF Lapse
  <2>2. \A n \in Resets : LET used == [reset[n] EXCEPT !.live = FALSE] IN
          used.user = reset[n].user /\ ~used.live
    BY DEF TypeOK, ResetRow, NoReset
  <2>3. reset' = reset \/ \E n \in Resets : reset' = [reset EXCEPT ![n].live = FALSE]
    BY <1>5 DEF Lapse
  <2>4. \A n \in Resets : reset'[n].user = reset[n].user /\ (reset'[n].live => reset[n].live)
    BY <2>2, <2>3 DEF TypeOK
  <2> QED  BY <2>1, <2>4, QuietStep
<1>6. ASSUME NEW c \in Calls, WritePassword(c) PROVE (OneValidLink /\ LinksInv)'
  <2>1. /\ Goes(c, "revoke") /\ UNCHANGED overlapped
        /\ reset' = [reset EXCEPT ![call[c].reset].live = FALSE]
    BY <1>6 DEF WritePassword
  <2>2. \A n \in Resets : LET used == [reset[n] EXCEPT !.live = FALSE] IN
          used.user = reset[n].user /\ ~used.live
    BY DEF TypeOK, ResetRow, NoReset
  <2>3. \A n \in Resets : reset'[n].user = reset[n].user /\ (reset'[n].live => reset[n].live)
    BY <2>1, <2>2 DEF TypeOK
  <2>4. \A d \in Calls : call'[d].step \in {"invalidate", "mint"} => call'[d] = call[d]
    BY <2>1, CallEffect
  <2> QED  BY <2>1, <2>3, <2>4, QuietStep
<1>7. ASSUME NEW c \in Calls, UNCHANGED <<reset, overlapped>>,
             \A d \in Calls \ {c} : call'[d] = call[d],
             call'[c].step \notin {"invalidate", "mint"}
      PROVE  (OneValidLink /\ LinksInv)'
  BY <1>7, QuietStep
<1>8. ASSUME NEW c \in Calls,
             \/ LoginFails(c) \/ LoginPasses(c) \/ CallEnds(c) \/ RevokeSessions(c) \/ WriteMfa(c)
             \/ \E t \in Tokens : IssueSession(c, t)
      PROVE  (OneValidLink /\ LinksInv)'
  <2>1. (Ends(c) \/ Goes(c, "session")) /\ UNCHANGED <<reset, overlapped>>
    BY <1>8 DEF LoginFails, LoginPasses, CallEnds, RevokeSessions, WriteMfa, IssueSession,
                MfaUnchanged
  <2>2. /\ call'[c].step \in {"none", "session"}
        /\ \A d \in Calls \ {c} : call'[d] = call[d]
    BY <2>1, CallEffect
  <2> QED  BY <1>7, <2>1, <2>2
<1>9. ASSUME NEW c \in Calls,
             \/ \E n \in Resets, p \in Passwords : ResetPassword(c, n, p)
             \/ \E u \in Users :
                  \/ \E p \in Passwords \cup {None} : Login(c, u, p)
                  \/ AnswerChallenge(c, u) \/ BeginSetup(c, u) \/ ConfirmSetup(c, u)
                  \/ CancelSetup(c, u) \/ Disable(c, u)
      PROVE  (OneValidLink /\ LinksInv)'
  <2>1. \E s, v, q, m, row : /\ Begin(c, s, v, q, m, row)
                            /\ s \notin {"invalidate", "mint"}
    BY <1>9 DEF ResetPassword, Login, AnswerChallenge, BeginSetup, ConfirmSetup, CancelSetup,
                Disable
  <2>2. UNCHANGED <<reset, overlapped>>
    BY <1>9 DEF ResetPassword, Login, AnswerChallenge, BeginSetup, ConfirmSetup, CancelSetup,
                Disable, MfaUnchanged
  <2>3. /\ call'[c].step \notin {"invalidate", "mint"}
        /\ \A d \in Calls \ {c} : call'[d] = call[d]
    BY <2>1, CallEffect
  <2> QED  BY <1>7, <2>2, <2>3
<1>10. ASSUME NEW u \in Users, \/ VerifyEmail(u) \/ SendVerification(u)
                               \/ \E p \in Passwords : Register(u, p)
       PROVE  UNCHANGED <<call, reset, overlapped>>
  BY <1>10 DEF VerifyEmail, SendVerification, Register
<1>11. UNCHANGED accountVars => UNCHANGED <<call, reset, overlapped>>
  BY DEF accountVars
<1> QED  BY <1>1, <1>2, <1>3, <1>4, <1>5, <1>6, <1>8, <1>9, <1>10, <1>11 DEF Next

-----------------------------------------------------------------------------
\* No account, no link and no call at first.
LEMMA AccountsInitial == Init => AccountsInv
<1> SUFFICES ASSUME Init PROVE AccountsInv
  OBVIOUS
<1>1. TokensInv
  BY TokensInitial DEF Init
<1>2. /\ NoUser \in UserRow /\ NoUser.failed = 0 /\ NoUser.totp = "none"
      /\ NoReset.live = FALSE /\ NoCall.step = "none"
  BY AccountAssumption DEF NoUser, UserRow, NoReset, NoCall
<1>3. TypeOK
  BY <1>1, <1>2, AccountAssumption DEF Init, TypeOK, TokensInv
<1>4. FailuresAreCounted /\ ActiveSecretWasProved /\ ConfirmsProved
  BY <1>2 DEF Init, FailuresAreCounted, ActiveSecretWasProved, ConfirmsProved
<1>5. OneValidLink /\ LinksInv
  BY <1>2 DEF Init, OneValidLink, LinksInv
<1> QED  BY <1>1, <1>3, <1>4, <1>5 DEF AccountsInv

\* The invariant is inductive.
LEMMA AccountsStep == AccountsInv /\ [Next]_vars => AccountsInv'
<1> SUFFICES ASSUME AccountsInv, [Next]_vars PROVE AccountsInv'
  OBVIOUS
<1>1. CASE Next
  <2>1. TokensInv'
    BY TokensView, TokensStep DEF AccountsInv
  <2> QED  BY <1>1, <2>1, TypeStep, CountStep, LinkStep, FactorStep DEF AccountsInv
<1>2. CASE UNCHANGED vars
  <2>1. TokensInv'
    BY TokensView, TokensStep DEF AccountsInv
  <2>2. TypeOK'
    BY <1>2 DEF AccountsInv, TypeOK, TokensTypeOK, vars, tokenVars, accountVars
  <2>3. (FailuresAreCounted /\ ActiveSecretWasProved /\ ConfirmsProved)'
    BY <1>2 DEF AccountsInv, FailuresAreCounted, ActiveSecretWasProved, ConfirmsProved, vars,
                accountVars
  <2>4. (OneValidLink /\ LinksInv)'
    BY <1>2 DEF AccountsInv, OneValidLink, LinksInv, vars, accountVars
  <2> QED  BY <2>1, <2>2, <2>3, <2>4 DEF AccountsInv
<1> QED  BY <1>1, <1>2

LEMMA AccountsAlways == Spec => []AccountsInv
  BY AccountsInitial, AccountsStep, PTL DEF Spec

\* What Accounts does to the tokens is a behaviour of RefreshTokens, whatever
\* logins, resets and refresh requests interleave.
THEOREM ImplementsRefreshTokens == Spec => TokensSpec
<1>1. Init => TokensInit
  BY DEF Init
<1>2. AccountsInv /\ [Next]_vars => [TokensNext]_tokenVars
  BY TokensView DEF AccountsInv
<1> QED  BY <1>1, <1>2, AccountsAlways, PTL DEF Spec, TokensSpec

\* Accounts keep SessionsKept too, with the logins that begin sessions after a
\* second factor and the password resets that end them.
THEOREM AccountsKeepSessions == Spec => SessionsKept
  BY ImplementsRefreshTokens, TokensKeepSessions

\* Every variable keeps its type.
THEOREM TypesHold == Spec => []TypeOK
<1>1. AccountsInv => TypeOK
  BY DEF AccountsInv
<1> QED  BY <1>1, AccountsAlways, PTL

\* With the accounts' handlers around them too, a session that is over stays
\* so, whether or not rotations raced in it.
THEOREM EndedStaysEnded == Spec => OverIsFinal
  BY ImplementsRefreshTokens, TokensStayOver

\* The lockout counts every wrong password that no overlapping login erased.
THEOREM CountsFailures == Spec => []FailuresAreCounted
<1>1. AccountsInv => FailuresAreCounted
  BY DEF AccountsInv
<1> QED  BY <1>1, AccountsAlways, PTL

\* One password reset link of a user is valid at a time, unless two requests
\* for one overlapped.
THEOREM OneLink == Spec => []OneValidLink
<1>1. AccountsInv => OneValidLink
  BY DEF AccountsInv
<1> QED  BY <1>1, AccountsAlways, PTL

\* Nobody is asked for a second factor they have not shown to have.
THEOREM FactorProved == Spec => []ActiveSecretWasProved
<1>1. AccountsInv => ActiveSecretWasProved
  BY DEF AccountsInv
<1> QED  BY <1>1, AccountsAlways, PTL
=============================================================================
