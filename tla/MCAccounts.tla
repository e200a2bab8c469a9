----------------------------- MODULE MCAccounts -----------------------------
(***************************************************************************)
(* A small instance of Accounts.  The second factor, the lockout and the   *)
(* refresh of tokens meet in a login only, so a behaviour exercises two of *)
(* the four groups of handlers at a time, as its scene says.               *)
(***************************************************************************)
EXTENDS Accounts, TLC

VARIABLE scene

NoneBegins(steps) == \A c \in Calls : call'[c].step \notin steps

NoFactor == \A u \in Users : user'[u].totp = "none" /\ link'[u] = "none"

NoRefresh ==
  rotation' = rotation /\ \A t \in Tokens : ~token'[t].revoked /\ ~token'[t].expired

OneReset == cooling \subseteq cooling' /\ overlapped' = {}

MCNext ==
  /\ Next
  /\ scene = "factor" => NoneBegins({"failed", "invalidate"}) /\ NoRefresh
  /\ scene = "lockout" => NoFactor /\ NoRefresh
  /\ scene = "refresh" => NoFactor /\ NoneBegins({"failed"}) /\ OneReset
  /\ UNCHANGED scene

MCInit == Init /\ scene \in {"factor", "lockout", "refresh"}

MCSpec == MCInit /\ [][MCNext]_<<vars, scene>>

Alike == UNION {Permutations(S) : S \in {Tokens, Calls}}
=============================================================================
