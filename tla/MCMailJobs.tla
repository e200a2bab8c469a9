----------------------------- MODULE MCMailJobs -----------------------------
(***************************************************************************)
(* Small instances of MailJobs.  The jobs share nothing but the audit      *)
(* table, where their actions differ: a behaviour runs one of them.  Two   *)
(* birthday runs meet over one user, and one run at a time has all users.  *)
(* A birthday that is not today's is none to a run.                        *)
(***************************************************************************)
EXTENDS MailJobs, TLC

VARIABLE scene

MCInit == Init /\ scene \in Jobs \cup {"overlap"}

Active == {r \in Runs : run'[r] # NoRun}

MCNext ==
  /\ Next
  /\ \A r \in Runs :
       run'[r].job \in {"none", IF scene = "overlap" THEN "birthday" ELSE scene}
  /\ scene = "birthday" => Cardinality(Active) <= 1
  /\ scene = "overlap" => Cardinality(verified') <= 1
  /\ scene \notin {"birthday", "overlap"} => birthday' = birthday /\ verified' = verified
  /\ \A u \in Users : birthday'[u] \in {birthday[u], today}
  /\ scene # "reminder" => idle' = idle
  /\ scene # "notice" => expires' = expires
  /\ \A c \in Codes : code[c] = NoCode /\ code'[c] # NoCode =>
                        c = CHOOSE d \in Codes : code[d] = NoCode
  /\ UNCHANGED scene

MCSpec == MCInit /\ [][MCNext]_<<vars, scene>>

symmetry == Permutations(Runs) \cup Permutations(Users)
=============================================================================
