--------------------------- MODULE MCCreditLedger ---------------------------
(***************************************************************************)
(* Small instances of CreditLedger: invoices of two units under a cap of   *)
(* three, orders of two.  A behaviour is about calls that overlap each     *)
(* other, on two days and with a sweep, or about sweeps that overlap on    *)
(* three days, with one call at a time.                                    *)
(***************************************************************************)
EXTENDS CreditLedger, TLC

VARIABLE scene

MCAmount == [i \in Invoices |-> 2]
MCPrice == [o \in Orders |-> 2]
Apology == {2}

Count(f, free) == Cardinality({x \in DOMAIN f : f[x] # free})

\* Both invoices can be refunded in part, or one of them in full.
CallsScene ==
  /\ Count(sweep', NoSweep) <= 1 /\ now' <= 1
  /\ \A i \in Invoices : refunded'[i] = Amount[i] => Count(refunded', 0) <= 1

\* A call overlaps one sweep at most.
SweepsScene ==
  /\ Count(call', NoCall) <= 1
  /\ Count(call', NoCall) + Count(sweep', NoSweep) <= 2

MCNext ==
  /\ UNCHANGED scene
  /\ \/ scene = "calls" /\ Next /\ CallsScene
     \/ scene = "sweeps" /\ Next /\ SweepsScene

MCInit == Init /\ scene \in {"calls", "sweeps"}

MCSpec == MCInit /\ [][MCNext]_<<vars, scene>>

Alike == UNION {Permutations(S) : S \in {Invoices, Calls, Sweeps}}
=============================================================================
