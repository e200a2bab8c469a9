------------------------------ MODULE Shipping ------------------------------
(***************************************************************************)
(* Delivery zones and the fee of a postcode.  The resolver reads the       *)
(* active zones in order of position and name and walks them twice, for a  *)
(* zone with a prefix of the postcode and then for a catch-all.            *)
(*                                                                         *)
(* A postcode is a sequence of upper-case characters and blanks; zones     *)
(* are ordered by name as numbers are, and the name of a zone is its id.   *)
(***************************************************************************)
EXTENDS Integers, SequencesExt, Nulls

CONSTANTS
  Zones,      \* ids of ShippingZone rows, a set of numbers
  Postcodes,  \* what customers type
  AreaCodes,  \* what the admin form accepts: letters and digits
  Positions, Fees, Totals,
  Blank

ASSUME ShippingAssumption ==
  /\ IsFiniteSet(Zones)
  /\ Zones \subseteq Nat /\ Positions \subseteq Nat
  /\ Fees \subseteq Nat /\ Totals \subseteq Nat
  /\ \A p \in AreaCodes : p # <<>> /\ \A i \in DOMAIN p : p[i] # Blank
  /\ None \notin Nat
  /\ None \notin [zone: Zones, fee: Nat, freeOverApplied: BOOLEAN]

VARIABLE zone  \* ShippingZone rows

-----------------------------------------------------------------------------
Zone == [position: Positions, prefixes: SUBSET AreaCodes, fee: Fees,
         freeOverEnabled: BOOLEAN, freeOver: Totals \cup {None}, active: BOOLEAN]
\* No row: a row has a position, whatever its fee.
NoZone == [position |-> None, prefixes |-> {}, fee |-> 0, freeOverEnabled |-> FALSE,
           freeOver |-> None, active |-> FALSE]

ShippingTypeOK == zone \in [Zones -> Zone \cup {NoZone}]

ShippingInit == zone = [z \in Zones |-> NoZone]

-----------------------------------------------------------------------------
(* Admin *)

CreateZone(z, row) ==
  /\ zone[z] = NoZone
  /\ zone' = [zone EXCEPT ![z] = row]

\* Each field of a request is a change of its own; the others are undefined.
UpdateZone(z, field, value) ==
  /\ zone[z] # NoZone
  /\ zone' = [zone EXCEPT ![z][field] = value]

RemoveZone(z) ==
  /\ zone[z] # NoZone
  /\ zone' = [zone EXCEPT ![z] = NoZone]

-----------------------------------------------------------------------------
(* The resolver *)

normalisePostcode(input) == SelectSeq(input, LAMBDA c : c # Blank)

Precedes(y, z) == \/ zone[y].position < zone[z].position
                  \/ zone[y].position = zone[z].position /\ y < z

\* findMany with orderBy position, name.
ActiveZones ==
  LET active == {z \in Zones : zone[z].active}
      places == 1 .. Cardinality(active)
  IN  CHOOSE s \in [places -> active] : \A j, k \in places : j < k => Precedes(s[j], s[k])

applyFreeOver(z, total) ==
  LET free == zone[z].freeOverEnabled /\ zone[z].freeOver # None /\ total >= zone[z].freeOver
  IN  [zone |-> z, fee |-> IF free THEN 0 ELSE zone[z].fee, freeOverApplied |-> free]

IsCatchAll(z) == zone[z].prefixes = {}

Covers(z, postcode) == \E p \in zone[z].prefixes : IsPrefix(p, postcode)

\* Where the two walks may stop.
Specific(postcode) == {k \in DOMAIN ActiveZones : Covers(ActiveZones[k], postcode)}
CatchAlls == {k \in DOMAIN ActiveZones : IsCatchAll(ActiveZones[k])}

First(places) == CHOOSE k \in places : \A j \in places : k <= j

\* Mutant: one walk takes the first zone that is a catch-all or covers.
OneWalk(input, total) ==
  LET postcode == normalisePostcode(input)
      found == Specific(postcode) \cup CatchAlls
  IN  IF postcode = <<>> \/ found = {} THEN None
      ELSE applyFreeOver(ActiveZones[First(found)], total)

resolveFee(input, total) ==
  LET postcode == normalisePostcode(input)
      specific == Specific(postcode)
      found == IF specific # {} THEN specific ELSE CatchAlls
  IN  IF postcode = <<>> \/ found = {} THEN None
      ELSE applyFreeOver(ActiveZones[First(found)], total)

-----------------------------------------------------------------------------
ShippingNext ==
  \E z \in Zones :
    \/ \E row \in Zone : CreateZone(z, row)
    \/ \E position \in Positions : UpdateZone(z, "position", position)
    \/ \E prefixes \in SUBSET AreaCodes : UpdateZone(z, "prefixes", prefixes)
    \/ \E fee \in Fees : UpdateZone(z, "fee", fee)
    \/ \E enabled \in BOOLEAN : UpdateZone(z, "freeOverEnabled", enabled)
    \/ \E over \in Totals \cup {None} : UpdateZone(z, "freeOver", over)
    \/ \E active \in BOOLEAN : UpdateZone(z, "active", active)
    \/ RemoveZone(z)

ShippingSpec == ShippingInit /\ [][ShippingNext]_zone

-----------------------------------------------------------------------------
(* Properties *)

\* y goes before z for this postcode: named by a prefix rather than a
\* catch-all, then by position, then by name.
Before(y, z, postcode) ==
  IF Covers(y, postcode) # Covers(z, postcode) THEN Covers(y, postcode)
  ELSE \/ zone[y].position < zone[z].position
       \/ zone[y].position = zone[z].position /\ y < z

\* The fee of a postcode, however it is spaced, is that of the zone no other
\* goes before, and nothing once its threshold is reached; there is none
\* only where no active zone delivers.  A zone that is free without a
\* threshold ("0 = free zone") delivers as any other.
FeeIsDefined ==
  \A input \in Postcodes, total \in Totals :
    LET postcode == normalisePostcode(input)
        delivers == {z \in Zones : zone[z].active /\ (IsCatchAll(z) \/ Covers(z, postcode))}
        r == resolveFee(input, total)
    IN  postcode # <<>> =>
          IF delivers = {} THEN r = None
          ELSE /\ r # None /\ r.zone \in delivers
               /\ \A z \in delivers \ {r.zone} : Before(r.zone, z, postcode)
               /\ r.fee = (IF r.freeOverApplied THEN 0 ELSE zone[r.zone].fee)
               /\ r.freeOverApplied <=>
                    /\ zone[r.zone].freeOverEnabled /\ zone[r.zone].freeOver # None
                    /\ zone[r.zone].freeOver <= total
=============================================================================
