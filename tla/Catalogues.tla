----------------------------- MODULE Catalogues -----------------------------
(***************************************************************************)
(* The tables operators keep through the admin endpoints: pastries, gift   *)
(* collections, service tiers, testimonials, images and settings of the    *)
(* site.  An edit reads the row, then updates it by id; nothing locks it,  *)
(* two operators edit at a time, and a row can go between the two calls.   *)
(* Three services seed their table when an instance starts and finds it    *)
(* empty.  No service touches another's table: a behaviour is about one.   *)
(*                                                                         *)
(* Of the columns a row keeps one of each sort: slug, unique where it      *)
(* exists; text, required; note, nullable; shown, whether the public       *)
(* lists have it; count, a number with a default.  In a request a field is *)
(* a value, Null, or Absent (undefined).                                   *)
(***************************************************************************)
EXTENDS FiniteSets, Integers, Nulls

CONSTANTS
  Ids,        \* ids of rows; keys, for images and settings
  Names,      \* slugs
  Texts,
  Seeds,      \* slugs of the seed rows
  SeedText,
  Creations,  \* bodies of create requests
  Edits,      \* bodies of update and upsert requests
  Forms,      \* admin requests that can be in progress
  Instances,  \* instances of the service that start
  Absent, Null

ASSUME CatalogueAssumption ==
  /\ Seeds \subseteq Names /\ SeedText \in Texts
  /\ {Absent, Null, None} \cap (Names \cup Texts \cup Nat \cup BOOLEAN) = {}
  /\ Absent # Null

VARIABLES
  kind,      \* the table of this behaviour
  row,       \* its rows
  ordered,   \* collections a gift order refers to
  form,      \* what each request has read
  instance,  \* instances that counted no rows and are about to seed
  meant      \* ghost: by row and field, what was last asked for

catalogueVars == <<kind, row, ordered, form, instance, meant>>

-----------------------------------------------------------------------------
Services == {"pastry", "collection", "tier", "testimonial"}
Keyed == {"image", "setting"}

Row == [slug: Names \cup {None}, text: Texts, note: Texts \cup {None},
        shown: BOOLEAN, count: Nat]
NoRow == [slug |-> None, text |-> None, note |-> None, shown |-> FALSE, count |-> 0]

Body == [slug: Names \cup {Absent, Null}, text: Texts \cup {Absent, Null},
         note: Texts \cup {Absent, Null}, shown: BOOLEAN \cup {Absent, Null},
         count: Nat \cup {Absent, Null}]

\* What the request validation lets through: a creation has its required fields.
ASSUME BodyAssumption ==
  /\ Edits \subseteq Body /\ Creations \subseteq Body
  /\ \A d \in Creations : d.slug \in Names /\ d.text \in Texts
  /\ \A d \in Creations : d.shown # Null /\ d.note # Null /\ d.count # Null

Form == [op: {"update", "delete"}, id: Ids, body: Edits \cup {None},
         before: Row \cup {NoRow}]
NoForm == [op |-> "none", id |-> None, body |-> None, before |-> NoRow]

CataloguesTypeOK ==
  /\ kind \in Services \cup Keyed
  /\ row \in [Ids -> Row \cup {NoRow}]
  /\ ordered \subseteq Ids
  /\ form \in [Forms -> Form \cup {NoForm}]
  /\ instance \subseteq Instances
  /\ meant \in [Ids -> Row \cup {NoRow}]

CataloguesInit ==
  /\ kind \in Services \cup Keyed
  /\ row = [i \in Ids |-> NoRow] /\ meant = row
  /\ ordered = {} /\ instance = {}
  /\ form = [q \in Forms |-> NoForm]

-----------------------------------------------------------------------------
Exists(i) == row[i] # NoRow
Taken(s) == \E i \in Ids : row[i].slug = s

\* v ?? default
OrElse(v, default) == IF v \in {Absent, Null} THEN default ELSE v

\* The column keeps its value when the field is undefined.
Given(v, old) == IF v = Absent THEN old ELSE v

\* ... and a nullable column is cleared by null.
Cleared(v, old) == IF v = Null THEN None ELSE Given(v, old)

\* minQuantity: blank or zero means no minimum.
AtLeastOne(v) == IF v \in {Null, 0} THEN 1 ELSE v

\* What the operator asked a row to be, field by field.
Asked(m, d) ==
  [f \in DOMAIN m |->
    CASE d[f] = Absent -> m[f]
      [] d[f] = Null -> IF f = "count" THEN 1 ELSE None
      [] OTHER -> d[f]]

Write(i, r, asked) ==
  /\ row' = [row EXCEPT ![i] = r]
  /\ meant' = [meant EXCEPT ![i] = asked]

-----------------------------------------------------------------------------
(* Creation: a slug that is taken is refused by its unique index.          *)

Create(i, r) ==
  /\ ~Exists(i)
  /\ r.slug # None => ~Taken(r.slug)
  /\ Write(i, r, r)
  /\ UNCHANGED <<kind, ordered, form, instance>>

CreatePastry(i, d) ==
  /\ kind = "pastry"
  /\ Create(i, [slug |-> d.slug, text |-> d.text, note |-> OrElse(d.note, None),
                shown |-> OrElse(d.shown, FALSE),
                count |-> AtLeastOne(OrElse(d.count, 1))])

CreateCollection(i, d) ==
  /\ kind = "collection"
  /\ Create(i, [slug |-> d.slug, text |-> d.text, note |-> OrElse(d.note, None),
                shown |-> OrElse(d.shown, FALSE), count |-> OrElse(d.count, 1)])

CreateTier(i, d) ==
  /\ kind = "tier"
  /\ Create(i, [slug |-> d.slug, text |-> d.text, note |-> OrElse(d.note, None),
                shown |-> OrElse(d.shown, TRUE), count |-> OrElse(d.count, 0)])

CreateTestimonial(i, d) ==
  /\ kind = "testimonial"
  /\ Create(i, [slug |-> None, text |-> d.text, note |-> OrElse(d.note, None),
                shown |-> OrElse(d.shown, FALSE), count |-> OrElse(d.count, 0)])

-----------------------------------------------------------------------------
(* Updates and deletes                                                     *)

\* The read every edit begins with; only an upsert may find nothing.
Begin(q, op, i, d) ==
  /\ form[q] = NoForm
  /\ Exists(i) \/ (op = "update" /\ kind \in Keyed)
  /\ form' = [form EXCEPT ![q] = [op |-> op, id |-> i, body |-> d, before |-> row[i]]]
  /\ UNCHANGED <<kind, row, ordered, instance, meant>>

\* Mutant: the row that was read is written back.
UpdatedFromRead(before, now, d) ==
  [slug |-> Given(d.slug, before.slug), text |-> Given(d.text, before.text),
   note |-> Cleared(d.note, before.note), shown |-> Given(d.shown, before.shown),
   count |-> Given(d.count, before.count)]

\* The columns a request names; the others stay what they are now.
Updated(before, now, d) ==
  [slug |-> Given(d.slug, now.slug), text |-> Given(d.text, now.text),
   note |-> Cleared(d.note, now.note), shown |-> Given(d.shown, now.shown),
   count |-> Given(d.count, now.count)]

\* The row must still be there, its slug free, and no required column null.
Update(q, d) ==
  LET w == form[q]
      r == Updated(w.before, row[w.id], d)
  IN
  /\ w.op = "update" /\ Exists(w.id)
  /\ r.slug # Null /\ r.text # Null /\ r.shown # Null /\ r.count # Null
  /\ r.slug \notin {None, row[w.id].slug} => ~Taken(r.slug)
  /\ Write(w.id, r, Asked(meant[w.id], d))
  /\ form' = [form EXCEPT ![q] = NoForm]
  /\ UNCHANGED <<kind, ordered, instance>>

UpdatePastry(q) ==
  LET d == form[q].body IN
  /\ kind = "pastry"
  /\ Update(q, [d EXCEPT !.count = AtLeastOne(@)])

UpdateCollection(q) == kind = "collection" /\ Update(q, form[q].body)

UpdateTier(q) == kind = "tier" /\ Update(q, form[q].body)

UpdateTestimonial(q) ==
  /\ kind = "testimonial"
  /\ Update(q, [form[q].body EXCEPT !.slug = Absent])

RemoveRow(q) ==
  LET i == form[q].id IN
  /\ form[q].op = "delete" /\ Exists(i)
  /\ Write(i, NoRow, NoRow)
  /\ form' = [form EXCEPT ![q] = NoForm]
  /\ UNCHANGED <<kind, ordered, instance>>

\* The order's own copy of the item stays.
DeletePastry(q) == kind = "pastry" /\ RemoveRow(q)

\* The foreign key of gift orders restricts.
DeleteCollection(q) == kind = "collection" /\ form[q].id \notin ordered /\ RemoveRow(q)

DeleteTier(q) == kind = "tier" /\ RemoveRow(q)

DeleteTestimonial(q) == kind = "testimonial" /\ RemoveRow(q)

RemoveImage(q) == kind = "image" /\ RemoveRow(q)

RemoveSetting(q) == kind = "setting" /\ RemoveRow(q)

-----------------------------------------------------------------------------
(* Images and settings are inserted or updated by key.                     *)

\* alt: undefined keeps the one that was read, not the one that is stored.
UpsertImage(q) ==
  LET w == form[q]
      alt == CASE w.body.note = Absent /\ Exists(w.id) -> w.before.note
               [] OTHER -> OrElse(w.body.note, None)
  IN
  /\ kind = "image" /\ w.op = "update"
  /\ w.body.text \in Texts
  /\ Write(w.id, [slug |-> None, text |-> w.body.text, note |-> alt, shown |-> TRUE, count |-> 1],
           Asked([meant[w.id] EXCEPT !.shown = TRUE, !.count = 1],
                 [w.body EXCEPT !.slug = Absent, !.shown = Absent, !.count = Absent]))
  /\ form' = [form EXCEPT ![q] = NoForm]
  /\ UNCHANGED <<kind, ordered, instance>>

UpsertSetting(q) ==
  LET w == form[q]
      r == [slug |-> None, text |-> w.body.text, note |-> None, shown |-> TRUE, count |-> 1]
  IN
  /\ kind = "setting" /\ w.op = "update"
  /\ w.body.text \in Texts
  /\ Write(w.id, r, r)
  /\ form' = [form EXCEPT ![q] = NoForm]
  /\ UNCHANGED <<kind, ordered, instance>>

\* The request is refused, or the process dies.
EditEnds(q) ==
  /\ form[q] # NoForm
  /\ form' = [form EXCEPT ![q] = NoForm]
  /\ UNCHANGED <<kind, row, ordered, instance, meant>>

-----------------------------------------------------------------------------
(* Seeds *)

CountRows(b) ==
  /\ kind \in {"pastry", "collection", "tier"}
  /\ b \notin instance
  /\ \A i \in Ids : ~Exists(i)
  /\ instance' = instance \cup {b}
  /\ UNCHANGED <<kind, row, ordered, form, meant>>

\* createMany with skipDuplicates: at maps the slugs that are free to ids.
InsertSeeds(b, at, seeded) ==
  /\ b \in instance
  /\ \A s, t \in DOMAIN at : s # t => at[s] # at[t]
  /\ \A s \in DOMAIN at : ~Exists(at[s])
  /\ row' = [i \in Ids |-> IF \E s \in DOMAIN at : at[s] = i
                           THEN seeded[CHOOSE s \in DOMAIN at : at[s] = i] ELSE row[i]]
  /\ meant' = [i \in Ids |-> IF \E s \in DOMAIN at : at[s] = i THEN row'[i] ELSE meant[i]]
  /\ instance' = instance \ {b}
  /\ UNCHANGED <<kind, ordered, form>>

Missing == {s \in Seeds : ~Taken(s)}

SeedRow(s, shown, count) ==
  [slug |-> s, text |-> SeedText, note |-> None, shown |-> shown, count |-> count]

\* The founder must publish each pastry.
SeedPastries(b, at) ==
  kind = "pastry" /\ InsertSeeds(b, at, [s \in Seeds |-> SeedRow(s, FALSE, 1)])

SeedCollections(b, at) ==
  kind = "collection" /\ InsertSeeds(b, at, [s \in Seeds |-> SeedRow(s, TRUE, 1)])

SeedTiers(b, at) ==
  kind = "tier" /\ InsertSeeds(b, at, [s \in Seeds |-> SeedRow(s, TRUE, 0)])

-----------------------------------------------------------------------------
(* Public lists *)

listAvailable == {i \in Ids : kind = "pastry" /\ row[i].shown}

listPublishedCollections == {i \in Ids : kind = "collection" /\ row[i].shown}

listPublicTiers == {i \in Ids : kind = "tier" /\ row[i].shown}

listPublishedTestimonials == {i \in Ids : kind = "testimonial" /\ row[i].shown}

Public == listAvailable \cup listPublishedCollections \cup listPublicTiers
            \cup listPublishedTestimonials

\* A gift order is placed for a collection that is published.
OrderCollection(i) ==
  /\ i \in listPublishedCollections
  /\ ordered' = ordered \cup {i}
  /\ UNCHANGED <<kind, row, form, instance, meant>>

-----------------------------------------------------------------------------
CataloguesNext ==
  \/ \E i \in Ids, d \in Creations :
       \/ CreatePastry(i, d) \/ CreateCollection(i, d)
       \/ CreateTier(i, d) \/ CreateTestimonial(i, d)
  \/ \E q \in Forms :
       \/ \E i \in Ids : Begin(q, "delete", i, None) \/ \E d \in Edits : Begin(q, "update", i, d)
       \/ UpdatePastry(q) \/ UpdateCollection(q) \/ UpdateTier(q) \/ UpdateTestimonial(q)
       \/ DeletePastry(q) \/ DeleteCollection(q) \/ DeleteTier(q) \/ DeleteTestimonial(q)
       \/ UpsertImage(q) \/ UpsertSetting(q) \/ RemoveImage(q) \/ RemoveSetting(q)
       \/ EditEnds(q)
  \/ \E b \in Instances :
       \/ CountRows(b)
       \/ \E at \in [Missing -> Ids] :
            SeedPastries(b, at) \/ SeedCollections(b, at) \/ SeedTiers(b, at)
  \/ \E i \in Ids : OrderCollection(i)

CataloguesSpec == CataloguesInit /\ [][CataloguesNext]_catalogueVars

-----------------------------------------------------------------------------
(* Properties *)

\* Every column holds what was last asked for it: two operators who edit a
\* row at a time each keep what they changed, what is blanked stays blank
\* ("every blank submission looked like don't change", PastriesService.update)
\* and a second instance that starts seeds over nobody's edit.  The public
\* lists have what was last asked to be there.
NoLostEdit ==
  kind # "image" =>
    /\ row = meant
    /\ kind \notin Keyed => Public = {i \in Ids : meant[i].shown}

\* The same of images, whose upsert keeps the alt text it read.
NoLostAlt == kind = "image" => row = meant
=============================================================================
