---------------------------- MODULE MCBackOffice ----------------------------
(***************************************************************************)
(* Small instances of BackOffice.  The services share no state: a          *)
(* behaviour is about one, and the others keep their initial values.       *)
(***************************************************************************)
EXTENDS BackOffice, TLC

VARIABLE scene

vars == <<scene, backOfficeVars>>

-----------------------------------------------------------------------------
Unnamed == [f \in {"slug", "text", "note", "shown", "count"} |-> Absent]

\* A create request names a row or leaves what it may to the defaults.
MCCreations ==
  {[slug |-> s, text |-> SeedText, note |-> Absent, shown |-> shown, count |-> Absent] :
     s \in Names, shown \in {Absent, TRUE}}

\* An image and its alt text.
Pictures == {[Unnamed EXCEPT !.text = SeedText, !.note = SeedText]}

\* Other edits name one field.
MCEdits ==
  {[Unnamed EXCEPT !.slug = s] : s \in Names \ Seeds}
    \cup {[Unnamed EXCEPT !.text = t] : t \in Texts \ {SeedText}}
    \cup {[Unnamed EXCEPT !.note = n] : n \in {SeedText, Null}}
    \cup {[Unnamed EXCEPT !.shown = shown] : shown \in BOOLEAN}
    \cup {[Unnamed EXCEPT !.count = Null]}
    \cup Pictures

MCZones == 1..3
MCPostcodes == {<<>>, <<Blank>>, <<"B", "D", Blank, "1">>, <<Blank, "B", "2">>, <<"L", "1">>}
MCAreaCodes == {<<"B">>, <<"B", "D">>}

-----------------------------------------------------------------------------
Scenes == {"tables", "content", "blog", "enquiries", "newsletter", "zones"}

MCInit ==
  /\ BackOfficeInit
  /\ scene \in Scenes
  /\ scene # "tables" => kind = "setting"
  /\ scene # "enquiries" => \A u \in Staff : role[u] = "OWNER"

\* Ids are taken in one order; two operators meet over the only row there
\* is, with no instance starting.  Two rows meet in their slugs only: while
\* there are two, no other column is edited.
TablesScene ==
  /\ kind \notin Keyed /\ (\A i \in Ids : row'[i] # NoRow) =>
       \A f \in Forms : form'[f].op = "update" => form'[f].body.slug # Absent
  /\ \A i \in Ids : row[i] = NoRow /\ row'[i] # NoRow /\ kind \notin Keyed =>
       i = CHOOSE j \in Ids : row[j] = NoRow
  /\ \A f, g \in Forms : f # g /\ form'[f] # NoForm /\ form'[g] # NoForm =>
       /\ form'[f].id = form'[g].id
       /\ \A i \in Ids : row'[i] # NoRow => i = form'[f].id
       /\ instance' = {}
  /\ \A b \in instance' \ instance : b = CHOOSE c \in Instances : c \notin instance
  /\ \A f \in Forms : form[f] = NoForm /\ form'[f] # NoForm =>
       f = CHOOSE g \in Forms : form[g] = NoForm
  /\ \A f \in Forms : form'[f].body \in Pictures => kind = "image"

\* Staff come and go, and read their notifications, before the first
\* decision, which nothing of this has a part in.
EnquiriesScene ==
  /\ role' # role \/ notification' # notification =>
       /\ \A d \in Decisions : decision[d] = NoDecision
       /\ \A e \in Enquiries : enquiry[e].handledBy = None /\ e \notin replied
  /\ \A d \in Decisions : decision[d] = NoDecision /\ decision'[d] # NoDecision =>
       /\ d = CHOOSE g \in Decisions : decision[g] = NoDecision
       /\ notification = {}

\* Each zone has its fee: one has a fee and a threshold, one is free without
\* a threshold, one always has a fee.
ZoneFee == <<1, 0, 2>>

ZonesScene ==
  \A z \in Zones : zone'[z] # NoZone =>
    /\ zone'[z].fee = ZoneFee[z]
    /\ zone'[z].freeOver # 1
    /\ z # 1 => zone'[z].freeOver = None /\ ~zone'[z].freeOverEnabled

MCNext ==
  /\ UNCHANGED scene
  /\ \/ scene = "tables" /\ EditTables /\ TablesScene
     \/ scene = "content" /\ EditContent
     \/ scene = "blog" /\ RunBlog
     \/ scene = "enquiries" /\ HandleEnquiries /\ EnquiriesScene
     \/ scene = "newsletter" /\ RunNewsletter
     \/ scene = "zones" /\ EditZones /\ ZonesScene

MCSpec == MCInit /\ [][MCNext]_vars
=============================================================================
