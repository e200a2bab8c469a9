----------------------------- MODULE Publishing -----------------------------
(***************************************************************************)
(* What the public site says: one block of editorial content, kept as      *)
(* numbered versions (ContentService), and the posts of the blog, which    *)
(* appear at once or on a date (BlogService).                              *)
(*                                                                         *)
(* Saving a block and rolling one back read the highest version and then   *)
(* create the next; two that read the same one collide on the unique       *)
(* index.  A public read of the blog first promotes the posts whose date   *)
(* has come, then lists: other requests come between.                      *)
(***************************************************************************)
EXTENDS FiniteSets, Integers, Nulls

CONSTANTS
  Payloads, Posts,
  Editors,     \* content requests that can be in progress
  Readers,     \* public reads of the blog that can be in progress
  MaxVersion,  \* bound on the versions of the block
  MaxTime      \* bound on the clock

ASSUME PublishingAssumption ==
  /\ MaxVersion \in Nat /\ MaxTime \in Nat
  /\ None \notin Payloads \cup Nat

VARIABLES
  block,    \* ContentBlock rows of one (page, key, locale) by version
  editing,  \* what each save or rollback has read
  now,
  post,     \* BlogPost rows
  editor,   \* publish requests that have read their post
  read,     \* public reads of the list
  touched   \* ghost: posts written since each read promoted

publishingVars == <<block, editing, now, post, editor, read, touched>>

-----------------------------------------------------------------------------
Versions == 1..MaxVersion
Times == 0..MaxTime

NoBlock == [payload |-> None, published |-> FALSE]
NoEdit == [op |-> "none", payload |-> None, version |-> 0]
NoPost == [status |-> "none", at |-> None, written |-> FALSE]
NoRead == [step |-> "none", rows |-> {}, promoted |-> 0]

ContentTypeOK ==
  /\ block \in [Versions -> [payload: Payloads, published: BOOLEAN] \cup {NoBlock}]
  /\ editing \in [Editors -> [op: {"draft", "rollback"}, payload: Payloads,
                              version: 1..(MaxVersion + 1)] \cup {NoEdit}]

BlogTypeOK ==
  /\ now \in Times
  /\ post \in [Posts -> [status: {"DRAFT", "SCHEDULED", "PUBLISHED"},
                         at: Times \cup {None}, written: BOOLEAN] \cup {NoPost}]
  /\ editor \subseteq Posts \X (Times \cup {None})
  /\ read \in [Readers -> [step: {"promoted", "listed"}, rows: SUBSET Posts,
                           promoted: Times] \cup {NoRead}]
  /\ touched \in [Readers -> SUBSET Posts]

PublishingTypeOK == ContentTypeOK /\ BlogTypeOK

PublishingInit ==
  /\ block = [v \in Versions |-> NoBlock]
  /\ editing = [e \in Editors |-> NoEdit]
  /\ now = 0
  /\ post = [p \in Posts |-> NoPost]
  /\ editor = {}
  /\ read = [r \in Readers |-> NoRead]
  /\ touched = [r \in Readers |-> {}]

blogVars == <<now, post, editor, read, touched>>
contentVars == <<block, editing>>

-----------------------------------------------------------------------------
(* Content *)

Highest(vs) == IF vs = {} THEN 0 ELSE CHOOSE v \in vs : \A w \in vs : w <= v

adminLatest == Highest({v \in Versions : block[v] # NoBlock})

\* The version publicRead serves, 0 for none.
publicRead == Highest({v \in Versions : block[v].published})

Served == IF publicRead = 0 THEN None ELSE block[publicRead].payload

\* upsertDraft, up to the read of the latest version.
StartDraft(e, payload) ==
  /\ editing[e] = NoEdit
  /\ editing' = [editing EXCEPT ![e] = [op |-> "draft", payload |-> payload,
                                        version |-> adminLatest + 1]]
  /\ UNCHANGED <<block, blogVars>>

\* The copy a rollback makes.
Target(v) == block[v].payload

\* rollback, up to the read of the latest version.
StartRollback(e, v) ==
  /\ editing[e] = NoEdit /\ block[v] # NoBlock
  /\ editing' = [editing EXCEPT ![e] = [op |-> "rollback", payload |-> Target(v),
                                        version |-> adminLatest + 1]]
  /\ UNCHANGED <<block, blogVars>>

\* Mutant: the row is upserted by version.
StoredOver(e) ==
  /\ editing[e].version \in Versions
  /\ block' = [block EXCEPT ![editing[e].version] =
                 [payload |-> editing[e].payload, published |-> editing[e].op = "rollback"]]

\* The next version; the unique index refuses one that was taken meanwhile.
Stored(e) ==
  /\ editing[e].version \in Versions
  /\ block[editing[e].version] = NoBlock
  /\ block' = [block EXCEPT ![editing[e].version] =
                 [payload |-> editing[e].payload, published |-> editing[e].op = "rollback"]]

CreateVersion(e) ==
  /\ editing[e] # NoEdit
  /\ Stored(e)
  /\ editing' = [editing EXCEPT ![e] = NoEdit]
  /\ UNCHANGED blogVars

EditFails(e) ==
  /\ editing[e] # NoEdit
  /\ editing' = [editing EXCEPT ![e] = NoEdit]
  /\ UNCHANGED <<block, blogVars>>

\* Publishing what is published already changes nothing.
PublishBlock(v) ==
  /\ block[v] # NoBlock /\ ~block[v].published
  /\ block' = [block EXCEPT ![v].published = TRUE]
  /\ UNCHANGED <<editing, blogVars>>

-----------------------------------------------------------------------------
(* Blog *)

Tick ==
  /\ now < MaxTime
  /\ now' = now + 1
  /\ UNCHANGED <<contentVars, post, editor, read, touched>>

\* A post that is written becomes part of what a list may or may not have.
Touch(p) == touched' = [r \in Readers |-> touched[r] \cup {p}]

\* written: the body has the five words a publication asks for.
CreatePost(p, written) ==
  /\ post[p] = NoPost
  /\ post' = [post EXCEPT ![p] = [status |-> "DRAFT", at |-> None, written |-> written]]
  /\ Touch(p)
  /\ UNCHANGED <<contentVars, now, editor, read>>

UpdatePost(p, written) ==
  /\ post[p] # NoPost
  /\ post' = [post EXCEPT ![p].written = written]
  /\ UNCHANGED <<contentVars, now, editor, read, touched>>

\* publish reads the post and its body.
StartPublish(p, date) ==
  /\ post[p] # NoPost /\ post[p].written
  /\ editor' = editor \cup {<<p, date>>}
  /\ UNCHANGED <<contentVars, now, post, read, touched>>

\* A date still to come schedules; any other publishes now.
Published(row, date) ==
  IF date # None /\ date > now
  THEN [row EXCEPT !.status = "SCHEDULED", !.at = date]
  ELSE [row EXCEPT !.status = "PUBLISHED", !.at = now]

WritePublish(p, date) ==
  /\ <<p, date>> \in editor
  /\ editor' = editor \ {<<p, date>>}
  /\ IF post[p] = NoPost THEN UNCHANGED <<post, touched>>
     ELSE post' = [post EXCEPT ![p] = Published(@, date)] /\ Touch(p)
  /\ UNCHANGED <<contentVars, now, read>>

Unpublish(p) ==
  /\ post[p] # NoPost
  /\ post' = [post EXCEPT ![p].status = "DRAFT", ![p].at = None]
  /\ Touch(p)
  /\ UNCHANGED <<contentVars, now, editor, read>>

DeletePost(p) ==
  /\ post[p] # NoPost
  /\ post' = [post EXCEPT ![p] = NoPost]
  /\ Touch(p)
  /\ UNCHANGED <<contentVars, now, editor, read>>

\* Mutant: a post due at this very moment waits.
promoteOverdue ==
  [p \in Posts |-> IF post[p].status = "SCHEDULED" /\ post[p].at < now
                   THEN [post[p] EXCEPT !.status = "PUBLISHED"] ELSE post[p]]

promoteScheduled ==
  [p \in Posts |-> IF post[p].status = "SCHEDULED" /\ post[p].at <= now
                   THEN [post[p] EXCEPT !.status = "PUBLISHED"] ELSE post[p]]

\* The list and the post endpoints promote before they read.
Promote(r) ==
  /\ read[r].step # "promoted"
  /\ post' = promoteScheduled
  /\ read' = [read EXCEPT ![r] = [step |-> "promoted", rows |-> {}, promoted |-> now]]
  /\ touched' = [touched EXCEPT ![r] = {}]
  /\ UNCHANGED <<contentVars, now, editor>>

listPublished ==
  {p \in Posts : post[p].status = "PUBLISHED" /\ post[p].at # None /\ post[p].at <= now}

ListPosts(r) ==
  /\ read[r].step = "promoted"
  /\ read' = [read EXCEPT ![r].step = "listed", ![r].rows = listPublished]
  /\ UNCHANGED <<contentVars, now, post, editor, touched>>

-----------------------------------------------------------------------------
ContentNext ==
  \/ \E e \in Editors :
       \/ \E payload \in Payloads : StartDraft(e, payload)
       \/ \E v \in Versions : StartRollback(e, v)
       \/ CreateVersion(e)
       \/ EditFails(e)
  \/ \E v \in Versions : PublishBlock(v)

BlogNext ==
  \/ Tick
  \/ \E p \in Posts :
       \/ \E written \in BOOLEAN : CreatePost(p, written) \/ UpdatePost(p, written)
       \/ \E date \in Times \cup {None} : StartPublish(p, date) \/ WritePublish(p, date)
       \/ Unpublish(p) \/ DeletePost(p)
  \/ \E r \in Readers : Promote(r) \/ ListPosts(r)

PublishingNext == ContentNext \/ BlogNext

PublishingSpec == PublishingInit /\ [][PublishingNext]_publishingVars

-----------------------------------------------------------------------------
(* Properties *)

\* What the public sees of a block only moves to a later version, and a
\* rollback that succeeds serves the payload it went back to, whoever saves
\* at the same time ("we never mutate history; rolling back is a
\* forward-only action").
HistoryMovesOn ==
  [][/\ publicRead' >= publicRead
     /\ \A v \in Versions : block[v] # NoBlock => block'[v].payload = block[v].payload
     /\ \A e \in Editors : editing[e].op = "rollback" /\ CreateVersion(e) =>
          Served' = editing[e].payload]_publishingVars

\* A visitor's list has every post that was due when the visitor asked and
\* that nobody has touched since, and no post before its time.
DuePostsAreListed ==
  \A r \in Readers, p \in Posts :
    read[r].step = "listed" /\ p \notin touched[r] =>
      /\ post[p].at # None /\ post[p].at <= read[r].promoted => p \in read[r].rows
      /\ p \in read[r].rows => post[p].at # None /\ post[p].at <= now

\* "Publishing sets publishedAt on a draft (version > current published)":
\* what was just published is what the public reads.
PublishShows ==
  [][\A v \in Versions : PublishBlock(v) => publicRead' = v]_publishingVars

\* "Post body is empty - write something before publishing."
PublishedIsWritten == \A p \in Posts : post[p].status = "PUBLISHED" => post[p].written
=============================================================================
