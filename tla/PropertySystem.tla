---------------------------- MODULE PropertySystem ----------------------------
(***************************************************************************)
(* One listing with all its clients: PropertyLifecycle and PropertyImages  *)
(* composed over the rows they share, and what is to be true of them.      *)
(***************************************************************************)
EXTENDS PropertyImages

vars == <<rowVars, deciders, editors, failed, overlapped, strayed>>

\* Types; and an upload that has not stored its last row has a file left for it.
ListingTypeOK == LifecycleTypeOK /\ PropertyImagesTypeOK

Init == LifecycleInit /\ PropertyImagesInit

Next ==
  \/ LifecycleNext /\ UNCHANGED <<editors, failed, overlapped, strayed>>
  \/ PropertyImagesNext

Spec == Init /\ [][Next]_vars

------------------------------------------------------------------------------
\* A listing that a decision put under a removal request or rejected has the reason on
\* record, whatever order host and administrators decide in, and whatever a plain
\* update wrote before: the decision writes its reason itself, and a late one that clears
\* a reason leaves the status in the same transaction.
DecisionsAreExplained ==
  ~listing.edited =>
  /\ listing.status = "REMOVAL_REQUESTED" => listing.removal
  /\ listing.status = "REJECTED" => listing.rejection

\* The status history tells how a listing came to its status: once a request recorded
\* one, the newest entry names the status of the row, unless a plain update, which
\* records nothing, has written the row since.
HistoryTellsStatus ==
  newest # "NONE" /\ ~listing.edited => newest = listing.status

\* A deleted listing leaves no row behind, whatever requests were about to write:
\* no image, no history, no booking.
DeletionIsComplete ==
  Gone => newest = "NONE" /\ ~HasImage /\ booking # "made"

\* What overlapping uploads may add beyond the limit.
Surplus == IF overlapped THEN (Cardinality(Editors) - 1) * MaxFiles ELSE 0

\* A listing never has more images than the limit unless requests overlapped: uploads test
\* their files against the images there are, outside any transaction, so that each upload
\* but the last to begin may add all its files to a listing already full.
ImageLimit == Cardinality(LiveImages) <= MaxImages + Surplus

\* Between image requests that did not overlap a listing has at most one cover, after any
\* sequence of uploads, deletions and choices some of which broke off; and exactly one if
\* it has images and none broke off.  A deletion that names an image of one listing and
\* the path of another may leave two covers or none, until a cover is chosen again
\* (properties.service.ts:686-709, :660-684).
OneCover ==
  LET covers == {i \in Images : images[i] = "cover"}
  IN  ~overlapped /\ ~strayed /\ (\A e \in Editors : editors[e] = IdleEdit) =>
        /\ Cardinality(covers) <= 1
        /\ HasImage /\ ~failed => covers # {}

==============================================================================
