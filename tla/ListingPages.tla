----------------------------- MODULE ListingPages -----------------------------
(***************************************************************************)
(* A listing seen from the pages of its host and of the administrators.    *)
(* AddPropertyPage stores it and uploads its images; from then on every    *)
(* request about its status comes from a button that HostPropertiesPage or *)
(* AdminPropertiesPage offers for the status it shows, which is the status *)
(* some answer to a query of the page had.                                 *)
(***************************************************************************)
EXTENDS PropertyLifecycle

CONSTANTS
  HostPages,     \* the deciders at the host's page; the others are administrators'
  MaxFetches     \* queries of one page under way or answered and not yet received

ASSUME PagesAssumption == HostPages \subseteq Deciders /\ MaxFetches \in Nat

VARIABLES
  pages,
  approved,      \* an administrator has approved the listing
  wizard         \* AddPropertyPage has still to upload

pagesVars == <<pages, approved, wizard>>
vars == <<rowVars, deciders, pagesVars>>

AdminTabs == {"PENDING", "REMOVAL", "ARCHIVED", "ALL"}
Tabs == AdminTabs \cup {"MINE"}

\* What a page shows of the listing: its status, or nothing.
Nothing == "NONE"
Shown == Statuses \cup {Nothing}
Clicks == [request : Requests \cup {"none"}, seen : Shown, tab : Tabs]
NoClick == [request |-> "none", seen |-> Nothing, tab |-> "MINE"]

PagesTypeOK ==
  /\ pages \in [Deciders -> [tab : Tabs, shown : Shown, loading : BOOLEAN, asked : SUBSET Tabs,
                             answers : SUBSET Shown, click : Clicks]]
  /\ approved \in BOOLEAN
  /\ wizard \in BOOLEAN

HomeTab(d) == IF d \in HostPages THEN "MINE" ELSE "PENDING"

\* A page as it opens, its query under way.
OpenPage(tab) ==
  [tab |-> tab, shown |-> Nothing, loading |-> TRUE, asked |-> {tab}, answers |-> {},
   click |-> NoClick]

Init ==
  /\ LifecycleInit
  /\ pages = [d \in Deciders |-> OpenPage(HomeTab(d))]
  /\ approved = FALSE
  /\ wizard = TRUE

------------------------------------------------------------------------------
(***************************************************************************)
(* What pages ask for and show.                                            *)
(***************************************************************************)

\* Mutation: the search honours the host it is asked for.
FoundOfHost(tab) ==
  CASE tab = "MINE" -> Statuses
    [] tab = "PENDING" -> {"PENDING_APPROVAL"}
    [] tab = "REMOVAL" -> {"REMOVAL_REQUESTED"}
    [] tab = "ARCHIVED" -> {"ARCHIVED"}
    [] tab = "ALL" -> Statuses

\* The listings a query finds, by status.  The host's page asks the public search, which
\* knows no host and finds what is published.
Found(tab) ==
  CASE tab = "MINE" -> {"PUBLISHED"}
    [] tab = "PENDING" -> {"PENDING_APPROVAL"}
    [] tab = "REMOVAL" -> {"REMOVAL_REQUESTED"}
    [] tab = "ARCHIVED" -> {"ARCHIVED"}
    [] tab = "ALL" -> Statuses

Room(d) == Cardinality(pages[d].asked) + Cardinality(pages[d].answers) < MaxFetches

\* The page is opened anew, while no request of it is under way.
Reload(d) ==
  /\ pages[d].click = NoClick
  /\ pages' = [pages EXCEPT ![d] = OpenPage(HomeTab(d))]
  /\ UNCHANGED <<rowVars, deciders, approved, wizard>>

\* fetchProperties for a tab, besides the queries under way.
Asking(page, tab) == [page EXCEPT !.asked = @ \cup {tab}, !.loading = TRUE]

\* An administrator changes the tab; a form covers the tabs.
OpenTab(d, tab) ==
  /\ d \notin HostPages /\ tab \in AdminTabs \ {pages[d].tab}
  /\ pages[d].click = NoClick
  /\ Room(d)
  /\ pages' = [pages EXCEPT ![d] = Asking([@ EXCEPT !.tab = tab], tab)]
  /\ UNCHANGED <<rowVars, deciders, approved, wizard>>

\* Mutation: the server returns rows that are deleted.
AnswerDeleted(d, tab) ==
  /\ tab \in pages[d].asked
  /\ pages' = [pages EXCEPT ![d].asked = @ \ {tab},
       ![d].answers = @ \cup {IF listing.status \in Found(tab) \cup {"GONE"}
                                THEN listing.status ELSE Nothing}]
  /\ UNCHANGED <<rowVars, deciders, approved, wizard>>

\* The server runs the query.
Answer(d, tab) ==
  /\ tab \in pages[d].asked
  /\ pages' = [pages EXCEPT ![d].asked = @ \ {tab},
       ![d].answers = @ \cup {IF listing.status \in Found(tab) THEN listing.status ELSE Nothing}]
  /\ UNCHANGED <<rowVars, deciders, approved, wizard>>

\* Whichever answer arrives last stands, whatever tab is open; a failed query shows nothing.
Receive(d) ==
  \E answer \in pages[d].answers :
    /\ pages' = [pages EXCEPT ![d].answers = @ \ {answer}, ![d].shown = answer,
                             ![d].loading = FALSE]
    /\ UNCHANGED <<rowVars, deciders, approved, wizard>>

LoseAnswer(d) ==
  \E tab \in pages[d].asked :
    /\ pages' = [pages EXCEPT ![d].asked = @ \ {tab}, ![d].shown = Nothing,
                             ![d].loading = FALSE]
    /\ UNCHANGED <<rowVars, deciders, approved, wizard>>

------------------------------------------------------------------------------
(***************************************************************************)
(* The buttons, and the requests they send.                                *)
(***************************************************************************)
OfferedToHost(status) ==
  CASE status \in {"DRAFT", "REJECTED"} -> {"submit", "requestRemoval"}
    [] status = "PUBLISHED" -> {"unpublish", "requestRemoval"}
    [] status = "UNPUBLISHED" -> {"republish", "requestRemoval"}
    [] status = "REMOVAL_REQUESTED" -> {"cancelRemoval"}
    [] status = "PENDING_APPROVAL" -> {"requestRemoval"}
    [] OTHER -> {}

\* Mutation: a removal is declined where a listing is.
OfferedSwapped(status) ==
  CASE status = "PENDING_APPROVAL" -> {"approve", "rejectRemoval"}
    [] status = "REMOVAL_REQUESTED" -> {"approveRemoval", "reject"}
    [] status = "ARCHIVED" -> {"restore", "delete"}
    [] status = Nothing -> {}
    [] OTHER -> {"archive"}

OfferedToAdmin(status) ==
  CASE status = "PENDING_APPROVAL" -> {"approve", "reject"}
    [] status = "REMOVAL_REQUESTED" -> {"approveRemoval", "rejectRemoval"}
    [] status = "ARCHIVED" -> {"restore", "delete"}
    [] status = Nothing -> {}
    [] OTHER -> {"archive"}

Offered(d) ==
  IF d \in HostPages THEN OfferedToHost(pages[d].shown) ELSE OfferedToAdmin(pages[d].shown)

\* From the click to the answer, a form for the reason in between.
Click(d, request) ==
  /\ pages[d].click = NoClick
  /\ ~pages[d].loading /\ request \in Offered(d)
  /\ pages' = [pages EXCEPT ![d].click =
       [request |-> request, seen |-> pages[d].shown, tab |-> pages[d].tab]]
  /\ UNCHANGED <<rowVars, deciders, approved, wizard>>

Dismiss(d) ==
  /\ pages[d].click.request \in {"requestRemoval", "reject", "rejectRemoval", "archive", "delete"}
  /\ deciders[d] = Idle
  /\ pages' = [pages EXCEPT ![d].click = NoClick]
  /\ UNCHANGED <<rowVars, deciders, approved, wizard>>

\* The route of each request.
HostRoute(d, request) ==
  \/ request = "submit" /\ SubmitForApproval(d)
  \/ request = "unpublish" /\ UnpublishProperty(d)
  \/ request = "republish" /\ RepublishProperty(d)
  \/ request = "requestRemoval" /\ RequestPropertyRemoval(d)
  \/ request = "cancelRemoval" /\ CancelRemovalRequest(d)

AdminRoute(d, request) ==
  \/ request = "approve" /\ ApproveProperty(d)
  \/ request = "reject" /\ RejectProperty(d)
  \/ request = "approveRemoval" /\ ApproveRemovalRequest(d)
  \/ request = "rejectRemoval" /\ RejectRemovalRequest(d)
  \/ request = "archive" /\ ArchiveProperty(d)
  \/ request = "restore" /\ RestoreProperty(d)
  \/ request = "delete" /\ HardDeleteProperty(d)

Serve(d) ==
  /\ pages[d].click # NoClick /\ deciders[d] = Idle
  /\ HostRoute(d, pages[d].click.request) \/ AdminRoute(d, pages[d].click.request)
  /\ UNCHANGED pagesVars

\* The request is done; the page queries again with the tab of the click.
Complete(d) ==
  LET click == pages[d].click
  IN  /\ deciders[d] # Idle
      /\ Room(d)
      /\ HostRoute(d, click.request) \/ AdminRoute(d, click.request)
      /\ approved' = (approved \/ (click.request = "approve" /\ ~Gone))
      /\ pages' = [pages EXCEPT ![d] = Asking([@ EXCEPT !.click = NoClick], click.tab)]
      /\ UNCHANGED wizard

\* The tests of the handlers that throw on the status, and the other ones.
NeedsStatus(request) ==
  CASE request = "unpublish" -> {"PUBLISHED"}
    [] request \in {"cancelRemoval", "approveRemoval", "rejectRemoval"} -> {"REMOVAL_REQUESTED"}
    [] OTHER -> Statuses

Refuse(d) ==
  LET request == pages[d].click.request
  IN  /\ pages[d].click # NoClick /\ deciders[d] = Idle
      /\ \/ listing.status \notin NeedsStatus(request)
         \/ request \in {"submit", "republish", "approve"} /\ ~HasImage
         \/ request = "delete" /\ booking = "made"
      /\ pages' = [pages EXCEPT ![d].click = NoClick]
      /\ UNCHANGED <<rowVars, deciders, approved, wizard>>

------------------------------------------------------------------------------
\* AddPropertyPage uploads once and the upload may break off; a host who tries again after
\* a failure creates another listing.
UploadImages ==
  /\ wizard /\ wizard' = FALSE
  /\ \E stored \in SUBSET Images :
       /\ Gone => stored = {}
       /\ images' = [i \in Images |-> IF i \in stored THEN "plain" ELSE "unborn"]
  /\ UNCHANGED <<listing, newest, booking, deciders, pages, approved>>

GuestBooks == (OpenBooking \/ CommitBooking) /\ UNCHANGED pagesVars

Next ==
  \/ \E d \in Deciders :
       \/ Reload(d)
       \/ \E tab \in Tabs : OpenTab(d, tab) \/ Answer(d, tab)
       \/ Receive(d) \/ LoseAnswer(d)
       \/ \E request \in Requests : Click(d, request)
       \/ Dismiss(d) \/ Serve(d) \/ Complete(d) \/ Refuse(d)
  \/ UploadImages
  \/ GuestBooks

Spec == Init /\ [][Next]_vars

------------------------------------------------------------------------------
\* A status that a request relies on is the status for which the pages offer it
\* (AdminPropertiesPage.tsx:297-358 and HostPropertiesPage.tsx:212-260 against the tests of
\* the handlers): such a request is refused only when the listing has changed since the
\* status was shown.
RefusedMeansStale ==
  [][\A d \in Deciders :
       /\ pages[d].click # NoClick /\ pages'[d].click = NoClick
       /\ listing.status \notin NeedsStatus(pages[d].click.request)
       /\ deciders[d] = Idle
       => pages[d].click.seen # listing.status]_vars

\* What guests can book was approved by an administrator once, although a declined or
\* withdrawn removal request publishes from whatever status the request was made in
\* (properties.service.ts:540, admin.service.ts:1098): no page offers to request the
\* removal of a listing that was never approved.
PublishedWasApproved == listing.status = "PUBLISHED" => approved

------------------------------------------------------------------------------
\* "Manage your luxury stay portfolio, track lifecycle status" (HostPropertiesPage.tsx:106): the
\* answer to the query of the host's page shows the listing, whatever its status.
HostSeesListing ==
  [][\A d \in HostPages :
       "MINE" \in pages[d].asked /\ "MINE" \notin pages'[d].asked
         /\ pages'[d].shown = pages[d].shown /\ ~Gone
       => listing.status \in pages'[d].answers]_vars

==============================================================================
