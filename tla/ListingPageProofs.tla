--------------------------- MODULE ListingPageProofs ---------------------------
(***************************************************************************)
(* What the pages of the host and of the administrators keep of a listing, *)
(* for any number of pages, queries and images: only what was approved is  *)
(* published, and a refused request was offered for a status of the past.  *)
(***************************************************************************)
EXTENDS ListingPages, TLAPS

PageRecord == [tab : Tabs, shown : Shown, loading : BOOLEAN, asked : SUBSET Tabs,
               answers : SUBSET Shown, click : Clicks]

ToHost == {"PUBLISHED", Nothing}
OfferedFor(d, status) == IF d \in HostPages THEN OfferedToHost(status) ELSE OfferedToAdmin(status)

\* A click is on a button of the status it was made for.  The host's page shows what is
\* published, or nothing, and what it shows was approved.
PageOK(d, r, ok) ==
  /\ r.click = NoClick \/ r.click.request \in OfferedFor(d, r.click.seen)
  /\ d \in HostPages =>
       /\ r.asked \subseteq {"MINE"}
       /\ r.answers \subseteq ToHost /\ r.shown \in ToHost /\ r.click.seen \in ToHost
       /\ r.tab = "MINE" /\ r.click.tab = "MINE"
       /\ "PUBLISHED" \in r.answers \/ r.shown = "PUBLISHED" \/ r.click.seen = "PUBLISHED" => ok

PagesOK ==
  /\ pages \in [Deciders -> PageRecord]
  /\ approved \in BOOLEAN /\ wizard \in BOOLEAN
  /\ \A d \in Deciders : PageOK(d, pages[d], approved)

\* A request under way is that of the click.
DecidersOK ==
  \A d \in Deciders : deciders[d] # Idle =>
    /\ pages[d].click # NoClick
    /\ deciders[d][1] = pages[d].click.request
    /\ deciders[d][1] = "rejectRemoval" => approved

StatusOK == listing.status \in {"PUBLISHED", "REMOVAL_REQUESTED"} => approved

\* The inductive invariant.
Inv == LifecycleTypeOK /\ PagesOK /\ DecidersOK /\ StatusOK

\* The invariant contains what the run checks of the pages.
LEMMA InvImplies ==
  ASSUME Inv
  PROVE  PagesTypeOK /\ PublishedWasApproved
  BY DEF Inv, PagesOK, PageRecord, PagesTypeOK, StatusOK, PublishedWasApproved

\* A page as it opens shows nothing and has nothing clicked.
LEMMA OpenPageOK ==
  ASSUME NEW d \in Deciders
  PROVE  /\ OpenPage(HomeTab(d)) \in PageRecord /\ OpenPage(HomeTab(d)).click = NoClick
         /\ \A ok : PageOK(d, OpenPage(HomeTab(d)), ok)
  BY DEF OpenPage, HomeTab, PageRecord, PageOK, Tabs, AdminTabs, Shown, Nothing, NoClick, Clicks,
     ToHost

\* A new listing and pages just opened satisfy the invariant.
LEMMA InitInv ==
  ASSUME Init
  PROVE  Inv
<1> USE DEF Init, LifecycleInit
<1>1. LifecycleTypeOK
  BY DEF LifecycleTypeOK, Rows, Statuses, Idle
<1>2. PagesOK
  BY OpenPageOK DEF PagesOK
<1>3. DecidersOK
  BY DEF DecidersOK
<1>4. StatusOK
  BY DEF StatusOK
<1> QED BY <1>1, <1>2, <1>3, <1>4 DEF Inv

------------------------------------------------------------------------------
\* A page changes by itself; its click stays as it is while its request is under way.
LEMMA PageStep ==
  ASSUME Inv, UNCHANGED <<rowVars, deciders, approved, wizard>>,
         NEW d \in Deciders, NEW r \in PageRecord, pages' = [pages EXCEPT ![d] = r],
         PageOK(d, r, approved),
         r.click = pages[d].click \/ deciders[d] = Idle
  PROVE  Inv'
<1>1. LifecycleTypeOK'
  BY DEF Inv, LifecycleTypeOK, rowVars
<1>2. PagesOK'
  BY DEF Inv, PagesOK
<1>3. DecidersOK'
  BY DEF Inv, PagesOK, DecidersOK
<1>4. StatusOK'
  BY DEF Inv, StatusOK, rowVars
<1> QED BY <1>1, <1>2, <1>3, <1>4 DEF Inv

\* Reloading a page keeps the invariant.
LEMMA ReloadKeeps ==
  ASSUME Inv, NEW d \in Deciders, Reload(d)
  PROVE  Inv'
<1>1. deciders[d] = Idle
  BY DEF Inv, DecidersOK, Reload
<1> QED BY <1>1, OpenPageOK, PageStep DEF Reload

\* So does another tab of the administrators' page.
LEMMA OpenTabKeeps ==
  ASSUME Inv, NEW d \in Deciders, NEW tab \in Tabs, OpenTab(d, tab)
  PROVE  Inv'
<1> DEFINE r == [pages[d] EXCEPT !.tab = tab, !.asked = pages[d].asked \cup {tab}, !.loading = TRUE]
<1>1. pages[d] \in PageRecord /\ PageOK(d, pages[d], approved) /\ d \notin HostPages
  BY DEF Inv, PagesOK, OpenTab
<1>2. r \in PageRecord /\ r.click = pages[d].click
  BY <1>1 DEF PageRecord
<1>3. PageOK(d, r, approved)
  BY <1>1, <1>2 DEF PageOK
<1>4. pages' = [pages EXCEPT ![d] = r] /\ UNCHANGED <<rowVars, deciders, approved, wizard>>
  BY <1>1 DEF OpenTab, Asking, PageRecord
<1> HIDE DEF r
<1> QED BY <1>2, <1>3, <1>4, PageStep

\* An answer is the listing's status at its time, or nothing.
LEMMA AnswerKeeps ==
  ASSUME Inv, NEW d \in Deciders, NEW tab \in Tabs, Answer(d, tab)
  PROVE  Inv'
<1> DEFINE answer == IF listing.status \in Found(tab) THEN listing.status ELSE Nothing
           r == [pages[d] EXCEPT !.asked = pages[d].asked \ {tab},
                                 !.answers = pages[d].answers \cup {answer}]
<1>1. pages[d] \in PageRecord /\ PageOK(d, pages[d], approved) /\ tab \in pages[d].asked
  BY DEF Inv, PagesOK, Answer
<1>2. answer \in Shown
  BY DEF Found, Tabs, AdminTabs, Shown, Statuses
<1>3. tab = "MINE" => answer \in ToHost /\ (answer = "PUBLISHED" => approved)
  BY DEF Found, ToHost, Nothing, Inv, StatusOK
<1>4. /\ r \in PageRecord /\ r.click = pages[d].click /\ r.tab = pages[d].tab
      /\ r.shown = pages[d].shown /\ r.asked = pages[d].asked \ {tab}
      /\ r.answers = pages[d].answers \cup {answer}
  BY <1>1, <1>2 DEF PageRecord
<1>5. pages' = [pages EXCEPT ![d] = r] /\ UNCHANGED <<rowVars, deciders, approved, wizard>>
  BY DEF Answer
<1> HIDE DEF r, answer
<1>6. PageOK(d, r, approved)
  BY <1>1, <1>3, <1>4 DEF PageOK
<1> QED BY <1>4, <1>5, <1>6, PageStep

\* A page that shows an answer, however late, keeps the invariant.
LEMMA ReceiveKeeps ==
  ASSUME Inv, NEW d \in Deciders, Receive(d)
  PROVE  Inv'
<1>1. PICK answer \in pages[d].answers :
        /\ pages' = [pages EXCEPT ![d].answers = @ \ {answer}, ![d].shown = answer,
                                  ![d].loading = FALSE]
        /\ UNCHANGED <<rowVars, deciders, approved, wizard>>
  BY DEF Receive
<1> DEFINE r == [pages[d] EXCEPT !.answers = @ \ {answer}, !.shown = answer, !.loading = FALSE]
<1>2. pages[d] \in PageRecord /\ PageOK(d, pages[d], approved)
  BY DEF Inv, PagesOK
<1>3. /\ r \in PageRecord /\ r.click = pages[d].click /\ r.tab = pages[d].tab
      /\ r.asked = pages[d].asked /\ r.answers = pages[d].answers \ {answer} /\ r.shown = answer
  BY <1>2 DEF PageRecord
<1>4. pages' = [pages EXCEPT ![d] = r]
  BY <1>1
<1> HIDE DEF r
<1>5. PageOK(d, r, approved)
  BY <1>2, <1>3 DEF PageOK
<1> QED BY <1>1, <1>3, <1>4, <1>5, PageStep

\* So does one whose query fails.
LEMMA LoseAnswerKeeps ==
  ASSUME Inv, NEW d \in Deciders, LoseAnswer(d)
  PROVE  Inv'
<1>1. PICK tab \in pages[d].asked :
        /\ pages' = [pages EXCEPT ![d].asked = @ \ {tab}, ![d].shown = Nothing,
                                  ![d].loading = FALSE]
        /\ UNCHANGED <<rowVars, deciders, approved, wizard>>
  BY DEF LoseAnswer
<1> DEFINE r == [pages[d] EXCEPT !.asked = @ \ {tab}, !.shown = Nothing, !.loading = FALSE]
<1>2. pages[d] \in PageRecord /\ PageOK(d, pages[d], approved)
  BY DEF Inv, PagesOK
<1>3. /\ r \in PageRecord /\ r.click = pages[d].click /\ r.tab = pages[d].tab
      /\ r.asked = pages[d].asked \ {tab} /\ r.answers = pages[d].answers /\ r.shown = Nothing
  BY <1>2 DEF PageRecord, Shown
<1>4. pages' = [pages EXCEPT ![d] = r]
  BY <1>1
<1> HIDE DEF r
<1>5. PageOK(d, r, approved)
  BY <1>2, <1>3 DEF PageOK, ToHost, Nothing
<1> QED BY <1>1, <1>3, <1>4, <1>5, PageStep

\* A click is on a button offered for the status shown.
LEMMA ClickKeeps ==
  ASSUME Inv, NEW d \in Deciders, NEW request \in Requests, Click(d, request)
  PROVE  Inv'
<1> DEFINE click == [request |-> request, seen |-> pages[d].shown, tab |-> pages[d].tab]
           r == [pages[d] EXCEPT !.click = click]
<1>1. pages[d] \in PageRecord /\ PageOK(d, pages[d], approved) /\ pages[d].click = NoClick
  BY DEF Inv, PagesOK, Click
<1>2. /\ r \in PageRecord /\ r.click = click /\ r.tab = pages[d].tab /\ r.shown = pages[d].shown
      /\ r.asked = pages[d].asked /\ r.answers = pages[d].answers
  BY <1>1 DEF PageRecord, Clicks
<1>3. click.request \in OfferedFor(d, click.seen)
  BY DEF Click, Offered, OfferedFor
<1>4. pages' = [pages EXCEPT ![d] = r] /\ UNCHANGED <<rowVars, deciders, approved, wizard>>
  BY DEF Click
<1>5. deciders[d] = Idle
  BY <1>1 DEF Inv, DecidersOK
<1>6. PageOK(d, r, approved)
  BY <1>1, <1>2, <1>3 DEF PageOK
<1> HIDE DEF r
<1> QED BY <1>2, <1>4, <1>5, <1>6, PageStep

\* A click is over, with or without another query.
Closed(page, asked, loading) ==
  [page EXCEPT !.click = NoClick, !.asked = asked, !.loading = loading]

\* A page back from its request, whatever it then asks for.
LEMMA ClosedOK ==
  ASSUME NEW d \in Deciders, NEW page \in PageRecord, NEW ok, PageOK(d, page, ok),
         NEW asked \in SUBSET Tabs, asked \subseteq page.asked \cup {page.click.tab},
         NEW loading \in BOOLEAN
  PROVE  LET r == Closed(page, asked, loading)
         IN  r \in PageRecord /\ r.click = NoClick /\ PageOK(d, r, ok)
<1> DEFINE r == Closed(page, asked, loading)
<1>1. r \in PageRecord /\ r.click = NoClick
  BY DEF Closed, PageRecord, NoClick, Clicks, Shown, Nothing, Tabs
<1>2. /\ r.tab = page.tab /\ r.shown = page.shown /\ r.answers = page.answers /\ r.asked = asked
  BY DEF Closed, PageRecord
<1> HIDE DEF r
<1>3. PageOK(d, r, ok)
  BY <1>1, <1>2 DEF PageOK, NoClick, ToHost, Nothing
<1> QED BY <1>1, <1>3 DEF r

\* Dismissing a dialog and being refused keep the invariant.
LEMMA DismissKeeps ==
  ASSUME Inv, NEW d \in Deciders, Dismiss(d) \/ Refuse(d)
  PROVE  Inv'
<1> DEFINE r == Closed(pages[d], pages[d].asked, pages[d].loading)
<1>1. pages[d] \in PageRecord /\ PageOK(d, pages[d], approved) /\ deciders[d] = Idle
  BY DEF Inv, PagesOK, Dismiss, Refuse
<1>2. r = [pages[d] EXCEPT !.click = NoClick]
  BY <1>1 DEF PageRecord, Closed
<1>3. pages[d].asked \in SUBSET Tabs /\ pages[d].loading \in BOOLEAN
  BY <1>1 DEF PageRecord
<1>4. pages' = [pages EXCEPT ![d] = r] /\ UNCHANGED <<rowVars, deciders, approved, wizard>>
  BY <1>2 DEF Dismiss, Refuse
<1>5. r \in PageRecord /\ PageOK(d, r, approved)
  BY <1>1, <1>3, ClosedOK
<1> HIDE DEF r
<1> QED BY <1>1, <1>4, <1>5, PageStep

------------------------------------------------------------------------------
\* The request passes its tests.
LEMMA ServeOutcome ==
  ASSUME Inv, NEW d \in Deciders, Serve(d)
  PROVE  /\ UNCHANGED <<rowVars, pagesVars>>
         /\ pages[d].click.request \in Requests /\ pages[d].click # NoClick
         /\ pages[d].click.request = "rejectRemoval" => listing.status = "REMOVAL_REQUESTED"
         /\ \E to \in Statuses \cup {"GONE"} :
              deciders' = [deciders EXCEPT ![d] = <<pages[d].click.request, to>>]
<1> DEFINE request == pages[d].click.request
           Begins(to) ==
             /\ deciders' = [deciders EXCEPT ![d] = <<request, to>>]
             /\ UNCHANGED rowVars
<1>1. deciders[d] = Idle /\ pages[d].click # NoClick /\ UNCHANGED pagesVars
  BY DEF Serve
<1>2. CASE HostRoute(d, request)
  BY <1>1, <1>2
  DEF HostRoute, SubmitForApproval, UnpublishProperty, RepublishProperty, RequestPropertyRemoval,
      CancelRemovalRequest, Ask, Decide, Idle, Requests, Statuses
<1>3. CASE AdminRoute(d, request)
  <2>1. CASE request = "delete"
    BY <1>1, <1>3, <2>1 DEF AdminRoute, HardDeleteProperty, Ask, Idle, Requests
  <2>2. CASE request # "delete"
    BY <1>1, <1>3, <2>2
    DEF AdminRoute, ApproveProperty, RejectProperty, ApproveRemovalRequest,
        RejectRemovalRequest, ArchiveProperty, RestoreProperty, Ask, Decide, Idle, Requests,
        Statuses
  <2> QED BY <2>1, <2>2
<1> QED BY <1>2, <1>3 DEF Serve

\* The read of a clicked request keeps the invariant.
LEMMA ServeKeeps ==
  ASSUME Inv, NEW d \in Deciders, Serve(d)
  PROVE  Inv'
<1>1. PICK to \in Statuses \cup {"GONE"} :
        deciders' = [deciders EXCEPT ![d] = <<pages[d].click.request, to>>]
  BY ServeOutcome
<1>2. LifecycleTypeOK'
  BY <1>1, ServeOutcome DEF Inv, LifecycleTypeOK, rowVars
<1>3. PagesOK'
  BY ServeOutcome DEF Inv, PagesOK, pagesVars
<1>4. DecidersOK'
  <2>1. pages[d].click.request = "rejectRemoval" => approved
    BY ServeOutcome DEF Inv, StatusOK
  <2>2. UNCHANGED <<pages, approved>>
    BY ServeOutcome DEF pagesVars
  <2> QED BY <1>1, <2>1, <2>2, ServeOutcome DEF Inv, DecidersOK, LifecycleTypeOK
<1>5. StatusOK'
  BY ServeOutcome DEF Inv, StatusOK, rowVars, pagesVars
<1> QED BY <1>2, <1>3, <1>4, <1>5 DEF Inv

------------------------------------------------------------------------------
\* What the host's page lets a click ask for.
LEMMA HostClicks ==
  ASSUME Inv, NEW d \in Deciders, pages[d].click # NoClick
  PROVE  /\ pages[d].click.request \in OfferedFor(d, pages[d].click.seen)
         /\ pages[d].click.request \in {"submit", "republish", "cancelRemoval"} => FALSE
         /\ pages[d].click.request = "requestRemoval" => approved
<1>1. PageOK(d, pages[d], approved) /\ pages[d].click.request \in OfferedFor(d, pages[d].click.seen)
  BY DEF Inv, PagesOK, PageOK
<1>2. CASE d \in HostPages
  BY <1>1, <1>2 DEF PageOK, OfferedFor, OfferedToHost, ToHost, Nothing
<1>3. CASE d \notin HostPages
  BY <1>1, <1>3 DEF OfferedFor, OfferedToAdmin, Nothing
<1> QED BY <1>1, <1>2, <1>3

\* The rows after a decision.
LEMMA DecideOutcome ==
  ASSUME Inv, NEW d \in Deciders, NEW request \in Requests, NEW to \in Statuses,
         NEW row \in Rows,
         Decide(d, request, to, row)
  PROVE  /\ LifecycleTypeOK'
         /\ deciders' = [deciders EXCEPT ![d] = Idle]
         /\ listing'.status = listing.status \/ (listing'.status = to /\ ~Gone)
<1>1. CASE ~Gone
  <2>1. listing' \in Rows /\ listing'.status = to /\ newest' = to
    BY <1>1 DEF Decide, Rows, Gone
  <2> QED BY <1>1, <2>1 DEF Decide, Inv, LifecycleTypeOK
<1>2. CASE Gone
  BY <1>2 DEF Decide, Inv, LifecycleTypeOK, Gone, Statuses
<1> QED BY <1>1, <1>2

\* The write of a clicked request leaves types, an idle client, and a status that only
\* an approved listing has or that needs no approval.
LEMMA CompleteOutcome ==
  ASSUME Inv, NEW d \in Deciders, Complete(d)
  PROVE  /\ LifecycleTypeOK'
         /\ deciders' = [deciders EXCEPT ![d] = Idle]
         /\ StatusOK'
<1> DEFINE request == pages[d].click.request
           Outcome(to) ==
             /\ LifecycleTypeOK'
             /\ deciders' = [deciders EXCEPT ![d] = Idle]
             /\ listing'.status = listing.status \/ (listing'.status = to /\ ~Gone)
<1>1. /\ deciders[d] # Idle /\ pages[d].click # NoClick
      /\ approved' = (approved \/ (request = "approve" /\ ~Gone))
      /\ request = "rejectRemoval" => approved
  BY DEF Complete, Inv, DecidersOK
<1>2. /\ listing \in Rows /\ [listing EXCEPT !.rejection = FALSE] \in Rows
      /\ [listing EXCEPT !.rejection = TRUE] \in Rows /\ [listing EXCEPT !.removal = TRUE] \in Rows
      /\ Settled(listing) \in Rows
  BY DEF Inv, LifecycleTypeOK, Settled, Rows
<1>3. listing.status \in {"PUBLISHED", "REMOVAL_REQUESTED"} => approved
  BY DEF Inv, StatusOK
<1>4. ASSUME NEW to \in Statuses, Outcome(to),
             to \in {"PUBLISHED", "REMOVAL_REQUESTED"} => approved \/ request = "approve"
      PROVE  LifecycleTypeOK' /\ deciders' = [deciders EXCEPT ![d] = Idle] /\ StatusOK'
  BY <1>1, <1>3, <1>4 DEF StatusOK
<1> HIDE DEF Outcome
<1>a. ASSUME NEW r \in Requests, NEW to \in Statuses, NEW row \in Rows, Decide(d, r, to, row)
      PROVE  Outcome(to)
  BY <1>a, DecideOutcome DEF Outcome
<1>5. CASE HostRoute(d, request)
  <2>1. CASE request = "unpublish"
    <3>1. Decide(d, "unpublish", "UNPUBLISHED", listing)
      BY <1>1, <1>5, <2>1 DEF HostRoute, UnpublishProperty, Ask
    <3> QED BY <1>2, <1>4, <1>a, <3>1 DEF Requests, Statuses
  <2>2. CASE request = "requestRemoval"
    <3>1. Decide(d, "requestRemoval", "REMOVAL_REQUESTED", [listing EXCEPT !.removal = TRUE])
      BY <1>1, <1>5, <2>2 DEF HostRoute, RequestPropertyRemoval, Ask
    <3>2. approved
      BY <1>1, <2>2, HostClicks
    <3> QED BY <1>2, <1>4, <1>a, <3>1, <3>2 DEF Requests, Statuses
  <2> QED BY <1>1, <1>5, <2>1, <2>2, HostClicks DEF HostRoute
<1>6. CASE AdminRoute(d, request)
  <2>1. CASE request = "approve"
    <3>1. Decide(d, "approve", "PUBLISHED", [listing EXCEPT !.rejection = FALSE])
      BY <1>1, <1>6, <2>1 DEF AdminRoute, ApproveProperty, Ask
    <3> QED BY <1>2, <1>4, <1>a, <2>1, <3>1 DEF Requests, Statuses
  <2>2. CASE request = "reject"
    <3>1. Decide(d, "reject", "REJECTED", [listing EXCEPT !.rejection = TRUE])
      BY <1>1, <1>6, <2>2 DEF AdminRoute, RejectProperty, Ask
    <3> QED BY <1>2, <1>4, <1>a, <3>1 DEF Requests, Statuses
  <2>3. CASE request = "approveRemoval"
    <3>1. Decide(d, "approveRemoval", "ARCHIVED", listing)
      BY <1>1, <1>6, <2>3 DEF AdminRoute, ApproveRemovalRequest, Ask
    <3> QED BY <1>2, <1>4, <1>a, <3>1 DEF Requests, Statuses
  <2>4. CASE request = "rejectRemoval"
    <3>1. Decide(d, "rejectRemoval", "PUBLISHED", Settled(listing))
      BY <1>1, <1>6, <2>4 DEF AdminRoute, RejectRemovalRequest, Ask
    <3> QED BY <1>1, <1>2, <1>4, <1>a, <2>4, <3>1 DEF Requests, Statuses
  <2>5. CASE request = "archive"
    <3>1. Decide(d, "archive", "ARCHIVED", listing)
      BY <1>1, <1>6, <2>5 DEF AdminRoute, ArchiveProperty, Ask
    <3> QED BY <1>2, <1>4, <1>a, <3>1 DEF Requests, Statuses
  <2>6. CASE request = "restore"
    <3>1. Decide(d, "restore", "DRAFT", listing)
      BY <1>1, <1>6, <2>6 DEF AdminRoute, RestoreProperty, Ask
    <3> QED BY <1>2, <1>4, <1>a, <3>1 DEF Requests, Statuses
  <2>7. CASE request = "delete"
    <3>1. /\ deciders' = [deciders EXCEPT ![d] = Idle]
          /\ \/ Gone /\ UNCHANGED rowVars
             \/ /\ listing' = [status |-> "GONE", rejection |-> FALSE, removal |-> FALSE,
                               edited |-> FALSE]
                /\ newest' = "NONE"
                /\ images' = [i \in Images |-> IF Live(i) THEN "deleted" ELSE images[i]]
                /\ booking' = IF booking = "made" THEN "none" ELSE booking
      BY <1>1, <1>6, <2>7 DEF AdminRoute, HardDeleteProperty, Ask
    <3>2. LifecycleTypeOK'
      <4>1. deciders' \in [Deciders -> {Idle} \cup (Requests \X (Statuses \cup {"GONE"}))]
        BY <3>1 DEF Inv, LifecycleTypeOK
      <4>2. CASE UNCHANGED rowVars
        BY <4>1, <4>2 DEF Inv, LifecycleTypeOK, rowVars
      <4>3. CASE ~UNCHANGED rowVars
        <5>1. /\ listing' = [status |-> "GONE", rejection |-> FALSE, removal |-> FALSE,
                             edited |-> FALSE]
              /\ newest' = "NONE"
              /\ images' = [i \in Images |-> IF Live(i) THEN "deleted" ELSE images[i]]
              /\ booking' \in {"none", booking}
          BY <3>1, <4>3
        <5>2. images' \in [Images -> {"unborn", "plain", "cover", "deleted"}]
          BY <5>1 DEF Inv, LifecycleTypeOK
        <5> QED BY <4>1, <5>1, <5>2 DEF Inv, LifecycleTypeOK, Rows
      <4> QED BY <4>2, <4>3
    <3>3. StatusOK'
      <4>1. listing'.status \in {listing.status, "GONE"}
        BY <3>1 DEF rowVars
      <4> QED BY <1>1, <1>3, <4>1 DEF StatusOK
    <3> QED BY <3>1, <3>2, <3>3
  <2> QED BY <1>6, <2>1, <2>2, <2>3, <2>4, <2>5, <2>6, <2>7 DEF AdminRoute
<1> QED BY <1>5, <1>6 DEF Complete

\* The write of a clicked request keeps the invariant.
LEMMA CompleteKeeps ==
  ASSUME Inv, NEW d \in Deciders, Complete(d)
  PROVE  Inv'
<1> DEFINE r == Closed(pages[d], pages[d].asked \cup {pages[d].click.tab}, TRUE)
<1>1. pages[d] \in PageRecord /\ PageOK(d, pages[d], approved) /\ deciders[d] # Idle
  BY DEF Inv, PagesOK, Complete
<1>2. pages[d].asked \cup {pages[d].click.tab} \in SUBSET Tabs
  BY <1>1 DEF PageRecord, Clicks
<1>3. r \in PageRecord /\ PageOK(d, r, approved) /\ r.click = NoClick
  BY <1>1, <1>2, ClosedOK
<1>4. r = Asking([pages[d] EXCEPT !.click = NoClick], pages[d].click.tab)
  BY <1>1 DEF Closed, Asking, PageRecord
<1> HIDE DEF r
<1>5. /\ pages' = [pages EXCEPT ![d] = r] /\ wizard' = wizard
      /\ approved' = (approved \/ (pages[d].click.request = "approve" /\ ~Gone))
  BY <1>4 DEF Complete
<1>6. approved' \in BOOLEAN /\ (approved => approved')
  BY <1>5 DEF Inv, PagesOK
<1>7. PagesOK'
  BY <1>3, <1>5, <1>6 DEF Inv, PagesOK, PageOK
<1>8. DecidersOK'
  BY <1>5, <1>6, CompleteOutcome DEF Inv, DecidersOK, PagesOK, LifecycleTypeOK
<1> QED BY <1>7, <1>8, CompleteOutcome DEF Inv

------------------------------------------------------------------------------
\* Uploads and a guest's booking keep the invariant.
LEMMA RestKeeps ==
  ASSUME Inv, UploadImages \/ GuestBooks \/ UNCHANGED vars
  PROVE  Inv'
<1>1. UNCHANGED <<deciders, pages, approved>> /\ UNCHANGED listing
  BY DEF UploadImages, GuestBooks, OpenBooking, CommitBooking, vars, pagesVars, rowVars
<1>2. wizard' \in BOOLEAN
  BY DEF UploadImages, GuestBooks, vars, pagesVars, Inv, PagesOK
<1>3. LifecycleTypeOK'
  <2>1. CASE UploadImages
    BY <1>1, <2>1 DEF UploadImages, Inv, LifecycleTypeOK
  <2>2. CASE GuestBooks \/ UNCHANGED vars
    BY <1>1, <2>2 DEF GuestBooks, OpenBooking, CommitBooking, vars, rowVars, Inv, LifecycleTypeOK
  <2> QED BY <2>1, <2>2
<1>4. PagesOK'
  BY <1>1, <1>2 DEF Inv, PagesOK
<1>5. DecidersOK' /\ StatusOK'
  BY <1>1 DEF Inv, DecidersOK, StatusOK
<1> QED BY <1>3, <1>4, <1>5 DEF Inv

\* Every step keeps the invariant.
LEMMA NextKeeps ==
  ASSUME Inv, [Next]_vars
  PROVE  Inv'
<1>1. CASE Next
  BY <1>1, ReloadKeeps, OpenTabKeeps, AnswerKeeps, ReceiveKeeps, LoseAnswerKeeps, ClickKeeps,
     DismissKeeps, ServeKeeps, CompleteKeeps, RestKeeps DEF Next
<1>2. CASE UNCHANGED vars
  BY <1>2, RestKeeps
<1> QED BY <1>1, <1>2

\* The invariant holds in every reachable state.
THEOREM Invariance == Spec => []Inv
<1> QED BY InitInv, NextKeeps, PTL DEF Spec

\* Pages show statuses and send requests for statuses they showed.
THEOREM TypeCorrect == Spec => []PagesTypeOK
<1> QED BY Invariance, InvImplies, PTL

\* No request from a page publishes a listing that no administrator approved
\* (admin.service.ts:1098, properties.service.ts:540).
THEOREM PublishedApproved == Spec => []PublishedWasApproved
<1> QED BY Invariance, InvImplies, PTL

------------------------------------------------------------------------------
RefusedStale ==
  \A d \in Deciders :
    /\ pages[d].click # NoClick /\ pages'[d].click = NoClick
    /\ listing.status \notin NeedsStatus(pages[d].click.request)
    /\ deciders[d] = Idle
    => pages[d].click.seen # listing.status

\* In every state of the invariant, a request refused for the status was offered for
\* another one.
LEMMA StepRefusesStale ==
  ASSUME Inv
  PROVE  RefusedStale
<1> SUFFICES ASSUME NEW d \in Deciders, pages[d].click # NoClick,
                    listing.status \notin NeedsStatus(pages[d].click.request),
                    pages[d].click.seen = listing.status
             PROVE  FALSE
  BY DEF RefusedStale
<1>1. pages[d].click.request \in OfferedFor(d, listing.status)
  BY HostClicks
<1>2. listing.status \in Statuses \cup {"GONE"} /\ pages[d].click.seen \in Shown
  BY DEF Inv, LifecycleTypeOK, Rows, PagesOK, PageRecord, Clicks
<1>3. CASE d \in HostPages
  BY <1>1, <1>2, <1>3 DEF OfferedFor, OfferedToHost, NeedsStatus, Statuses
<1>4. CASE d \notin HostPages
  BY <1>1, <1>2, <1>4 DEF OfferedFor, OfferedToAdmin, NeedsStatus, Statuses, Shown, Nothing
<1> QED BY <1>3, <1>4

\* A request that is refused for the status was offered for another status
\* (HostPropertiesPage.tsx:212-260, AdminPropertiesPage.tsx:297-358).
THEOREM RefusalsAreStale == Spec => RefusedMeansStale
<1>1. Inv /\ [Next]_vars => [RefusedStale]_vars
  BY StepRefusesStale
<1> QED BY <1>1, Invariance, PTL DEF Spec, RefusedMeansStale, RefusedStale

==============================================================================
