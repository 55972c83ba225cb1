--------------------------------- MODULE Stays ---------------------------------
(***************************************************************************)
(* What becomes of the bookings of one host's property: as days pass they  *)
(* end, pages that show them offer to cancel or to review them, reviews    *)
(* make the rating of the property, and the host asks for the earnings.    *)
(*                                                                         *)
(* A page shows one booking as some answer of the server had it.  Its      *)
(* requests run in the statements of their handlers.  Creation and payment *)
(* are module BookingSystem's; here a hold is sold or ends in one step.    *)
(*                                                                         *)
(* A stay ends on a date, stored as its midnight in UTC.  Pages compare    *)
(* that with the moment, the server with its own last midnight: today is   *)
(* the date in UTC, and midnight the date it was in UTC at the server's    *)
(* last midnight - yesterday until the server's zone has its midnight, and *)
(* never when the server is on UTC.                                        *)
(***************************************************************************)
EXTENDS FiniteSets, Integers

CONSTANTS
  Bookings,
  CheckOut,      \* the day each booking ends
  LastDay,       \* bound: the last day
  Postable,      \* bookings about which events are posted to the webhook
  Pages,         \* open pages
  Requesters     \* payout requests of the host that may overlap

Kinds == {"dashboard", "details", "desk"}

ASSUME StaysAssumption ==
  /\ IsFiniteSet(Bookings) /\ IsFiniteSet(Requesters)
  /\ CheckOut \in [Bookings -> Nat] /\ LastDay \in Nat

VARIABLES
  today,         \* the date in UTC
  midnight,      \* the date it was in UTC at the server's last midnight
  status,
  sold,          \* bookings confirmed at some time
  reviews,       \* bookings with a stored review
  rated,         \* bookings whose reviews make the stored rating and count of the property
  overlapped,    \* two submissions of reviews were open at one time
  page,
  requested,     \* the payouts there are, in earnings of one booking
  payout         \* the payout requests

dayVars == <<today, midnight>>
rowVars == <<dayVars, status, sold, reviews, rated, overlapped>>
payoutVars == <<requested, payout>>
vars == <<rowVars, page, payoutVars>>

Statuses == {"PENDING_PAYMENT", "CONFIRMED", "COMPLETED", "CANCELLED", "EXPIRED"}
Earning == {b \in Bookings : status[b] \in {"CONFIRMED", "COMPLETED"}}
Earned == Cardinality(Earning)

\* seen, reviewed, past: the booking as the page read it, and whether its check-out was over;
\* sees: the reviews the page's transaction counted.
PageOf(kind, b) ==
  [pc |-> "read", kind |-> kind, of |-> b, seen |-> "EXPIRED", reviewed |-> FALSE, past |-> FALSE,
   sees |-> {}]
ClosedPage == [PageOf("none", "none") EXCEPT !.pc = "closed"]
PageStates == {"closed", "read", "shown", "write", "modal", "create", "rate", "store"}

NoPayout == [pc |-> "idle", available |-> 0]

\* Types; what earns was sold, and a completed stay is over.
StaysTypeOK ==
  /\ today \in 0 .. LastDay /\ midnight \in {today - 1, today}
  /\ status \in [Bookings -> Statuses]
  /\ sold \subseteq Bookings /\ Earning \subseteq sold
  /\ reviews \subseteq Bookings
  /\ rated \subseteq reviews
  /\ overlapped \in BOOLEAN
  /\ page \in [Pages -> [pc : PageStates, kind : Kinds \cup {"none"}, of : Bookings \cup {"none"},
                         seen : Statuses, reviewed : BOOLEAN, past : BOOLEAN,
                         sees : SUBSET Bookings]]
  /\ requested \in Nat
  /\ payout \in [Requesters -> [pc : {"idle", "insert"}, available : Nat]]
  /\ \A b \in Bookings : status[b] = "COMPLETED" => CheckOut[b] < midnight

\* The first day, when the server has had its midnight.
Init ==
  /\ today = 0 /\ midnight = 0
  /\ status = [b \in Bookings |-> "PENDING_PAYMENT"]
  /\ sold = {} /\ reviews = {} /\ rated = {} /\ overlapped = FALSE
  /\ page = [p \in Pages |-> ClosedPage]
  /\ requested = 0
  /\ payout = [r \in Requesters |-> NoPayout]

------------------------------------------------------------------------------
(***************************************************************************)
(* Days, payments and holds that end.                                      *)
(***************************************************************************)
\* A day starts in UTC, for a server on UTC with its midnight.
NextDay ==
  /\ today < LastDay /\ midnight = today
  /\ today' = today + 1 /\ midnight' \in {midnight, today'}
  /\ UNCHANGED <<status, sold, reviews, rated, overlapped, page, payoutVars>>

\* The midnight of the server's zone, within the day.
Midnight ==
  /\ midnight < today /\ midnight' = today
  /\ UNCHANGED <<today, status, sold, reviews, rated, overlapped, page, payoutVars>>

\* A hold lapses.
HoldEnds(b) ==
  /\ status[b] = "PENDING_PAYMENT"
  /\ status' = [status EXCEPT ![b] = "EXPIRED"]
  /\ UNCHANGED <<dayVars, sold, reviews, rated, overlapped, page, payoutVars>>

\* A hold is paid: it is made for a later day and lasts a quarter of an hour.  Or
\* processWebhook takes an event posted about a booking, which it confirms whatever it is.
Confirm(b) ==
  /\ \/ b \in Postable
     \/ status[b] = "PENDING_PAYMENT" /\ midnight <= CheckOut[b]
  /\ status' = [status EXCEPT ![b] = "CONFIRMED"]
  /\ sold' = sold \cup {b}
  /\ UNCHANGED <<dayVars, reviews, rated, overlapped, page, payoutVars>>

\* Mutation: a stay ends on the day of the check-out.
OverOnTheDay(b) == status[b] = "CONFIRMED" /\ CheckOut[b] <= midnight

\* The column is a date, and is compared with the date of the midnight.
Over(b) == status[b] = "CONFIRMED" /\ CheckOut[b] < midnight

\* updateExpiredBookings.
CompleteStays ==
  status' = [b \in Bookings |-> IF Over(b) THEN "COMPLETED" ELSE status[b]]

------------------------------------------------------------------------------
(***************************************************************************)
(* What pages show and offer.                                              *)
(***************************************************************************)
At(p, pc) == page[p].pc = pc
Goto(p, pc) == page' = [page EXCEPT ![p].pc = pc]

\* A page is opened on a booking, or asks for it again.
Ask(p, kind, b) ==
  /\ page[p].pc \in {"closed", "shown"}
  /\ page' = [page EXCEPT ![p] = PageOf(kind, b)]
  /\ UNCHANGED <<dayVars, sold, reviews, rated, overlapped, payoutVars>>

\* The lists complete the stays that are over before they read; the details do not.
FetchDashboard(p, b) == Ask(p, "dashboard", b) /\ CompleteStays
FetchDetails(p, b) == Ask(p, "details", b) /\ UNCHANGED status
FetchDesk(p, b) == Ask(p, "desk", b) /\ CompleteStays

\* The dashboard alone compares the check-out with its clock.
IsPast(r) == r.kind = "dashboard" /\ CheckOut[r.of] <= today

Read(p) ==
  LET b == page[p].of
  IN  /\ At(p, "read")
      /\ page' = [page EXCEPT ![p].pc = "shown", ![p].seen = status[b],
                              ![p].reviewed = b \in reviews,
                              ![p].past = IsPast(page[p])]
      /\ UNCHANGED <<rowVars, payoutVars>>

\* It does so again whenever it is drawn.
Render(p) ==
  /\ page[p].pc \in {"shown", "modal"}
  /\ page' = [page EXCEPT ![p].past = IsPast(page[p])]
  /\ UNCHANGED <<rowVars, payoutVars>>

\* A failed query shows no booking.
LoseRead(p) ==
  /\ At(p, "read")
  /\ page' = [page EXCEPT ![p] = ClosedPage]
  /\ UNCHANGED <<rowVars, payoutVars>>

\* Under which tabs the dashboard lists a booking.
Upcoming(p) == page[p].seen # "CANCELLED" /\ ~page[p].past
Past(p) == page[p].seen # "CANCELLED"
           /\ (page[p].seen = "COMPLETED" \/ page[p].past)

DetailsCancel(p) == page[p].seen \notin {"CANCELLED", "COMPLETED"}
DeskCancel(p) == page[p].seen # "CANCELLED"

OffersCancel(p) ==
  CASE page[p].kind = "dashboard" -> Upcoming(p)
    [] page[p].kind = "details" -> DetailsCancel(p)
    [] page[p].kind = "desk" -> DeskCancel(p)

OffersReview(p) ==
  /\ ~page[p].reviewed
  /\ CASE page[p].kind = "dashboard" -> Past(p)
       [] page[p].kind = "details" -> page[p].seen = "COMPLETED"
       [] page[p].kind = "desk" -> FALSE

------------------------------------------------------------------------------
(***************************************************************************)
(* Cancellation, by the guest and by an administrator: a read with its     *)
(* test and a write that tests nothing.                                    *)
(***************************************************************************)
CancellableByGuest(p) == status[page[p].of] \notin {"CANCELLED", "COMPLETED"}
CancellableByAdmin(p) == status[page[p].of] # "CANCELLED"
Cancellable(p) ==
  IF page[p].kind = "desk" THEN CancellableByAdmin(p) ELSE CancellableByGuest(p)

\* A refused request leaves the page, and everything else, as it is.
ClickCancel(p) ==
  /\ At(p, "shown") /\ OffersCancel(p) /\ Cancellable(p)
  /\ page' = [page EXCEPT ![p] = [PageOf(@.kind, @.of) EXCEPT !.pc = "write"]]
  /\ UNCHANGED <<rowVars, payoutVars>>

\* The page asks for the booking again.
WriteCancel(p) ==
  /\ At(p, "write")
  /\ status' = [status EXCEPT ![page[p].of] = "CANCELLED"]
  /\ page' = [page EXCEPT ![p] = ClosedPage]
  /\ UNCHANGED <<dayVars, sold, reviews, rated, overlapped, payoutVars>>

------------------------------------------------------------------------------
(***************************************************************************)
(* Reviews.                                                                *)
(***************************************************************************)
OpenReview(p) ==
  /\ At(p, "shown") /\ OffersReview(p)
  /\ Goto(p, "modal")
  /\ UNCHANGED <<rowVars, payoutVars>>

CloseReview(p) ==
  /\ At(p, "modal")
  /\ Goto(p, "shown")
  /\ UNCHANGED <<rowVars, payoutVars>>

\* Mutation: the day of the check-out is not past.
ReviewableLater(b) ==
  b \notin reviews /\ (status[b] = "COMPLETED" \/ CheckOut[b] < midnight)

\* The start of the check-out day is not after the server's midnight.
Reviewable(b) ==
  b \notin reviews /\ (status[b] = "COMPLETED" \/ CheckOut[b] <= midnight)

\* The read before the transaction; what it refuses leaves the modal open.
SubmitReview(p) ==
  /\ At(p, "modal") /\ Reviewable(page[p].of)
  /\ Goto(p, "create")
  /\ UNCHANGED <<rowVars, payoutVars>>

\* Submissions between their insertion and their commit.
Open == {p \in Pages : page[p].pc \in {"rate", "store"}}

\* The insertion waits for another one of the same booking and fails after it.
CreateReview(p) ==
  /\ At(p, "create")
  /\ \A q \in Open : page[q].of # page[p].of
  /\ Goto(p, IF page[p].of \in reviews THEN "modal" ELSE "rate")
  /\ overlapped' = (overlapped \/ (page[p].of \notin reviews /\ Open # {}))
  /\ UNCHANGED <<dayVars, status, sold, reviews, rated, payoutVars>>

\* Mutation: the average is computed outside the transaction.
RateOutside(p) ==
  /\ At(p, "rate")
  /\ page' = [page EXCEPT ![p].pc = "store", ![p].sees = reviews]
  /\ UNCHANGED <<rowVars, payoutVars>>

\* The transaction sees what is committed and its own review.
Rate(p) ==
  /\ At(p, "rate")
  /\ page' = [page EXCEPT ![p].pc = "store", ![p].sees = reviews \cup {page[p].of}]
  /\ UNCHANGED <<rowVars, payoutVars>>

\* The property row, and the commit; or a failure that leaves nothing.
StoreRating(p) ==
  /\ At(p, "store")
  /\ \/ /\ rated' = page[p].sees
        /\ reviews' = reviews \cup {page[p].of}
        /\ page' = [page EXCEPT ![p] = ClosedPage]
     \/ /\ page' = [page EXCEPT ![p].pc = "modal", ![p].sees = {}]
        /\ UNCHANGED <<reviews, rated>>
  /\ UNCHANGED <<dayVars, status, sold, overlapped, payoutVars>>

------------------------------------------------------------------------------
(***************************************************************************)
(* Earnings: every booking of the host earns the same here.  A payout      *)
(* stays PENDING, for nothing in the code completes one.                   *)
(***************************************************************************)
\* Mutation: only completed payouts are deducted.
ReadWithoutPending(r) ==
  /\ payout[r] = NoPayout /\ Earned > 0
  /\ payout' = [payout EXCEPT ![r] = [pc |-> "insert", available |-> Earned]]
  /\ UNCHANGED <<rowVars, page, requested>>

\* getHostEarningsDashboard, its query of the bookings and that of the payouts in one step.
\* Of an empty balance every amount is refused.
ReadBalance(r) ==
  /\ payout[r] = NoPayout /\ requested < Earned
  /\ payout' = [payout EXCEPT ![r] = [pc |-> "insert", available |-> Earned - requested]]
  /\ UNCHANGED <<rowVars, page, requested>>

InsertPayout(r) ==
  /\ payout[r].pc = "insert"
  /\ payout' = [payout EXCEPT ![r] = NoPayout]
  /\ \/ \E amount \in 1 .. payout[r].available : requested' = requested + amount
     \/ UNCHANGED requested
  /\ UNCHANGED <<rowVars, page>>

------------------------------------------------------------------------------
Cancel(p) == ClickCancel(p) \/ WriteCancel(p)

Review(p) ==
  \/ OpenReview(p) \/ CloseReview(p) \/ SubmitReview(p)
  \/ CreateReview(p) \/ Rate(p) \/ StoreRating(p)

Next ==
  \/ NextDay \/ Midnight
  \/ \E b \in Bookings : HoldEnds(b) \/ Confirm(b)
  \/ \E p \in Pages :
       \/ \E b \in Bookings : FetchDashboard(p, b) \/ FetchDetails(p, b) \/ FetchDesk(p, b)
       \/ Read(p) \/ Render(p) \/ LoseRead(p) \/ Cancel(p) \/ Review(p)
  \/ \E r \in Requesters : ReadBalance(r) \/ InsertPayout(r)

Spec == Init /\ [][Next]_vars

------------------------------------------------------------------------------
\* What the server would refuse of a page.
Refused(p) ==
  \/ At(p, "shown") /\ OffersCancel(p) /\ ~Cancellable(p)
  \/ page[p].pc \in {"shown", "modal"} /\ OffersReview(p) /\ ~Reviewable(page[p].of)

\* The server's midnight has not come yet on the day of the check-out.
DayAhead(b) == CheckOut[b] = today /\ midnight < today

\* The pages and the handlers test the booking in four places and by two clocks, the moment
\* in the browser and the server's last midnight (GuestDashboardPage.tsx:65-70,
\* ReservationDetailsPage.tsx:419-428, booking.service.ts:299, reviews.service.ts:27-34).
\* What a page offers is refused only when the booking or its review has changed since the
\* page read it, or, of a review, on the day of the check-out until the server's midnight:
\* a server that is not on UTC then refuses what the dashboard offers.
RefusedMeansChanged ==
  \A p \in Pages : Refused(p) =>
    \/ status[page[p].of] # page[p].seen
    \/ (page[p].of \in reviews) # page[p].reviewed
    \/ OffersReview(p) /\ DayAhead(page[p].of)

\* The rating and the number of reviews a property shows are those of all its reviews
\* (reviews.service.ts:52-66), as long as no two submissions were open at one time.
RatingIsCurrent == ~overlapped => rated = reviews

\* Payout requests that overlap may each be granted the whole balance (payouts.service.ts:51,
\* :53), and no more than that ever comes of it: what is promised to the host never exceeds
\* what the bookings ever sold earned, once for each request that may be open at one time.
PayoutsAreBounded == requested <= Cardinality(Requesters) * Cardinality(sold)

==============================================================================
