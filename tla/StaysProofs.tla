------------------------------ MODULE StaysProofs ------------------------------
(***************************************************************************)
(* Stays' invariants hold for any bookings, check-out days, pages and      *)
(* payout requests.                                                        *)
(***************************************************************************)
EXTENDS Stays, FiniteSetTheorems, TLAPS

PageRecord == [pc : PageStates, kind : Kinds \cup {"none"}, of : Bookings \cup {"none"},
               seen : Statuses, reviewed : BOOLEAN, past : BOOLEAN, sees : SUBSET Bookings]

(***************************************************************************)
(* The inductive invariant, by the variables it is about.                  *)
(***************************************************************************)
RowsOK ==
  /\ today \in 0 .. LastDay /\ midnight \in {today - 1, today}
  /\ status \in [Bookings -> Statuses]
  /\ sold \subseteq Bookings /\ Earning \subseteq sold
  /\ \A b \in Bookings : status[b] = "COMPLETED" => CheckOut[b] < midnight

\* A page shows a booking; what it took for past is past, as everything is that the
\* dashboard shows completed.
ShownOK(r, day) ==
  /\ r.pc # "closed" => r.kind \in Kinds /\ r.of \in Bookings
  /\ r.pc # "closed" /\ r.past => CheckOut[r.of] <= day
  /\ r.pc # "closed" /\ r.kind = "dashboard" /\ r.seen = "COMPLETED" => r.past

PagesOK ==
  /\ page \in [Pages -> PageRecord]
  /\ \A p \in Pages : ShownOK(page[p], today)

\* As long as no two submissions overlap, the one that is open counts every review.
RatingOK ==
  /\ overlapped \in BOOLEAN
  /\ reviews \subseteq Bookings /\ rated \subseteq reviews
  /\ \A p \in Pages : page[p].pc = "store" => page[p].sees \subseteq reviews \cup {page[p].of}
  /\ ~overlapped =>
       /\ rated = reviews
       /\ \A p, q \in Open : p = q
       /\ \A p \in Pages : page[p].pc = "store" => page[p].sees = reviews \cup {page[p].of}

\* What the open requests may still ask for, one pair for each earning.
Promised == {x \in Requesters \X Nat : 1 <= x[2] /\ x[2] <= payout[x[1]].available}

PayoutsOK ==
  /\ requested \in Nat
  /\ payout \in [Requesters -> [pc : {"idle", "insert"}, available : Nat]]
  /\ \A r \in Requesters :
       /\ payout[r].available <= Cardinality(sold)
       /\ payout[r].pc = "idle" => payout[r].available = 0
  /\ requested + Cardinality(Promised) <= Cardinality(Requesters) * Cardinality(sold)

Inv == RowsOK /\ PagesOK /\ RatingOK /\ PayoutsOK

------------------------------------------------------------------------------
\* The invariant contains the types.
LEMMA TypesImplied ==
  ASSUME Inv
  PROVE  StaysTypeOK
  BY DEF Inv, RowsOK, PagesOK, PageRecord, RatingOK, PayoutsOK, StaysTypeOK

\* The invariant contains the currency of the rating.
LEMMA RatingImplied ==
  ASSUME Inv
  PROVE  RatingIsCurrent
  BY DEF Inv, RatingOK, RatingIsCurrent

\* What a page offers follows from what it shows, so a refusal means a change.
LEMMA RefusedImplied ==
  ASSUME Inv
  PROVE  RefusedMeansChanged
<1> SUFFICES ASSUME NEW p \in Pages, Refused(p),
                    status[page[p].of] = page[p].seen,
                    (page[p].of \in reviews) = page[p].reviewed,
                    ~(OffersReview(p) /\ DayAhead(page[p].of))
             PROVE  FALSE
  BY DEF RefusedMeansChanged
<1>1. /\ page[p].of \in Bookings /\ page[p].kind \in Kinds
      /\ page[p].past => CheckOut[page[p].of] <= today
      /\ page[p].kind = "dashboard" /\ page[p].seen = "COMPLETED" => page[p].past
  BY DEF Inv, PagesOK, ShownOK, Refused, At
<1>2. CASE OffersCancel(p) /\ ~Cancellable(p)
  BY <1>1, <1>2 DEF OffersCancel, Cancellable, CancellableByGuest, CancellableByAdmin, Upcoming,
     DetailsCancel, DeskCancel, Kinds
<1>3. CASE OffersReview(p) /\ ~Reviewable(page[p].of)
  <2>1. page[p].past /\ ~(CheckOut[page[p].of] <= midnight)
    BY <1>1, <1>3 DEF OffersReview, Reviewable, Past, Kinds
  <2>2. /\ midnight = today - 1 \/ midnight = today
        /\ today \in Nat /\ CheckOut[page[p].of] \in Nat /\ CheckOut[page[p].of] <= today
    BY <1>1, <2>1, StaysAssumption DEF Inv, RowsOK
  <2>3. CheckOut[page[p].of] = today /\ midnight < today
    BY <2>1, <2>2
  <2> QED BY <1>3, <2>3 DEF DayAhead
<1> QED BY <1>2, <1>3 DEF Refused

\* An initial segment of the numbers has as many members as it says.
LEMMA UpTo ==
  ASSUME NEW n \in Nat
  PROVE  IsFiniteSet(1 .. n) /\ Cardinality(1 .. n) = n
<1>1. 1 \in Int /\ n \in Int
  OBVIOUS
<1>2. IsFiniteSet(1 .. n) /\ Cardinality(1 .. n) = IF 1 > n THEN 0 ELSE n - 1 + 1
  BY <1>1, FS_Interval
<1> QED BY <1>2

\* The payouts promised are finitely many.
LEMMA PromisedIsFinite ==
  ASSUME PayoutsOK, IsFiniteSet(sold)
  PROVE  IsFiniteSet(Promised)
<1>1. Cardinality(sold) \in Nat
  BY FS_CardinalityType
<1>2. Promised \subseteq Requesters \X (1 .. Cardinality(sold))
  <2>1. ASSUME NEW r \in Requesters, NEW i \in Nat, 1 <= i, i <= payout[r].available
        PROVE  i \in 1 .. Cardinality(sold)
    BY <1>1, <2>1 DEF PayoutsOK
  <2> QED BY <2>1 DEF Promised
<1>3. IsFiniteSet(Requesters \X (1 .. Cardinality(sold)))
  BY <1>1, UpTo, FS_Product, StaysAssumption
<1> QED BY <1>2, <1>3, FS_Subset

\* The bookings sold are finitely many.
LEMMA SoldIsFinite ==
  ASSUME RowsOK
  PROVE  IsFiniteSet(sold) /\ Cardinality(sold) \in Nat /\ Cardinality(Requesters) \in Nat
  BY FS_Subset, FS_CardinalityType, StaysAssumption DEF RowsOK

\* The invariant bounds the payouts.
LEMMA PayoutsImplied ==
  ASSUME Inv
  PROVE  PayoutsAreBounded
<1>1. IsFiniteSet(sold) /\ Cardinality(sold) \in Nat /\ Cardinality(Requesters) \in Nat
  BY SoldIsFinite DEF Inv
<1>2. Cardinality(Promised) \in Nat
  BY <1>1, PromisedIsFinite, FS_CardinalityType DEF Inv
<1>3. Cardinality(Requesters) * Cardinality(sold) \in Nat
  BY <1>1
<1> QED BY <1>2, <1>3 DEF Inv, PayoutsOK, PayoutsAreBounded

\* A closed page claims nothing.
LEMMA ClosedPageOK ==
  /\ ClosedPage \in PageRecord /\ ClosedPage.pc = "closed" /\ (\A day : ShownOK(ClosedPage, day))
  /\ ClosedPage.seen = "EXPIRED"
  BY DEF ClosedPage, PageOf, PageRecord, PageStates, Statuses, ShownOK

\* The first day satisfies the invariant.
LEMMA InitInv ==
  ASSUME Init
  PROVE  Inv
<1> USE DEF Init
<1>1. RowsOK
  BY StaysAssumption DEF RowsOK, Statuses, Earning
<1>2. PagesOK
  BY ClosedPageOK DEF PagesOK
<1>3. RatingOK
  BY ClosedPageOK DEF RatingOK, Open
<1>4. PayoutsOK
  <2>1. Promised = {}
    BY DEF Promised, NoPayout
  <2>2. Cardinality(sold) = 0 /\ Cardinality(Promised) = 0
    BY <2>1, FS_EmptySet
  <2>3. Cardinality(Requesters) \in Nat
    BY StaysAssumption, FS_CardinalityType
  <2>4. Cardinality(Requesters) * 0 = 0
    BY <2>3
  <2> QED BY <2>2, <2>4 DEF PayoutsOK, NoPayout
<1> QED BY <1>1, <1>2, <1>3, <1>4 DEF Inv

------------------------------------------------------------------------------
(***************************************************************************)
(* What a step leaves alone stays as it should be.                         *)
(***************************************************************************)
LEMMA PagesKept ==
  ASSUME Inv, RowsOK', UNCHANGED page, today <= today'
  PROVE  PagesOK'
<1> SUFFICES ASSUME NEW p \in Pages PROVE ShownOK(page[p], today')
  BY DEF Inv, PagesOK
<1>1. ShownOK(page[p], today)
  BY DEF Inv, PagesOK
<1>2. page[p].pc # "closed" => CheckOut[page[p].of] \in Nat
  BY <1>1, StaysAssumption DEF ShownOK
<1>3. today \in Nat /\ today' \in Nat
  BY StaysAssumption DEF Inv, RowsOK
<1> QED BY <1>1, <1>2, <1>3 DEF ShownOK

\* More bookings sold leave the payouts within their bound.
LEMMA PayoutsKept ==
  ASSUME Inv, UNCHANGED payoutVars, sold \subseteq sold', sold' \subseteq Bookings
  PROVE  PayoutsOK'
<1>1. /\ Cardinality(sold) \in Nat /\ Cardinality(sold') \in Nat
      /\ Cardinality(sold) <= Cardinality(sold') /\ Cardinality(Requesters) \in Nat
  BY StaysAssumption, FS_Subset, FS_CardinalityType
<1>2. Cardinality(Requesters) * Cardinality(sold) <= Cardinality(Requesters) * Cardinality(sold')
  BY <1>1
<1>3. Promised' = Promised /\ UNCHANGED <<requested, payout>>
  BY DEF Promised, payoutVars
<1>4. Cardinality(Promised) \in Nat
  BY SoldIsFinite, PromisedIsFinite, FS_CardinalityType DEF Inv
<1>5. requested + Cardinality(Promised) <= Cardinality(Requesters) * Cardinality(sold')
  <2>1. /\ Cardinality(Requesters) * Cardinality(sold) \in Nat
        /\ Cardinality(Requesters) * Cardinality(sold') \in Nat
    BY <1>1
  <2> QED BY <1>2, <1>4, <2>1 DEF Inv, PayoutsOK
<1>6. \A r \in Requesters : payout[r].available <= Cardinality(sold')
  BY <1>1 DEF Inv, PayoutsOK
<1> QED BY <1>3, <1>5, <1>6 DEF Inv, PayoutsOK

\* What touches no review keeps the rating.
LEMMA RatingKept ==
  ASSUME Inv, UNCHANGED <<reviews, rated, overlapped, page>>
  PROVE  RatingOK'
  BY DEF Inv, RatingOK, Open

\* One page changes; it is in no transaction after it.
LEMMA PageStep ==
  ASSUME Inv, UNCHANGED today, NEW p \in Pages, NEW r \in PageRecord,
         page' = [page EXCEPT ![p] = r], ShownOK(r, today)
  PROVE  PagesOK'
  BY DEF Inv, PagesOK

\* A page that leaves a submission, or was in none, keeps the rating.
LEMMA OutsideStep ==
  ASSUME Inv, UNCHANGED <<reviews, rated, overlapped>>, NEW p \in Pages, NEW r \in PageRecord,
         page' = [page EXCEPT ![p] = r], r.pc \notin {"rate", "store"}
  PROVE  RatingOK'
<1>1. \A q \in Pages : q # p => page'[q] = page[q]
  OBVIOUS
<1>2. page'[p].pc \notin {"rate", "store"}
  BY DEF Inv, PagesOK
<1>3. Open' \subseteq Open
  BY <1>1, <1>2 DEF Open
<1> QED BY <1>1, <1>2, <1>3 DEF Inv, RatingOK

\* The page is on the way of a request, in the same kind and on the same booking.
LEMMA SamePage ==
  ASSUME Inv, NEW p \in Pages, page[p].pc # "closed",
         NEW pc \in {"shown", "modal", "create", "rate"}
  PROVE  /\ [page[p] EXCEPT !.pc = pc] \in PageRecord
         /\ [page[p] EXCEPT !.pc = pc].pc = pc
         /\ ShownOK([page[p] EXCEPT !.pc = pc], today)
<1>1. page[p] \in PageRecord /\ ShownOK(page[p], today)
  BY DEF Inv, PagesOK
<1> QED BY <1>1 DEF PageRecord, PageStates, ShownOK

\* A page that starts to read has a sound record.
LEMMA FreshPage ==
  ASSUME NEW kind \in Kinds, NEW b \in Bookings
  PROVE  /\ PageOf(kind, b) \in PageRecord /\ PageOf(kind, b).pc = "read"
         /\ \A day : ShownOK(PageOf(kind, b), day)
  BY DEF PageOf, PageRecord, PageStates, Statuses, ShownOK

------------------------------------------------------------------------------
(***************************************************************************)
(* Every action preserves the invariant.                                   *)
(***************************************************************************)
LEMMA DayKeeps ==
  ASSUME Inv, NextDay \/ Midnight
  PROVE  Inv'
<1>1. /\ today \in Nat /\ today' \in 0 .. LastDay /\ today <= today'
      /\ midnight' \in {today' - 1, today'} /\ midnight \in Int /\ midnight <= midnight'
  BY StaysAssumption DEF Inv, RowsOK, NextDay, Midnight
<1>2. UNCHANGED <<status, sold, reviews, rated, overlapped, page, payoutVars>>
  BY DEF NextDay, Midnight
<1>3. RowsOK'
  <2>1. \A b \in Bookings : CheckOut[b] < midnight => CheckOut[b] < midnight'
    BY <1>1, StaysAssumption
  <2> QED BY <1>1, <1>2, <2>1 DEF Inv, RowsOK, Earning
<1>4. PagesOK'
  BY <1>1, <1>2, <1>3, PagesKept
<1>5. RatingOK'
  BY <1>2, RatingKept
<1>6. PayoutsOK'
  BY <1>2, PayoutsKept DEF Inv, RowsOK
<1> QED BY <1>3, <1>4, <1>5, <1>6 DEF Inv

\* The end of a hold and a confirmation keep the invariant.
LEMMA HoldKeeps ==
  ASSUME Inv, NEW b \in Bookings, HoldEnds(b) \/ Confirm(b)
  PROVE  Inv'
<1>1. today \in Nat /\ UNCHANGED <<today, midnight>>
  BY StaysAssumption DEF Inv, RowsOK, HoldEnds, Confirm, dayVars
<1>2. \A c \in Bookings : c # b => status'[c] = status[c]
  BY DEF Inv, RowsOK, HoldEnds, Confirm
<1>3. RowsOK' /\ sold \subseteq sold'
  <2>1. CASE status' = [status EXCEPT ![b] = "EXPIRED"] /\ UNCHANGED sold
    BY <1>1, <1>2, <2>1 DEF Inv, RowsOK, Statuses, Earning
  <2>2. CASE status' = [status EXCEPT ![b] = "CONFIRMED"] /\ sold' = sold \cup {b}
    BY <1>1, <1>2, <2>2 DEF Inv, RowsOK, Statuses, Earning
  <2> QED BY <2>1, <2>2 DEF HoldEnds, Confirm
<1>4. UNCHANGED <<reviews, rated, overlapped, page, payoutVars>>
  BY DEF HoldEnds, Confirm
<1>5. PagesOK'
  BY <1>1, <1>3, <1>4, PagesKept
<1>6. RatingOK'
  BY <1>4, RatingKept
<1>7. PayoutsOK'
  BY <1>3, <1>4, PayoutsKept DEF RowsOK
<1> QED BY <1>3, <1>5, <1>6, <1>7 DEF Inv

\* The sweep of stays that are over completes only what was sold.
LEMMA CompleteStaysKeeps ==
  ASSUME Inv, CompleteStays, UNCHANGED <<today, midnight, sold>>
  PROVE  RowsOK'
<1>1. \A b \in Bookings : status'[b] = IF Over(b) THEN "COMPLETED" ELSE status[b]
  BY DEF CompleteStays
<1>2. status' \in [Bookings -> Statuses]
  BY <1>1 DEF CompleteStays, Inv, RowsOK, Statuses
<1>3. Earning' = Earning
  BY <1>1 DEF Earning, Over
<1> QED BY <1>1, <1>2, <1>3 DEF Inv, RowsOK, Over

\* Opening a page keeps the invariant.
LEMMA AskKeeps ==
  ASSUME Inv, NEW p \in Pages, NEW kind \in Kinds, NEW b \in Bookings, Ask(p, kind, b), RowsOK'
  PROVE  Inv'
<1>1. page' = [page EXCEPT ![p] = PageOf(kind, b)]
  BY DEF Ask
<1>2. PagesOK'
  BY <1>1, FreshPage, PageStep DEF Ask, dayVars
<1>3. RatingOK'
  BY <1>1, FreshPage, OutsideStep DEF Ask
<1>4. PayoutsOK'
  BY PayoutsKept DEF Inv, RowsOK, Ask
<1> QED BY <1>2, <1>3, <1>4 DEF Inv

\* So do the queries of the three pages, two of which sweep first.
LEMMA FetchKeeps ==
  ASSUME Inv, NEW p \in Pages, NEW b \in Bookings,
         FetchDashboard(p, b) \/ FetchDetails(p, b) \/ FetchDesk(p, b)
  PROVE  Inv'
<1>1. PICK kind \in Kinds : Ask(p, kind, b)
  BY DEF FetchDashboard, FetchDetails, FetchDesk, Kinds
<1>2. RowsOK'
  <2>1. CASE CompleteStays
    BY <1>1, <2>1, CompleteStaysKeeps DEF Ask, dayVars
  <2>2. CASE UNCHANGED status
    BY <1>1, <2>2 DEF Ask, dayVars, Inv, RowsOK, Earning
  <2> QED BY <2>1, <2>2 DEF FetchDashboard, FetchDetails, FetchDesk
<1> QED BY <1>1, <1>2, AskKeeps

\* A step of a page that is in no transaction after it, and of nothing else.
LEMMA QuietStep ==
  ASSUME Inv, NEW p \in Pages, NEW r \in PageRecord, page' = [page EXCEPT ![p] = r],
         ShownOK(r, today), r.pc \notin {"rate", "store"}, UNCHANGED <<rowVars, payoutVars>>
  PROVE  Inv'
<1>1. RowsOK'
  BY DEF Inv, RowsOK, rowVars, dayVars, Earning
<1>2. PagesOK' /\ RatingOK'
  BY PageStep, OutsideStep DEF rowVars, dayVars
<1>3. PayoutsOK'
  BY PayoutsKept DEF Inv, RowsOK, rowVars, dayVars
<1> QED BY <1>1, <1>2, <1>3 DEF Inv

Shown(r, seen, reviewed, past) ==
  [r EXCEPT !.pc = "shown", !.seen = seen, !.reviewed = reviewed, !.past = past]

\* A page that receives its answer has a sound record.
LEMMA ShownPage ==
  ASSUME NEW r \in PageRecord, NEW seen \in Statuses, NEW reviewed \in BOOLEAN, NEW past \in BOOLEAN
  PROVE  /\ Shown(r, seen, reviewed, past) \in PageRecord
         /\ Shown(r, seen, reviewed, past).pc = "shown"
         /\ Shown(r, seen, reviewed, past).kind = r.kind
         /\ Shown(r, seen, reviewed, past).of = r.of
         /\ Shown(r, seen, reviewed, past).seen = seen
         /\ Shown(r, seen, reviewed, past).past = past
  BY DEF PageRecord, PageStates, Shown

\* A page that shows its answer shows a booking as the rows had it.
LEMMA ReadKeeps ==
  ASSUME Inv, NEW p \in Pages, Read(p)
  PROVE  Inv'
<1> DEFINE b == page[p].of
<1>1. /\ page[p] \in PageRecord /\ page[p].kind \in Kinds
      /\ b \in Bookings /\ status[b] \in Statuses
      /\ status[b] = "COMPLETED" => CheckOut[b] <= today
      /\ CheckOut[b] \in Nat /\ today \in Nat
  BY StaysAssumption DEF Inv, RowsOK, PagesOK, ShownOK, Read, At
<1>2. PICK reviewed \in BOOLEAN : reviewed <=> b \in reviews
  BY (b \in reviews) \/ ~(b \in reviews), TRUE \in BOOLEAN, FALSE \in BOOLEAN
<1>3. PICK past \in BOOLEAN : past <=> IsPast(page[p])
  BY IsPast(page[p]) \/ ~IsPast(page[p]), TRUE \in BOOLEAN, FALSE \in BOOLEAN
<1> DEFINE r == Shown(page[p], status[b], reviewed, past)
<1>4. /\ r \in PageRecord /\ r.pc = "shown" /\ r.kind = page[p].kind /\ r.of = b
      /\ r.seen = status[b] /\ r.past = past
  BY <1>1, ShownPage
<1>5. page' = [page EXCEPT ![p] = r] /\ UNCHANGED <<rowVars, payoutVars>>
  <2>1. (b \in reviews) = reviewed /\ IsPast(page[p]) = past
    BY <1>2, <1>3 DEF IsPast
  <2> QED BY <2>1 DEF Read, Shown
<1> HIDE DEF r
<1>6. ShownOK(r, today)
  BY <1>1, <1>3, <1>4 DEF ShownOK, IsPast
<1> QED BY <1>4, <1>5, <1>6, QuietStep

\* A page that is drawn again looks at its clock.
LEMMA RenderKeeps ==
  ASSUME Inv, NEW p \in Pages, Render(p)
  PROVE  Inv'
<1>1. page[p] \in PageRecord /\ ShownOK(page[p], today) /\ page[p].pc \in {"shown", "modal"}
  BY DEF Inv, PagesOK, Render
<1>2. PICK past \in BOOLEAN : past <=> IsPast(page[p])
  BY IsPast(page[p]) \/ ~IsPast(page[p]), TRUE \in BOOLEAN, FALSE \in BOOLEAN
<1> DEFINE r == [page[p] EXCEPT !.past = past]
<1>3. /\ r \in PageRecord /\ r.pc = page[p].pc /\ r.kind = page[p].kind /\ r.of = page[p].of
      /\ r.seen = page[p].seen /\ r.past = past
  BY <1>1 DEF PageRecord
<1>4. page' = [page EXCEPT ![p] = r] /\ UNCHANGED <<rowVars, payoutVars>>
  <2>1. IsPast(page[p]) = past
    BY <1>2 DEF IsPast
  <2> QED BY <2>1 DEF Render
<1> HIDE DEF r
<1>5. ShownOK(r, today)
  BY <1>1, <1>2, <1>3 DEF ShownOK, IsPast
<1> QED BY <1>1, <1>3, <1>4, <1>5, QuietStep

\* A lost answer keeps the invariant.
LEMMA LoseReadKeeps ==
  ASSUME Inv, NEW p \in Pages, LoseRead(p)
  PROVE  Inv'
  BY ClosedPageOK, QuietStep DEF LoseRead

\* The read of a cancellation keeps the invariant.
LEMMA ClickCancelKeeps ==
  ASSUME Inv, NEW p \in Pages, ClickCancel(p)
  PROVE  Inv'
<1> DEFINE r == [PageOf(page[p].kind, page[p].of) EXCEPT !.pc = "write"]
<1>1. page[p].kind \in Kinds /\ page[p].of \in Bookings
  BY DEF Inv, PagesOK, ShownOK, ClickCancel, At
<1>2. r \in PageRecord /\ r.pc = "write" /\ ShownOK(r, today)
  BY <1>1 DEF PageOf, PageRecord, PageStates, Statuses, ShownOK
<1>3. page' = [page EXCEPT ![p] = r] /\ UNCHANGED <<rowVars, payoutVars>>
  BY DEF ClickCancel
<1> HIDE DEF r
<1> QED BY <1>2, <1>3, QuietStep

\* So does its write.
LEMMA WriteCancelKeeps ==
  ASSUME Inv, NEW p \in Pages, WriteCancel(p)
  PROVE  Inv'
<1>1. RowsOK'
  <2>1. \A b \in Bookings : status'[b] = status[b] \/ status'[b] = "CANCELLED"
    BY DEF Inv, RowsOK, WriteCancel
  <2>2. Earning' \subseteq Earning
    BY <2>1 DEF Earning
  <2> QED BY <2>1, <2>2 DEF Inv, RowsOK, WriteCancel, dayVars, Statuses
<1>2. PagesOK' /\ RatingOK'
  BY ClosedPageOK, PageStep, OutsideStep DEF WriteCancel, dayVars
<1>3. PayoutsOK'
  BY PayoutsKept DEF Inv, RowsOK, WriteCancel
<1> QED BY <1>1, <1>2, <1>3 DEF Inv

\* The review dialog changes no row.
LEMMA GotoKeeps ==
  ASSUME Inv, NEW p \in Pages, OpenReview(p) \/ CloseReview(p) \/ SubmitReview(p)
  PROVE  Inv'
<1>1. PICK pc \in {"shown", "modal", "create"} : page' = [page EXCEPT ![p].pc = pc]
  BY DEF OpenReview, CloseReview, SubmitReview, Goto
<1> DEFINE r == [page[p] EXCEPT !.pc = pc]
<1>2. page[p].pc # "closed" /\ UNCHANGED <<rowVars, payoutVars>>
  BY DEF OpenReview, CloseReview, SubmitReview, At
<1>3. r \in PageRecord /\ r.pc = pc /\ ShownOK(r, today)
  BY <1>2, SamePage
<1>4. page' = [page EXCEPT ![p] = r]
  BY <1>1
<1> HIDE DEF r
<1> QED BY <1>2, <1>3, <1>4, QuietStep

\* The insertion of a review keeps the invariant.
LEMMA CreateReviewKeeps ==
  ASSUME Inv, NEW p \in Pages, CreateReview(p)
  PROVE  Inv'
<1> DEFINE b == page[p].of
           r == [page[p] EXCEPT !.pc = IF b \in reviews THEN "modal" ELSE "rate"]
<1>1. r \in PageRecord /\ ShownOK(r, today) /\ r.pc = IF b \in reviews THEN "modal" ELSE "rate"
  BY SamePage DEF CreateReview, At
<1>2. page' = [page EXCEPT ![p] = r]
  BY DEF CreateReview, Goto
<1>3. RowsOK' /\ PayoutsOK'
  BY PayoutsKept DEF Inv, RowsOK, CreateReview, dayVars, Earning
<1>4. PagesOK'
  <2> HIDE DEF r
  <2> QED BY <1>1, <1>2, PageStep DEF CreateReview, dayVars
<1>5. RatingOK'
  <2>1. CASE b \in reviews
    <3>1. r.pc = "modal" /\ UNCHANGED <<reviews, rated, overlapped>>
      BY <1>1, <2>1 DEF CreateReview, Inv, RatingOK
    <3> HIDE DEF r
    <3> QED BY <1>1, <1>2, <3>1, OutsideStep
  <2>2. CASE b \notin reviews
    <3>1. /\ page'[p].pc = "rate" /\ \A q \in Pages : q # p => page'[q] = page[q]
          /\ overlapped' = (overlapped \/ Open # {}) /\ UNCHANGED <<reviews, rated>>
      BY <1>1, <1>2, <2>2 DEF CreateReview, Inv, PagesOK
    <3>2. Open = {} => Open' \subseteq {p}
      BY <3>1 DEF Open
    <3> QED BY <3>1, <3>2 DEF Inv, RatingOK
  <2> QED BY <2>1, <2>2
<1> QED BY <1>3, <1>4, <1>5 DEF Inv

\* The aggregation counts the reviews it can see.
LEMMA RateKeeps ==
  ASSUME Inv, NEW p \in Pages, Rate(p)
  PROVE  Inv'
<1> DEFINE r == [page[p] EXCEPT !.pc = "store", !.sees = reviews \cup {page[p].of}]
<1>1. page[p] \in PageRecord /\ ShownOK(page[p], today) /\ page[p].pc = "rate"
      /\ page[p].of \in Bookings
  BY DEF Inv, PagesOK, ShownOK, Rate, At
<1>2. /\ r \in PageRecord /\ r.pc = "store" /\ r.of = page[p].of
      /\ r.sees = reviews \cup {page[p].of}
  BY <1>1 DEF PageRecord, PageStates, Inv, RatingOK
<1>3. ShownOK(r, today)
  BY <1>1, <1>2 DEF ShownOK
<1>4. page' = [page EXCEPT ![p] = r]
  BY DEF Rate
<1>5. RowsOK' /\ PayoutsOK'
  BY PayoutsKept DEF Inv, RowsOK, Rate, Earning, rowVars, dayVars
<1> HIDE DEF r
<1>6. PagesOK'
  BY <1>2, <1>3, <1>4, PageStep DEF Rate, rowVars, dayVars
<1>7. RatingOK'
  <2>1. page'[p] = r /\ \A q \in Pages : q # p => page'[q] = page[q]
    BY <1>4 DEF Inv, PagesOK
  <2>2. Open' = Open
    BY <1>1, <1>2, <2>1 DEF Open
  <2> QED BY <1>2, <2>1, <2>2 DEF Inv, RatingOK, Rate, rowVars, dayVars
<1> QED BY <1>5, <1>6, <1>7 DEF Inv

\* The update stores the rating of what was counted.
LEMMA StoreRatingKeeps ==
  ASSUME Inv, NEW p \in Pages, StoreRating(p)
  PROVE  Inv'
<1> DEFINE b == page[p].of
<1>1. /\ page[p] \in PageRecord /\ ShownOK(page[p], today) /\ page[p].pc = "store"
      /\ b \in Bookings
  BY DEF Inv, PagesOK, ShownOK, StoreRating, At
<1>2. RowsOK' /\ PayoutsOK'
  BY PayoutsKept DEF Inv, RowsOK, StoreRating, dayVars, Earning
<1>3. CASE /\ rated' = page[p].sees /\ reviews' = reviews \cup {b}
           /\ page' = [page EXCEPT ![p] = ClosedPage]
  <2>1. PagesOK'
    BY <1>3, ClosedPageOK, PageStep DEF StoreRating, dayVars
  <2>2. page'[p].pc = "closed" /\ \A q \in Pages : q # p => page'[q] = page[q]
    BY <1>3, ClosedPageOK DEF Inv, PagesOK
  <2>3. Open' = Open \ {p} /\ p \in Open
    BY <1>1, <2>2 DEF Open
  <2>4. reviews' \subseteq Bookings /\ rated' \subseteq reviews' /\ UNCHANGED overlapped
    BY <1>1, <1>3 DEF Inv, RatingOK, StoreRating
  <2>5. \A q \in Pages : page'[q].pc = "store" =>
          page'[q].sees \subseteq reviews' \cup {page'[q].of}
    BY <1>3, <2>2 DEF Inv, RatingOK
  <2>6. ~overlapped =>
          /\ rated' = reviews'
          /\ \A q \in Pages : page'[q].pc # "store"
          /\ Open' = {}
    BY <1>1, <1>3, <2>2, <2>3 DEF Inv, RatingOK, Open
  <2>7. RatingOK'
    BY <2>4, <2>5, <2>6 DEF Inv, RatingOK
  <2> QED BY <1>2, <2>1, <2>7 DEF Inv
<1>4. CASE page' = [page EXCEPT ![p].pc = "modal", ![p].sees = {}] /\ UNCHANGED <<reviews, rated>>
  <2> DEFINE r == [page[p] EXCEPT !.pc = "modal", !.sees = {}]
  <2>1. r \in PageRecord /\ r.pc = "modal" /\ ShownOK(r, today)
    BY <1>1 DEF PageRecord, PageStates, ShownOK
  <2>2. page' = [page EXCEPT ![p] = r]
    BY <1>4
  <2> HIDE DEF r
  <2>3. PagesOK' /\ RatingOK'
    BY <1>4, <2>1, <2>2, PageStep, OutsideStep DEF StoreRating, dayVars
  <2> QED BY <1>2, <2>3 DEF Inv
<1> QED BY <1>3, <1>4 DEF StoreRating

------------------------------------------------------------------------------
(***************************************************************************)
(* Payouts.                                                                *)
(***************************************************************************)
PromisedTo(r) == {r} \X (1 .. payout[r].available)

\* A request has as many pairs as the balance it read.
LEMMA PromisedToOne ==
  ASSUME Inv, NEW r \in Requesters
  PROVE  /\ IsFiniteSet(PromisedTo(r)) /\ Cardinality(PromisedTo(r)) = payout[r].available
         /\ PromisedTo(r) \subseteq Promised
<1>1. payout[r].available \in Nat
  BY DEF Inv, PayoutsOK
<1>2. /\ IsFiniteSet(1 .. payout[r].available)
      /\ Cardinality(1 .. payout[r].available) = payout[r].available
  BY <1>1, UpTo
<1>3. IsFiniteSet({r}) /\ Cardinality({r}) = 1
  BY FS_Singleton
<1>4. /\ IsFiniteSet(PromisedTo(r))
      /\ Cardinality(PromisedTo(r)) = 1 * payout[r].available
  <2>1. /\ IsFiniteSet({r} \X (1 .. payout[r].available))
        /\ Cardinality({r} \X (1 .. payout[r].available))
             = Cardinality({r}) * Cardinality(1 .. payout[r].available)
    BY <1>2, <1>3, FS_Product
  <2> QED BY <1>2, <1>3, <2>1 DEF PromisedTo
<1>5. PromisedTo(r) \subseteq Promised
  BY <1>1 DEF PromisedTo, Promised
<1> QED BY <1>1, <1>4, <1>5

\* A request that asks for nothing leaves the others.
LEMMA PromisedToOthers ==
  ASSUME Inv, NEW r \in Requesters, payout[r].available = 0
  PROVE  Cardinality(Promised) <= (Cardinality(Requesters) - 1) * Cardinality(sold)
<1> DEFINE Others == Requesters \ {r}
           P == Cardinality(sold)
<1>1. P \in Nat
  BY SoldIsFinite DEF Inv
<1>2. IsFiniteSet(Others) /\ Cardinality(Others) = Cardinality(Requesters) - 1
  BY FS_RemoveElement, StaysAssumption
<1>3. IsFiniteSet(1 .. P) /\ Cardinality(1 .. P) = P
  BY <1>1, UpTo
<1>4. /\ IsFiniteSet(Others \X (1 .. P))
      /\ Cardinality(Others \X (1 .. P)) = (Cardinality(Requesters) - 1) * P
  <2>1. /\ IsFiniteSet(Others \X (1 .. P))
        /\ Cardinality(Others \X (1 .. P)) = Cardinality(Others) * Cardinality(1 .. P)
    BY <1>2, <1>3, FS_Product
  <2> QED BY <1>2, <1>3, <2>1
<1>5. Promised \subseteq Others \X (1 .. P)
  <2>1. ASSUME NEW q \in Requesters, NEW i \in Nat, 1 <= i, i <= payout[q].available
        PROVE  q \in Others /\ i \in 1 .. P
    BY <1>1, <2>1 DEF Inv, PayoutsOK
  <2> QED BY <2>1 DEF Promised
<1> QED BY <1>4, <1>5, FS_Subset

\* No more bookings earn than were sold.
LEMMA EarnedIsSold ==
  ASSUME Inv
  PROVE  Earned \in Nat /\ Earned <= Cardinality(sold)
  BY SoldIsFinite, FS_Subset, FS_CardinalityType DEF Inv, RowsOK, Earned

\* The rest of the state stays.
LEMMA PayoutStep ==
  ASSUME Inv, UNCHANGED <<rowVars, page>>
  PROVE  RowsOK' /\ PagesOK' /\ RatingOK'
<1>1. RowsOK'
  BY DEF Inv, RowsOK, rowVars, dayVars, Earning
<1>2. today <= today'
  BY StaysAssumption DEF Inv, RowsOK, rowVars, dayVars
<1> QED BY <1>1, <1>2, PagesKept, RatingKept DEF rowVars, dayVars

\* A balance read at any time keeps the payouts within their bound.
LEMMA ReadBalanceKeeps ==
  ASSUME Inv, NEW r \in Requesters, ReadBalance(r)
  PROVE  Inv'
<1> DEFINE P == Cardinality(sold)
           N == Cardinality(Requesters)
           amount == Earned - requested
           given == [pc |-> "insert", available |-> amount]
<1>1. P \in Nat /\ N \in Nat /\ requested \in Nat /\ Earned \in Nat /\ Earned <= P
      /\ requested < Earned
  BY SoldIsFinite, EarnedIsSold DEF Inv, PayoutsOK, ReadBalance
<1>2. amount \in Nat /\ amount <= P
  BY <1>1
<1>3. /\ payout[r].available = 0 /\ payout' = [payout EXCEPT ![r] = given]
      /\ requested' = requested /\ sold' = sold
  BY DEF ReadBalance, NoPayout, rowVars, dayVars
<1>4. /\ payout' \in [Requesters -> [pc : {"idle", "insert"}, available : Nat]]
      /\ payout'[r] = given /\ \A q \in Requesters : q # r => payout'[q] = payout[q]
  BY <1>2, <1>3 DEF Inv, PayoutsOK
<1>5. IsFiniteSet(1 .. amount) /\ Cardinality(1 .. amount) = amount
  BY <1>2, UpTo
<1>6. /\ IsFiniteSet({r} \X (1 .. amount))
      /\ Cardinality({r} \X (1 .. amount)) = 1 * amount
  <2>1. IsFiniteSet({r}) /\ Cardinality({r}) = 1
    BY FS_Singleton
  <2>2. /\ IsFiniteSet({r} \X (1 .. amount))
        /\ Cardinality({r} \X (1 .. amount)) = Cardinality({r}) * Cardinality(1 .. amount)
    BY <1>5, <2>1, FS_Product
  <2> QED BY <1>5, <2>1, <2>2
<1>7. Promised' = Promised \cup ({r} \X (1 .. amount))
  BY <1>2, <1>3, <1>4 DEF Promised
<1>8. IsFiniteSet(Promised) /\ Cardinality(Promised) \in Nat
  BY SoldIsFinite, PromisedIsFinite, FS_CardinalityType DEF Inv
<1>9. Cardinality(Promised') <= Cardinality(Promised) + amount
  <2>1. Cardinality(Promised \cap ({r} \X (1 .. amount))) \in Nat
    BY <1>8, FS_Intersection, FS_CardinalityType
  <2>2. Cardinality(Promised') =
          Cardinality(Promised) + 1 * amount - Cardinality(Promised \cap ({r} \X (1 .. amount)))
    BY <1>6, <1>7, <1>8, FS_Union
  <2> QED BY <1>2, <1>8, <2>1, <2>2
<1>10. Cardinality(Promised') \in Nat
  BY <1>6, <1>7, <1>8, FS_Union, FS_CardinalityType
<1>11. Cardinality(Promised) <= (N - 1) * P
  BY <1>3, PromisedToOthers
<1>12. requested + Cardinality(Promised') <= N * P
  <2>1. requested + amount <= P
    BY <1>1
  <2>2. P + (N - 1) * P = N * P
    BY <1>1
  <2>3. (N - 1) * P \in Int /\ N * P \in Int
    BY <1>1
  <2> HIDE DEF amount, P, N
  <2> QED BY <1>1, <1>2, <1>8, <1>9, <1>10, <1>11, <2>1, <2>2, <2>3
<1>13. PayoutsOK'
  <2>1. \A q \in Requesters : /\ payout'[q].available <= P
                              /\ payout'[q].pc = "idle" => payout'[q].available = 0
    BY <1>2, <1>4 DEF Inv, PayoutsOK
  <2> QED BY <1>1, <1>3, <1>4, <1>12, <2>1 DEF PayoutsOK
<1> QED BY <1>13, PayoutStep DEF Inv, ReadBalance

\* So does the insertion of a payout within the balance read.
LEMMA InsertPayoutKeeps ==
  ASSUME Inv, NEW r \in Requesters, InsertPayout(r)
  PROVE  Inv'
<1> DEFINE available == payout[r].available
<1>1. /\ available \in Nat /\ requested \in Nat /\ payout' = [payout EXCEPT ![r] = NoPayout]
      /\ sold' = sold
  BY DEF Inv, PayoutsOK, InsertPayout, rowVars, dayVars
<1>2. requested' \in Nat /\ requested' <= requested + available
  BY <1>1 DEF InsertPayout
<1>3. /\ payout' \in [Requesters -> [pc : {"idle", "insert"}, available : Nat]]
      /\ payout'[r] = NoPayout /\ \A q \in Requesters : q # r => payout'[q] = payout[q]
  BY <1>1 DEF Inv, PayoutsOK, NoPayout
<1>4. Promised' = Promised \ PromisedTo(r)
  BY <1>1, <1>3 DEF Promised, PromisedTo, NoPayout
<1>5. IsFiniteSet(Promised) /\ Cardinality(Promised) \in Nat
  BY SoldIsFinite, PromisedIsFinite, FS_CardinalityType DEF Inv
<1>6. Cardinality(Promised') = Cardinality(Promised) - available
  <2>1. Promised \cap PromisedTo(r) = PromisedTo(r)
    BY PromisedToOne
  <2>2. Cardinality(Promised \ PromisedTo(r)) =
          Cardinality(Promised) - Cardinality(Promised \cap PromisedTo(r))
    BY <1>5, FS_Difference
  <2> QED BY <1>4, <2>1, <2>2, PromisedToOne
<1>7. requested' + Cardinality(Promised') <= Cardinality(Requesters) * Cardinality(sold)
  <2>1. Cardinality(Requesters) * Cardinality(sold) \in Int
    BY SoldIsFinite DEF Inv
  <2> HIDE DEF available
  <2> QED BY <1>1, <1>2, <1>5, <1>6, <2>1 DEF Inv, PayoutsOK
<1>8. PayoutsOK'
  <2>1. Cardinality(sold) \in Nat
    BY SoldIsFinite DEF Inv
  <2> QED BY <1>1, <1>2, <1>3, <1>7, <2>1 DEF Inv, PayoutsOK, NoPayout
<1> QED BY <1>8, PayoutStep DEF Inv, InsertPayout

------------------------------------------------------------------------------
\* Every step keeps the invariant.
LEMMA NextKeeps ==
  ASSUME Inv, [Next]_vars
  PROVE  Inv'
<1>1. CASE UNCHANGED vars
  <2>1. PayoutsOK'
    BY <1>1, PayoutsKept DEF vars, rowVars, dayVars, Inv, RowsOK
  <2> QED BY <1>1, <2>1, PayoutStep DEF vars, Inv
<1>2. CASE NextDay \/ Midnight \/ \E b \in Bookings : HoldEnds(b) \/ Confirm(b)
  BY <1>2, DayKeeps, HoldKeeps
<1>3. CASE \E p \in Pages :
             \/ \E b \in Bookings : FetchDashboard(p, b) \/ FetchDetails(p, b) \/ FetchDesk(p, b)
             \/ Read(p) \/ Render(p) \/ LoseRead(p) \/ Cancel(p)
  BY <1>3, FetchKeeps, ReadKeeps, RenderKeeps, LoseReadKeeps, ClickCancelKeeps,
     WriteCancelKeeps DEF Cancel
<1>4. CASE \E p \in Pages : Review(p)
  BY <1>4, GotoKeeps, CreateReviewKeeps, RateKeeps, StoreRatingKeeps DEF Review
<1>5. CASE \E r \in Requesters : ReadBalance(r) \/ InsertPayout(r)
  BY <1>5, ReadBalanceKeeps, InsertPayoutKeeps
<1> QED BY <1>1, <1>2, <1>3, <1>4, <1>5 DEF Next

\* The inductive invariant of stays: rows, what pages show of them, the rating and the
\* payouts (GuestDashboardPage, reviews.service.ts, payouts.service.ts).
THEOREM Invariance == Spec => []Inv
  BY InitInv, NextKeeps, PTL DEF Spec

\* What earns was sold, and what is completed is over (booking.service.ts:240-262).
THEOREM TypeCorrect == Spec => []StaysTypeOK
  BY Invariance, TypesImplied, PTL

\* The rating of a property is that of all its reviews while submissions do not overlap
\* (reviews.service.ts:52-66).
THEOREM RatingsCurrent == Spec => []RatingIsCurrent
  BY Invariance, RatingImplied, PTL

\* However payout requests overlap, each of those that may be open promises the balance at
\* most once (payouts.service.ts:51-53).
THEOREM PayoutsBounded == Spec => []PayoutsAreBounded
  BY Invariance, PayoutsImplied, PTL

\* The tests of the pages and those of the handlers agree on every booking that has not
\* changed since it was read, but for reviews on the day of the check-out before the
\* server's midnight (GuestDashboardPage.tsx:65-70, reviews.service.ts:27-34).
THEOREM RefusalsExplained == Spec => []RefusedMeansChanged
  BY Invariance, RefusedImplied, PTL

==============================================================================
