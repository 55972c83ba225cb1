# HoyHel booking platform: TLA+ models, checks and proofs

HoyHel is a property rental platform: an Express backend over PostgreSQL
(through Prisma), a background worker, a Socket.IO server and a React client.
This directory specifies the parts of it that keep state under concurrency -
bookings and payments, listings, accounts and sessions, conversations, what
follows a stay, and the pages that drive them - checks them with TLC and proves
their safety properties with TLAPS.

Source paths below are relative to the repository.

## 1. The system

| Component | State it keeps | Operations | What makes it correct |
|---|---|---|---|
| Booking service (`backend/src/modules/bookings/booking.service.ts`) | Booking rows, the row lock on Property during a transaction | create a hold, cancel, sweep abandoned holds, complete stays | no two live holds share a night; a hold lasts its time; a request is always answered |
| Pricing service (`bookings/pricing.service.ts`) | none; reads availability and promotion codes | price breakdown | totals add up, limits of promotion codes hold |
| Payment service (`backend/src/modules/payments`) | Payment row of a booking, idempotency keys | pay by card or M-Pesa, provider webhook | nothing but a charge or an event confirms, a card is charged once, payment and booking agree, who paid in time keeps the booking |
| Availability service (`backend/src/modules/availability`) | Availability rows by date | block, open and price dates | a booked night is not blocked, a blocked night is not booked |
| Admin: bookings (`backend/src/modules/admin/admin.service.ts:210`) | Booking, Payment, Refund rows | cancel with refund | one refund for one payment, refunded means released |
| Worker: booking expiry (`worker/src/processors/bookingExpiry.processor.ts`) | Booking rows | cancel unconfirmed bookings every five minutes | unpaid holds end |
| Properties, host and admin (`backend/src/modules/properties`, `admin.service.ts:852-1257`) | Property status, history, images, amenities | submit, approve, reject, unpublish, republish, remove, archive, delete, images | nothing is published without approval and image; history matches status |
| Authentication (`backend/src/modules/auth`, `frontend/src/api/client.ts`, `store/authStore.ts`) | refresh tokens, one-time tokens; the browser's cookie and stored token | sign-in, rotation, sign-out, refresh by the interceptor | revoked stays revoked; every call ends; who is barred loses access |
| Users and moderation (`backend/src/modules/users`, `admin.service.ts:416-850`) | account flags, roles, host applications | restrict, lift, change role, delete, apply, review | an active administrator remains |
| Messaging and sockets (`backend/src/modules/messaging`, `backend/src/websocket/socket.ts`, `frontend/src/pages/MessagesPage.tsx`) | conversations, messages, read marks, rooms | send, fetch, mark as read, join, deliver | each message shown once; what is marked read was returned |
| Notifications (`backend/src/modules/notifications`) | one row each | create, read | a sender who has the answer has notified the recipient |
| Reviews, payouts (`backend/src/modules/reviews`, `payouts`) | review rows and the property's statistics; payout rows | review a stay, request a payout | statistics match rows, payouts stay within earnings |
| Checkout (`frontend/src/pages/CheckoutPage.tsx`) | step, hold, countdown, price shown | hold, pay, confirm | the confirmation is true; a retry is the same payment |
| Booking and listing pages (`frontend/src/pages`) | what an answer of the server said | offer and send requests | a request is refused only when the page was stale |
| Favorites, reports, amenities | one table each | a toggle, an insert, a lookup | - |

Interaction is almost entirely through rows of one database. A handler reads
rows, decides, and writes; few handlers do so in one transaction and only
`createBooking` takes a lock (`SELECT ... FOR UPDATE` on the property). The
transactions run at PostgreSQL's default level, READ COMMITTED, in spite of the
comment at `booking.service.ts:75`. What is hard is therefore
- statements of different requests that interleave, with decisions made on
  reads that are stale when the write comes;
- outcomes that live outside the transaction: charges, events, notices;
- several clocks' worth of deadlines: `expiresAt`, `createdAt` plus 15 minutes,
  the worker's timer, midnight in UTC and midnight of the server, the browser's
  clock, the lives of two kinds of token;
- routes that accept more than the pages send: any event, any column of a
  listing, an image of another listing;
- a server or connection that dies between two statements;
- pages that act on answers which were late, lost, or overtaken by another.

`PROJECT.json` lists every such place under "hazards", with the property that
covers it or the reason none does.

## 2. Modules

| Module | Models | Variables |
|---|---|---|
| `BookingTables` | the rows, clocks, lock and provider shared by the booking services; time; the host's edits of the property | `now today property calendar bookings payments refunds lock charges events posted` |
| `BookingService` | `booking.service.ts` | `creates`, `cancels`: one record per request, `pc` being the last statement it performed |
| `PaymentService` | `payments.service.ts` | `pays` |
| `AvailabilityService` | `availability.service.ts` | `dateEdits` |
| `AdminBookings` | `cancelBookingByAdmin` and the expiry worker | `adminCancels` |
| `BookingSystem` | their composition, fairness, and the properties that hold | |
| `HoldLedger` | the abstract specification of holds | `recorded claims` |
| `SalesLedger` | the abstract specification of sales | `taken receipts claimed sold refunds` |
| `BookingClaims` | what the repository says of bookings and the code does not do | |
| `BookingInvariants` | the inductive invariant of holds | |
| `Checkout` | `CheckoutPage.tsx` in front of `BookingSystem` | `page quotes asked ordered fault` |
| `PropertyLifecycle` | one listing: the requests of host and administrators about its status, its history and its deletion | `listing newest images booking deciders` |
| `PropertyImages` | its image rows: upload, choice of a cover, deletion | `editors failed overlapped strayed` |
| `PropertySystem` | the composition of the two and its properties | |
| `ListingPages` | `AddPropertyPage`, `HostPropertiesPage` and `AdminPropertiesPage` in front of `PropertyLifecycle` | `pages approved wizard` |
| `Sessions` | `auth.service.ts`, `client.ts`, `authStore.ts`: one account and its browsers | `account tokens browser call` |
| `SessionSystem` | `Sessions` with what ends sessions from outside, the clock and fairness | |
| `Accounts` | `admin.service.ts:416-850`, `user.service.ts`: the user rows | `users staff applicants request` |
| `Conversations` | `messaging.service.ts`, `socket.ts`, `MessagesPage.tsx` | `row notices room commands inbox page sending fetching reading told` |
| `Stays` | what becomes of bookings: `ReservationDetailsPage`, `GuestDashboardPage`, `AdminBookingsPage`, `reviews.service.ts`, `payouts.service.ts` | `today midnight status sold reviews rated overlapped page requested payout` |
| `*Proofs` | theorems (section 5) | |
| `MC*` and the `.cfg` files | finite instances | |

The specifications compose in two places: `Checkout` runs the booking core
(`BookingSystem`) behind a page, and `ListingPages` runs `PropertyLifecycle`
behind pages, both by the operators of the module below. The others meet only in
a few columns, which each models from its own side: `BookingTables` has the
property's status as `property`, changed freely by the host, and
`PropertyLifecycle` one creation of a booking as `booking`; `SessionSystem` has
`Restrict` and `Lift`, which are what the requests of `Accounts` do to one row;
`Stays` has a hold sold or ended in one step where `BookingSystem` has many.

### The life of a booking

A booking is identified with the request that creates it, so `Booking` is the
set of creation requests and a row that is not there yet has status `"ABSENT"`.

**createBooking** is a process of one database statement per step:

    new -Sweep-> swept -Price-> priced -OpenTransaction-> opened -LockProperty-> locked
        -CheckBlockedDates-> unblocked -CheckOverlap-> clear -InsertHold-> inserted -CommitHold-> done

`RefuseHold` is every check that throws, `AbortHold` the transaction's 15 s
timeout, a lost connection or a dead server. A row inserted by an open
transaction is invisible (READ COMMITTED), hence `CommitHold` is the step that
puts it into `bookings`. `expiresAt` is fixed in
`Price`, before the transaction, `createdAt` in `InsertHold`. The account, host
and capacity checks, and the price itself, depend on data left out; `RefuseHold`
may therefore refuse any request that has not yet taken the lock.

**cancelBooking** and **cancelBookingByAdmin** are a read followed by an
unconditional write, as in the code. **processBookingPayment** is a read, the
write of a lapsed hold, the key lookup, then the push (M-Pesa) or the charge and
the settling transaction (card); it keeps the snapshot of its read in `pays`.
`FailPayment` is a provider error, a unique-key collision or a crash.
**processWebhook** updates the payment row if there is one and confirms the booking
whatever it is (`ProcessWebhook`). Its route asks for no proof of the sender
(`payments.routes.ts:15`), so it is reached in two ways: `Webhook` is an event of
the provider, delivered any number of times and at any time after the charge, and
`PostEvent` is any other event of that type, about a booking that was never charged,
has lapsed or was cancelled. `posted` remembers the bookings such events named, so
that properties can tell the two apart; no handler reads it. `Postable` bounds the
bookings they name in an instance.

**Time.** `now` counts ticks and `today` days; a hold lasts `HoldTime` ticks, a
day `DayLength` ticks, and a hold is shorter than a day (15 minutes against 24
hours), which is assumed by name (`TimeAssumption`). Comparisons are as strict
as in the code: a row blocks while `expiresAt > now` and is past its hold when
`expiresAt < now`.

**The calendar.** A date has no row, an open row or a blocked row. Inserting a
row takes PostgreSQL's key-share lock on the property and so waits for a booking
transaction; updating one does not. Both cases are in `WriteDate`.

**The provider** is outside the repository (its driver is a mock). It is modelled
from how the service uses it: a charge succeeds or throws, and later an event
`payment_intent.succeeded` names the booking. The driver's type also allows a
declared FAILED or PENDING (`payments.provider.ts:4`), which the service would take
for a success since it never tests the result (`payments.service.ts:87-117`); the
only card driver there is answers SUCCESS whenever it answers (`:15-26`), so a charge
in the model is an intent that driver accepted. An M-Pesa push moves no money by
itself: the guest pays, or not, on the phone, and no handler in the repository ever
learns of it. `charges` therefore counts card intents only.

**The abstract specification** `HoldLedger` knows no requests, locks or
statements: a claim on nights is granted in one step and only where no claim
stands, it may lapse at any time, and a booking gets at most one in its life.
The refinement maps a claim to a row that is standing: its hold runs, no
cancellation was recorded in it and its stay is not over.

`SalesLedger` knows no requests, events or transactions either: a charge leaves a
receipt, a booking is sold against a receipt or on the mere claim that it was paid,
and the claim stays on record; a refund ends the sale it is for. A receipt may be
presented again, as the provider repeats its events, so a refunded booking may be
sold once more, but not without a receipt or a claim. The refinement takes the
provider's charges for what was taken, the events under way and the card payments
past their charge for the receipts, the posted events for the claims, and CONFIRMED
or COMPLETED rows for what is sold. What it leaves to be wrong is everything but the
open route: with `Postable` empty there are no claims, and every sale has its receipt.

**The checkout page** (`Checkout`) is a step (choose, guests and payment,
confirmed), the stay it shows, the price it last received, the creation request it
waits for, the hold it has and the payment it waits for. Answers are received by
actions of their own (`ReceiveQuote`, `ReceiveHold`, `ReceivePayment`,
`LosePayment`), so they may come after the guest went back, after the countdown or
after another hold. The countdown is the browser's, in whole seconds and by a
clock of its own, so `Countdown` may end it early or late. `Reopen` is the guest
who returns from a notice or a reservation. A request reaches the server some time
after it was sent (`ArriveHold`, `ArrivePayment`) and is from then on a request of
the core (`ServerStep`). `fault` remembers that an answer was lost or that a
request failed after its charge.

### The life of a listing

**Decisions.** Every request about the status is a read with tests (`Ask`) and a
later write without any (`Decide`), as in the code: an update of the row and an
insert into its history in one transaction, which throws if the row is gone.
Between the two a decider holds the request's name and the status it will write.
The reasons of a rejection and of a removal request are columns of the row, and
only whether they are filled is kept. `newest` is the newest entry of the history.
`UpdateProperty` is the plain update of host or administrator, which writes every
column its body has - a status, reasons filled or emptied - tests only a status
PUBLISHED, and records nothing in the history; `EditStatuses` bounds the statuses
it writes in an instance and may be all of them. `edited` says that such an update
was the last to write the row. `HardDeleteProperty` reads the count of bookings
before its transaction and cascades to images, history and bookings.

**Images.** The upload, the choice of a cover and the deletion of an image are
processes of one statement per step:

    BeginUpload -StoreImage (per file)-> stored -SearchCover-> promote -PromoteImage-> idle
    BeginCover -SetCover-> idle
    BeginDelete -DeleteImage-> deleted -SearchNext-> promote -PromoteImage-> idle
    BeginStrayDelete -DeleteImage-> idle, or deleted -SearchNext-> ...

An image row is never reused, so `images` maps identities to `"unborn"`,
`"plain"`, `"cover"` or `"deleted"`. `FailEdit` is a fault between any two
statements: what was stored stays, and `failed` remembers it. Requests of several
tabs interleave; `overlapped` remembers that one began (`Begin`) while another
was under way, which is when the count and the search for a cover, both outside
any transaction, can be wrong. `deletePropertyImage` never compares the image's
listing with the one in the path (`properties.service.ts:686-709`; `setCoverImage`
does): `BeginStrayDelete` is a deletion whose path and image belong to two listings
of one host, seen from either, and `strayed` remembers it until a cover is chosen.

**The pages** (`ListingPages`) have the queries under way (`asked`), their
answers on the way back (`answers`, as the status the query saw) and the status
shown. `Offered` is the buttons each status gets, `Click` sends, `Serve` and
`Complete` are the two halves of the handler, `Refuse` its tests that throw.
Whichever answer arrives last stands, as in the pages, which number no query.

### Accounts and sessions

**Sessions.** Access tokens are checked by signature alone, refresh tokens against
a row. A refresh token is the JWT of the second it was signed in, so `tokens` maps
ages, in seconds, to `"none"`, `"live"` or `"revoked"`, and `Tick` shifts
everything by one. A rotation is `ReadRefresh`, `RevokeUsed`, `Sign`, `Mint`; a
sign-in `CheckLogin`, `Sign`, `Store`; the unique column refuses a string that is
there. `Sign` is a step of its own since both handlers wait between their tests of
the account and the signing, a sign-in for bcrypt and `lastLoginAt`
(`auth.service.ts:88-117`), a rotation for the revocation: the account may be
barred in between, and the token is signed all the same. `Passed` are the calls
there. `Authenticate` answers a page's call; a 401 starts the refresh once per
call (`Refused`, `client.ts:28`), and `Renew` or `GiveUp` ends it. `Lose` is a
request or an answer that is lost. `SessionSystem` adds `RevokeTokens` (a changed
or reset password), `Restrict`, `Lift` and `Tick`.

**Accounts.** The requests that could remove an administrator read the row
(`Begin`), count administrators (`Count`) and write (`Write`), in three
statements. What each counts differs and is kept (`Counted`). `calm` says that
no row changed since the read. `isBlocked` and `isBanned`, which no test reads
apart, are one restriction. `staff` are the holders of an access token that says
ADMIN, which outlives the role.

### Conversations

A message is stored (`StoreMessage`), emitted to the room by the service
(`EmitMessage`), notified (`CreateNotification`), and, when it came over the
socket, emitted again by the handler (`EmitAgain`, `socket.ts:63`); the sender's
page also adds it from the answer (`ReceiveSent`). Events and commands of one
socket stay in order; requests over HTTP overtake them. `GetConversationMessages`
is the update that marks and the query that returns, in this order.

### After the stay

In `Stays` a booking is its status, whether it was ever sold and the day it ends.
There are two clocks. A check-out is stored as a midnight in UTC, and the
dashboard compares it with the moment: `today` is the date in UTC. The sweep and
the reviews compare it with the server's last midnight, `setHours(0, 0, 0, 0)`:
`midnight` is the date it was in UTC at that moment, which is today's or still
yesterday's, depending on the server's zone and the hour (`NextDay`, `Midnight`);
on a server in UTC the two never differ. A page evaluates its comparison when the
answer comes (`Read`) and whenever it is drawn (`Render`). The sweep that
completes stays (`CompleteStays`) runs at the start of some queries and not of
others, as in the code. A page shows what an answer said (`seen`, `reviewed`,
`past`), offers by it (`OffersCancel`, `OffersReview`, one definition per page),
and is refused by the row (`Refused`). A review is an insertion, an aggregate and
an update in one transaction at READ COMMITTED, so `Rate` counts the reviews
committed and its own. A payout request reads earnings and payouts (`ReadBalance`;
two queries in the code) and inserts (`InsertPayout`).

## 3. Runs

Deadlock checking is off everywhere because the systems really do stop: an
instance has finitely many requests and a bounded clock, and a deleted listing
takes no further request.

| Run (`.cfg`) | Instance | Shows |
|---|---|---|
| `holds` (`MCHolds`) | 2 creations for overlapping stays, a card payment with its events, a date edit, under fairness | `TypeOK`, `NoDoubleHold`, `NewRowsWait`; every creation request is answered (`EveryCreateAnswered`); a charged hold becomes a confirmed booking (`ChargedHoldIsConfirmed`) |
| `ledger` (`MCLedger`) | 2 bookings, 1 card payment, events, guest's and administrator's cancellation, a midnight, a host who unpublishes and republishes | `ImplementsLedger`, `NoEarlyExpiry` |
| `payments` (`MCPayments`) | 1 booking, 2 payments by either method sharing a key or not, the provider's events and posted ones, both cancellations, clock to 4 | `ImplementsSales`, `ConfirmedWasCharged`, `ConfirmedInTimeStays`, `RefundedIsReleased`, and `HoldInv` of the proofs |
| `checkout` (`MCCheckout`) | 1 stay, 2 holds placed by a page that may be reopened, 2 attempts to pay | `CheckoutTypeOK`, `ConfirmationWasCharged`, `ChargedOnceWithoutFaults` |
| `listing` (`MCListings`) | 2 deciders, plain updates that write PUBLISHED or REJECTED and any reasons, 2 editors of images with stray deletions, at most 2 requests under way in all, uploads of up to 2 files, an image limit of 2, three image rows, one booking | `ListingTypeOK`, `DecisionsAreExplained`, `HistoryTellsStatus`, `DeletionIsComplete`, `ImageLimit`, `OneCover` |
| `desk` (`MCListingPages`) | the host's page and one administrator's, two queries of each under way, one image | `PagesTypeOK`, `PublishedWasApproved`, `RefusedMeansStale` |
| `sessions` (`MCSessions`) | 1 browser with a form and a fetching page, access tokens of one age, refresh tokens of two | `SessionsTypeOK`, `RevokedStaysRevoked`, `CallsShrink`, `BarredAgesOut`, `CallsEnd`, `RestrictionEndsAccess` |
| `accounts` (`MCAccounts`) | 2 users, both founders, 1 guarded request at a time among all unguarded ones | `AccountsTypeOK`, `GuardsLeaveAnAdministrator` |
| `messages` (`MCConversations`) | a guest with a page, a host who sends from elsewhere, 2 conversations, 2 messages, 1 fetch at a time | `ConversationsTypeOK`, `ShownOnce`, `MarkedIsReturned`, `AnsweredIsNotified` |
| `stays` (`MCStays`) | 2 bookings that end on day 1 of 0..2, a server in any zone, 2 pages of any of three kinds, 2 payout requests | `StaysTypeOK`, `RatingIsCurrent`, `PayoutsAreBounded`, `RefusedMeansChanged` |
| `claim_NoDoubleBooking`, `claim_HostSeesListing` | small instances with a counterexample | one property each, violated (section 4) |

**Bounds.** In the booking runs `HoldTime` of 1 or 2 gives a hold a state before,
at and after its deadline; `MaxTime` (2 to 4) is past the deadline of a hold made
at the start in every run, and past a midnight (`DayLength` 2 or 3). Two
bookings are enough for every conflict, since all conflicts are between pairs;
two requests of a kind suffice for a race between them. The set of keys has one
key besides "none given", so requests share a key, differ or have none. Posted events
are in the `payments` run (`Postable`), where they can name the one booking at any
moment; the other runs leave them out for their size, and the safety properties of
those runs are proved with them. A
listing needs two deciders for a decision on a stale read, and three image rows
under a limit of two so that an image can be replaced at the limit. The state
constraint `TwoRequests` lets two requests be under way at a time, a decision and
an image request, two decisions, or two image requests, and follows a listing whose
image requests overlapped, strayed or failed no further than to its deletion. Of the statuses
of plain updates one is tested and one needs a reason. Three rows are too few for
overlapping uploads to reach the bound of `ImageLimit`; that part of it rests on
the theorem. Two queries
of a page can arrive in the wrong order. Two ages of refresh tokens give one
signed now and one signed earlier, of which one is at its last; access tokens of one
age run out before their refresh token does. Two users are the smallest table
whose last administrator can be removed in two steps. Two messages in two
conversations overtake one another within one and across both; `MaxCommands` = 1
is the number of socket commands under way when a conversation is selected, so a
leave and a join may follow one. One day before, at and after the check-out
separates the tests of a stay that is over, on the day itself before and after the
server's midnight. The proofs of section 5 do
without any of these bounds.

**Fairness** is weak and covers what runs without a person. `BookingSystem`'s
`FairSpec`: the steps of a handler once it has started, the worker's timer, time,
and the provider's redelivery. Arrivals (`Sweep`, `ReadToPay`, cancellations, date
edits) and faults (`AbortHold`, `FailPayment`) are not fair. Weak fairness is
enough for `LockProperty` because the number of requests is finite: the lock is
eventually free for good. With an endless stream of requests it would be
PostgreSQL's queue of waiters that gives the same. `SessionSystem`'s `FairSpec`:
the clock, and the next step of server and page for a call under way; clicks, lost
requests, revocations and restrictions are not fair. A browser's request has an
end of its own, so a call cannot hang for ever; `client.ts` sets no timeout and
relies on that.

**Can the properties fail?** Beside the definitions that model code there are
their mutations, each marked as such in its comment (a dropped `FOR UPDATE`, an
off-by-one deadline, a confirmed booking that lapses like a hold, an event that is
dropped when there is no payment row, a notification after the answer, a rating
computed outside the transaction, ...). No specification uses them. Putting one in
the place of its original breaks the property that `PROJECT.json` pairs it with.

**What the properties leave open on purpose.** `ConfirmedWasCharged` and
`ImplementsSales` name the posted events beside the charges, since no test of the
code tells them apart: what they check is that nothing else confirms.
`ConfirmedInTimeStays` is about bookings confirmed within their hold: one that an
event confirms later may be overwritten by a request that had read it as lapsed.
`DecisionsAreExplained` and `HistoryTellsStatus` hold of rows that a decision
wrote last. `BarredAgesOut` excepts the calls that had passed the look at the
account, and `RefusedMeansChanged` the day of the check-out before the server's
midnight. `ChargedOnceWithoutFaults` is about runs without a lost answer, since
every attempt has a fresh key, and about cards. `RatingIsCurrent` is about
submissions that did not overlap and `GuardsLeaveAnAdministrator` about requests
nobody disturbed: with an overlap the code gives no guarantee, and what the
properties then check is that the guards and the transaction are right by
themselves. `PayoutsAreBounded` bounds overlapping requests by one balance each,
which is what the code keeps of "within the balance". `ImageLimit` is the limit
itself until two image requests overlap, and then the limit and the files of every
tab's upload but one; `OneCover` is about requests that did not overlap and
deletions that did not stray. `NewRowsWait` is what the row lock keeps of a night
without a calendar row: a row that is there, and a date the host looked at before
the hold committed, are blocked over a booking all the same.

## 4. Where code and documents differ

Two runs end in a counterexample to something the repository says.

| Property | Stated at | Why it fails |
|---|---|---|
| `NoDoubleBooking` | `README.md:32` | a confirmed booking keeps `expiresAt`, so it stops blocking its nights after 15 minutes (`booking.service.ts:130-133`) |
| `HostSeesListing` | `HostPropertiesPage.tsx:106` | the host's page asks the public search, which ignores the host and finds published listings only (`properties.service.ts:31`) |

`NoDoubleBooking` and `NoDoubleHold` are two sides of one design: the code does
keep *holds* disjoint for as long as they run, in every interleaving, and loses
the protection of a *booking* when the time of its hold is over.

The models have the behaviours below too, as steps the runs take. No run is spent
on them, each is the reason for a property to be stated as it is:

- an event posted by anybody confirms any booking, also one that was never charged,
  has lapsed or was cancelled (`payments.routes.ts:15`, `payments.service.ts:158-171`);
- a payment request that read a hold as lapsed writes EXPIRED over a confirmation
  that came from an event meanwhile (`payments.service.ts:34-41`);
- a guest may pay by card after an accepted M-Pesa push
  (`payments.service.ts:52` tests SUCCESS only);
- a plain update can leave a rejection or a removal request without its reason, or
  publish without a history entry (`properties.service.ts:258-269`);
- a deletion that names another listing's image leaves two covers or none
  (`properties.service.ts:686-709`);
- a sign-in or rotation past its tests signs tokens after the account was barred
  ("revoke active authentication sessions immediately", `admin.service.ts:553`);
- on a server that is not on UTC the dashboard offers a review on the day of the
  check-out that the server refuses (`GuestDashboardPage.tsx:69` against
  `reviews.service.ts:29-32`);
- unpaid holds do not end by themselves: the worker selects `PENDING`, which no
  code writes (`bookingExpiry.processor.ts:10` against `README.md:37`);
- two overlapping payments with one idempotency key charge twice: the key is
  recorded with the outcome (`payments.service.ts:43` against
  `marketplace.test.ts:141`);
- a date can be blocked over a booking made between the test and the upsert
  (`availability.service.ts:105` against `concurrency.test.ts:126`);
- a listing without image is published when a removal request is withdrawn or
  declined (`properties.service.ts:540` against `:254`);
- deletion takes along a booking made after the count (`admin.service.ts:1239`
  against `:1231`);
- two requests that count before either writes remove the last administrator
  (`admin.service.ts:433`, `:751`);
- a hold cannot be paid after the page was left: notice and reservation link to
  the payment step (`booking.service.ts:204`, `ReservationDetailsPage.tsx:274`),
  which opens without a booking (`CheckoutPage.tsx:35`, `:183`);
- the checkout button may name the price of a stay chosen before
  (`CheckoutPage.tsx:140`, `:815`);
- a late answer confirms a booking the page no longer shows
  (`CheckoutPage.tsx:151`); the confirmation itself is true, which is
  `ConfirmationWasCharged`;
- reviews accept a stay that was never completed once its check-out is past
  (`reviews.service.ts:25-32`), which the pages offer too;
- two image requests at a time exceed the limit or leave no cover or two
  (`properties.service.ts:626`), as `ImageLimit` and `OneCover` allow for;
- a retry of `AddPropertyPage` after a failed upload stores a second listing.

## 5. Proofs

All safety properties the passing runs check are proved, for all values of the
constants that satisfy the named assumptions, which TLC evaluates in the runs.

| Module | Theorems | Inductive invariant |
|---|---|---|
| `BookingProofs` | `TypeCorrect`, `HoldInvariant`, `HoldsAreDisjoint`, `HoldsAreVisible`, `HoldsLastTheirTime`, `FreeNightsStayFree`, `LedgerImplemented`, `RefundsAreOrdered` | `HoldInv`; with `AsksForStay` for the refinement |
| `PaymentProofs` | `ConfirmedCharged`, `RefundedReleased`, `ConfirmedInTimeKept`, `SalesImplemented`; `CheckoutServes`, `CheckoutTyped`, `ConfirmationCharged`, `NobodyPaysTwice` | `MoneyInv`; `CheckoutInv` |
| `PropertyProofs` | `ListingTypes`, `DecisionsExplained`, `HistoryTells`, `DeletionCompletes`, `ImagesLimited`, `CoverIsSingle` | `ListingInv`; `RoomLeft`; `CoverInv` |
| `ListingPageProofs` | `TypeCorrect`, `PublishedApproved`, `RefusalsAreStale` | `Inv` |
| `SessionProofs` | `TypeCorrect`, `RevokedForGood`, `CallsAreShort`, `BarredForGood` | `Inv`; with `RetriedOK` for the calls |
| `AccountProofs` | `TypeCorrect`, `GuardsSuffice` | `Inv` |
| `ConversationProofs` | `TypeCorrect`, `MessagesShownOnce`, `MarkedMessagesReturned`, `AnsweredMessagesNotified` | `Inv` |
| `StaysProofs` | `TypeCorrect`, `RatingsCurrent`, `PayoutsBounded`, `RefusalsExplained` | `Inv` |

**Holds.** `NoDoubleHold` is not inductive. A commit keeps it only if the
committing transaction has its nights to itself (`ClearStays`); that follows from
the overlap query only if the query finds every standing claim, which needs
`ReleasedRows` (a row that left the query's statuses was released or is past its
hold) and, for the payment request that writes EXPIRED from an old read,
`LapsedReads` and `TargetsExist`; and it survives other commits only because
the lock is exclusive (`LockAgrees`). `HoldLengths` bounds `expiresAt` by
`createdAt` plus the hold, without which the second test of the sweep could end
a hold early. `HoldInv` is the conjunction of these with `TypeOK`,
`RowPerCommit` and `NoDoubleHold`.

The proof of preservation has two layers. `RowStep`, `RequestStep`,
`RequestOrigin`, `PayOrigin`, `OtherRequests` and `ClockStep` go through the
actions once and say what a step can do to one row, one request and the clock
(`RowMoves`). The lemma of each conjunct then argues from those. `StoodBefore`
is the central one: a claim that stands after a step stood before it, unless
the step commits it. `LedgerImplemented` uses it too: a commit maps to the
ledger's grant because `ClearStays` says no claim is in its way, or to a late
record when its hold ran out before it committed; every other step maps to a
lapse or a stutter. `AsksForStay` says that a request's nights are one of
`Stays`, the ledger's only set of nights.

**Money.** That a confirmed booking was charged needs to know the same of what is
about to confirm it (`Backed`): an event under way, and a card payment past its
charge, name a booking with a charge or a posted event. `RefundedIsReleased` is
inductive above `HoldInv`. For `ConfirmedInTimeKept`, a booking confirmed within
its hold has no request about to write EXPIRED over it (`LapsedReads` of
`HoldInv`: such a request read the row past its hold or released), none can come
to that while it is confirmed, and only such a request expires a confirmed booking
(`ConfirmedExpiry`). `SalesImplemented` maps each step of the core to one of the
ledger of sales: a charge takes, the settling transaction and the provider's
events sell, a posted event sells on a claim (`ConfirmOrigin` says that nothing
else confirms, and whose receipt it had), an administrator's refund ends the sale
in the transaction that counts it, and every other step at most drops sales and
receipts (`OthersLapse`).

**The calendar.** `FreeNightsStayFree` needs `LockAgrees` only: a transaction past
its look at the dates holds the lock, and the one step that inserts a calendar row
(`CalendarStep`) finds the lock free.

**The checkout page.** `CheckoutServes` shows that a step of `Checkout` is a step
of the core or leaves it alone, so `MoneyInv` holds behind the page. `Sent` ties
every request of the server to one of the page, and a payment that succeeded to
a charge of what was ordered; `OneWaits` says that without faults at most
the attempt the page waits for is not yet over; `ChargedOnce` that a booking
with such an attempt, or none, has at most one charge.

**Listings.** With the types of the rows the three properties about the status are
together inductive (`ListingInv`). `AskStep` and `DecideStep` treat a read and a
write once for every request; what is left of each request is that the reason
fits the status it writes.

The limit of the images is proved for any number of tabs. `RoomLeft` adds the files
still to store (`Pending`, a set of pairs of a tab and a number, so that its size
is bounded by lemmas on finite sets) to the images there are. An upload that begins
alone finds nothing pending, and its own test makes room; one that overlaps knows
nothing of what the others have still to store, which is at most `MaxFiles` for
each of them: the surplus. A stored file moves from the pending ones to the
images. For the cover, until requests overlap at most one editor is not idle
(`Alone`), and for that one `CoverKept` says which requests have made sure that there is
no cover or that the image they are about is still there; both use that a
listing that is gone stays gone and has no image.

**Listing pages.** `StatusOK`: a listing that is PUBLISHED or REMOVAL_REQUESTED was
approved. It holds because the host's page, which finds published listings only,
shows one, has it on its way or was clicked for one only after the approval
(`PagesOK`, which also says that a click was offered for the status it saw), and
because a request under way is the one clicked (`DecidersOK`). Only an approval
and a removal request withdrawn can publish.

**Sessions.** A cookie names a row of the table (`BrowserOK`), and so does the
answer of a call on its way back to one (`TokenOK`). Steps other than the clock's
keep every row (`TokensKept`); the clock moves rows, cookies and answers by one
age together.

Two of the theorems are what safety says of the two liveness properties. For
`CallsEnd`: `NextTurns` lists every turn a call can take, `RetriedOK` says that a
call in the interceptor's refresh has used up its one retry, and so every turn
lowers the call's rank, of which ten are above that of a call at rest: what a fair
server and page need to end it. For `RestrictionEndsAccess`: while the account
stays barred no call passes the look at it (`NextTurns` again), and once the
sign-ins and rotations that had passed before have signed their tokens, no step
but the clock's brings a token nobody held (`NextKnown`), while a second makes
each of those that are held older (`TickAges`). Past `AccessLife` nobody is
accepted, so what fairness has to add is the running of the clock and of the
rotations that are left.

**Accounts.** `Guarded`: a request that has counted on an unchanged table still
finds another administrator in it. The write changes one row, and the other one
(`AnotherOne`) remains.

**Conversations.** `Frame` says once what every step keeps when stored messages
stay stored. What a fetch marked is in its conversation, hence in its answer.

**Stays.** The sum of what overlapping payouts promise is the cardinality of a
set of pairs of a request and an earning (`Promised`), so that it is bounded
by a lemma on finite sets instead of an induction. `ShownOK` says that what a page
took for past is past, as everything completed was; `RatingOK` that
without an overlap the open submission counts every review.

**Model-checked only.** The four liveness properties: `EveryCreateAnswered`,
`ChargedHoldIsConfirmed`, `CallsEnd` and `RestrictionEndsAccess`. Liveness under
fairness is beyond the prover; for the last two the safety half is proved.

## 6. Not modelled

- Data no property tells apart: guests, prices, texts, the amenities an update
  replaces, filters of the search, the audit log, the status column of a user,
  which no test reads to sign in.
- The arithmetic of prices and promotion codes (`pricing.service.ts`): no other
  state depends on it. The use count of a code is never counted up.
- One-time tokens of mails (verification, password reset) and passwords; the
  `UserSession` rows, which nothing reads to decide.
- Row locks other than the property's: two transactions that lock booking and
  payment in opposite order can deadlock, and PostgreSQL aborts one, which is a
  failed payment or a cancellation that never continues.
- Requests about dates in bulk: one date per request.
- Notices to guest and host of a booking, which `createBooking` writes through a
  connection outside its transaction (`booking.service.ts:190-207`), and the
  refund `cancelBooking` announces and no row records (`:349-358`).
- The creation of conversations, typing events, the list of conversations and
  the counters of notifications.
- In `Stays`: the statements of payment and hold (one step), the two queries of a
  balance (one step), the deletion of bookings.
- Favorites, reports, amenities, the email worker (nothing in the repository
  queues a job for it), storage back ends, middleware, and the pages that only
  render.
- Two methods no request reaches: `deleteProperty`, and the upload of a single
  image (the router parses files with `upload.any()`, which never fills the
  `req.file` it waits for).
- Several server processes are not distinguished from several requests, since
  all state is in the database.

## 7. Plan

Done: everything above. What would add most next:

1. `Pricing`: the breakdown as functions on integers (cents) against a reference
   definition, with promotion codes.
2. The notices of a hold as rows of `BookingSystem`, for what a rollback leaves.
3. `Accounts` and `SessionSystem` composed, with the status column.
4. Row locks of booking and payment, for the deadlock between an administrator's
   cancellation and a payment.
