---------------------------- MODULE BookingTables ----------------------------
(***************************************************************************)
(* The database rows, clocks and outside systems that every service of the *)
(* booking core reads and writes, for one property.                        *)
(*                                                                         *)
(* A booking is identified with the POST /bookings request that creates    *)
(* it, so Booking is also the set of creation requests.  Rows not yet      *)
(* inserted have status "ABSENT".  Time is discrete: now counts ticks and  *)
(* today counts days; a hold lasts HoldTime ticks (15 minutes in the code) *)
(* and a day DayLength ticks.                                              *)
(***************************************************************************)
EXTENDS Integers

CONSTANTS
  Booking,          \* booking ids, one per creation request
  Stays,            \* the stays a guest may ask for
  Days,             \* the dates of the host's calendar
  HoldTime,         \* length of a temporary hold, in ticks
  DayLength,        \* ticks in a day
  MaxTime,          \* bound on the clock
  Keys, NoKey,      \* idempotency keys; NoKey is a row that was never given one
  Policies,         \* the cancellation policies the host chooses among
  HostStatuses,     \* the property statuses the host's requests write
  InitialCalendar,  \* the availability rows that exist at the start
  NoBooking         \* the lock is free

ASSUME StaysAssumption ==
  \A s \in Stays : /\ s = [checkIn |-> s.checkIn, checkOut |-> s.checkOut]
                   /\ s.checkIn \in Nat /\ s.checkOut \in Nat
                   /\ s.checkIn < s.checkOut

ASSUME TimeAssumption == HoldTime \in Nat /\ DayLength \in Nat /\ HoldTime < DayLength

ASSUME NamesAssumption == NoBooking \notin Booking /\ NoKey \notin Keys

ASSUME HostAssumption ==
  /\ Policies \subseteq {"FLEXIBLE", "MODERATE", "STRICT"} /\ Policies # {}
  /\ "PUBLISHED" \in HostStatuses
  /\ InitialCalendar \in [Days -> {"none", "open", "blocked"}]

VARIABLES
  now, today,
  property,         \* the Property row: status and cancellationPolicy
  calendar,         \* Availability rows by date: "none" when there is no row
  bookings,         \* Booking rows
  payments,         \* Payment rows, at most one per booking (bookingId is unique)
  refunds,          \* number of Refund rows of each booking
  lock,             \* holder of the FOR UPDATE lock on the Property row
  charges,          \* payment intents of each booking the card provider has accepted
  events,           \* bookings with a payment_intent.succeeded event in flight
  posted            \* bookings some other event has named: the route asks for no proof

clockVars == <<now, today>>
rowVars == <<property, calendar, bookings, payments, refunds>>
providerVars == <<charges, events, posted>>
tableVars == <<clockVars, rowVars, lock, providerVars>>

(***************************************************************************)
(* Row types.  ReachableStatus holds the values of enum BookingStatus some *)
(* code writes; PENDING, CHECKED_IN, REFUNDED, REJECTED and NO_SHOW are    *)
(* read but never written.                                                 *)
(***************************************************************************)
ReachableStatus ==
  {"PENDING_PAYMENT", "CONFIRMED", "CANCELLED", "EXPIRED", "COMPLETED"}

BookingRow ==
  [status : ReachableStatus \cup {"ABSENT"}, checkIn : Nat, checkOut : Nat,
   createdAt : Nat, expiresAt : Nat, cancelled : BOOLEAN,
   refundPct : {0, 50, 100}]

PaymentRow ==
  [status : {"ABSENT", "PROCESSING", "SUCCESS", "REFUNDED"}, key : Keys \cup {NoKey}]

AbsentBooking ==
  [status |-> "ABSENT", checkIn |-> 0, checkOut |-> 0, createdAt |-> 0,
   expiresAt |-> 0, cancelled |-> FALSE, refundPct |-> 0]

AbsentPayment == [status |-> "ABSENT", key |-> NoKey]

TablesTypeOK ==
  /\ now \in Nat /\ today \in Nat
  /\ property \in [status : HostStatuses, policy : Policies]
  /\ calendar \in [Days -> {"none", "open", "blocked"}]
  /\ bookings \in [Booking -> BookingRow]
  /\ payments \in [Booking -> PaymentRow]
  /\ refunds \in [Booking -> Nat]
  /\ lock \in Booking \cup {NoBooking}
  /\ charges \in [Booking -> Nat]
  /\ events \subseteq Booking /\ posted \subseteq Booking

TablesInit ==
  /\ now = 0 /\ today = 0
  /\ property \in [status : {"PUBLISHED"}, policy : Policies]
  /\ calendar = InitialCalendar
  /\ bookings = [b \in Booking |-> AbsentBooking]
  /\ payments = [b \in Booking |-> AbsentPayment]
  /\ refunds = [b \in Booking |-> 0]
  /\ lock = NoBooking
  /\ charges = [b \in Booking |-> 0] /\ events = {} /\ posted = {}

(***************************************************************************)
(* Predicates on rows, as the queries write them.                          *)
(***************************************************************************)
Exists(b) == bookings[b].status # "ABSENT"

\* Half-open stays [checkIn, checkOut): a check-out day may be a check-in day.
Overlap(r, s) == r.checkIn < s.checkOut /\ s.checkIn < r.checkOut

\* The date d is one of the nights of the stay r.
CoversNight(r, d) == r.checkIn <= d /\ d < r.checkOut

\* The status list of the overlap query.
Occupying ==
  {"CONFIRMED", "PENDING_PAYMENT", "PENDING", "CHECKED_IN"}

\* The rows the overlap query and the calendar query find: the expiry filter
\* applies to every status, expiresAt being kept when a booking is confirmed.
BlocksDates(r) == r.status \in Occupying /\ r.expiresAt > now

PastHold(r) == r.expiresAt < now

(***************************************************************************)
(* Time.  A day is longer than a hold, so at most one midnight falls into  *)
(* the life of a hold.                                                     *)
(***************************************************************************)
Tick ==
  /\ now < MaxTime
  /\ now' = now + 1
  /\ today' = IF now' % DayLength = 0 THEN today + 1 ELSE today
  /\ UNCHANGED <<rowVars, lock, providerVars>>

(***************************************************************************)
(* The host's property requests as the booking core sees them: the row is  *)
(* updated to another status or cancellation policy.  The UPDATE waits for *)
(* a transaction that locked the row FOR UPDATE.                           *)
(***************************************************************************)
HostEditsProperty ==
  /\ lock = NoBooking
  /\ property' \in [status : HostStatuses, policy : Policies]
  /\ property' # property
  /\ UNCHANGED <<clockVars, calendar, bookings, payments, refunds, lock, providerVars>>

==============================================================================
