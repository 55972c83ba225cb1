---------------------------- MODULE BookingSystem ----------------------------
(***************************************************************************)
(* The booking core: BookingService, PaymentService, AvailabilityService,  *)
(* the administrator's cancellation and the expiry worker, composed over   *)
(* the rows they share, with time and the host's edits of the property.    *)
(***************************************************************************)
EXTENDS BookingService, PaymentService, AvailabilityService, AdminBookings

vars == <<tableVars, bookingServiceVars, pays, dateEdits, adminCancels>>

TypeOK ==
  /\ TablesTypeOK
  /\ BookingServiceTypeOK
  /\ PaymentServiceTypeOK
  /\ AvailabilityServiceTypeOK
  /\ AdminBookingsTypeOK

Init ==
  /\ TablesInit
  /\ BookingServiceInit
  /\ PaymentServiceInit
  /\ AvailabilityServiceInit
  /\ AdminBookingsInit

Next ==
  \/ BookingServiceNext /\ UNCHANGED <<pays, dateEdits, adminCancels>>
  \/ PaymentServiceNext /\ UNCHANGED <<bookingServiceVars, dateEdits, adminCancels>>
  \/ AvailabilityServiceNext /\ UNCHANGED <<bookingServiceVars, pays, adminCancels>>
  \/ AdminBookingsNext /\ UNCHANGED <<bookingServiceVars, pays, dateEdits>>
  \/ (Tick \/ HostEditsProperty)
       /\ UNCHANGED <<bookingServiceVars, pays, dateEdits, adminCancels>>

Spec == Init /\ [][Next]_vars

------------------------------------------------------------------------------
(***************************************************************************)
(* Fairness.  The server runs the handlers it has started to their end,    *)
(* the worker's timer keeps firing, time passes, and the provider repeats  *)
(* an event until it is acknowledged.  Nothing makes a client send a       *)
(* request, so Sweep, ReadToPay and the other arrivals are not fair.       *)
(***************************************************************************)
FairSpec ==
  /\ Spec
  /\ \A c \in Booking : WF_vars(CreateStep(c) /\ UNCHANGED <<pays, dateEdits, adminCancels>>)
  /\ \A p \in Pays :
       WF_vars(PayStep(p) /\ UNCHANGED <<bookingServiceVars, dateEdits, adminCancels>>)
  /\ \A b \in Booking :
       WF_vars(Webhook(b) /\ UNCHANGED <<bookingServiceVars, dateEdits, adminCancels>>)
  /\ WF_vars(ExpiryJob /\ UNCHANGED <<bookingServiceVars, pays, dateEdits>>)
  /\ WF_vars(Tick /\ UNCHANGED <<bookingServiceVars, pays, dateEdits, adminCancels>>)

------------------------------------------------------------------------------
(***************************************************************************)
(* Holds.                                                                  *)
(***************************************************************************)

\* A claim of the booking r on its nights: its hold runs, nobody released it (which
\* every path records in cancelledAt) and its stay is not over.
Standing(r) ==
  /\ r.status # "ABSENT"
  /\ ~r.cancelled
  /\ r.expiresAt > now
  /\ r.checkOut >= today

\* No two bookings with a standing claim share a night: createBooking reserves the
\* nights atomically, whatever runs between its statements.
NoDoubleHold ==
  \A b, c \in Booking :
    b # c /\ Standing(bookings[b]) /\ Standing(bookings[c])
      => ~Overlap(bookings[b], bookings[c])

\* Every standing claim is found by the overlap query: no cancellation, expiry,
\* payment or completion hides a hold from createBooking without releasing it.
StandingIsVisible ==
  \A b \in Booking : Standing(bookings[b]) => BlocksDates(bookings[b])

\* A hold ends as EXPIRED only after its deadline, both by the sweep, which also
\* uses the creation time, and by a payment request that read the row earlier.
NoEarlyExpiry ==
  [][\A b \in Booking :
       bookings[b].status = "PENDING_PAYMENT" /\ bookings'[b].status = "EXPIRED"
         => PastHold(bookings[b])]_vars

\* createBooking and everything around it implement the ledger of holds: claims
\* are granted atomically to disjoint stays and never come back once they ended.
Ledger == INSTANCE HoldLedger WITH
  recorded <- {b \in Booking : Exists(b)},
  claims <- {[id |-> b, checkIn |-> bookings[b].checkIn, checkOut |-> bookings[b].checkOut] :
               b \in {x \in Booking : Standing(bookings[x])}}

ImplementsLedger == Ledger!LedgerSpec

\* A night without a calendar row stays without one while a transaction that looked at it
\* is open: the block of a host who had seen no booking waits for the hold
\* (booking.service.ts:110-122).  A row that is there is blocked under the hold, and
\* so is a date the host looked at before the hold committed.
NewRowsWait ==
  [][\A c \in Booking, d \in Days :
       ( /\ creates[c].pc \in {"unblocked", "clear", "inserted"}
         /\ CoversNight(creates[c], d)
         /\ calendar[d] = "none" )
       => calendar'[d] = "none"]_vars

\* Every creation request that got past its sweep is answered, with a hold or with
\* a refusal: no request waits for ever for the row lock of another one.
EveryCreateAnswered ==
  \A c \in Booking : creates[c].pc = "swept" ~> creates[c].pc \in {"done", "refused"}

------------------------------------------------------------------------------
(***************************************************************************)
(* Payments and refunds.                                                   *)
(***************************************************************************)

\* A booking is confirmed or completed only if the card provider accepted a charge for
\* it, or an event that is not the provider's named it, which processWebhook
\* cannot tell (payments.service.ts:158-171): no replay, late push, lapsed hold or
\* failure between charge and transaction confirms one for which neither happened.
ConfirmedWasCharged ==
  \A b \in Booking :
    bookings[b].status \in {"CONFIRMED", "COMPLETED"} => charges[b] > 0 \/ b \in posted

\* A refunded payment belongs to a released booking that has a Refund row: the
\* transactions of the administrator, the payment and the webhook change booking
\* and payment together.
RefundedIsReleased ==
  \A b \in Booking :
    payments[b].status = "REFUNDED"
      => /\ bookings[b].status \in {"CANCELLED", "EXPIRED"}
         /\ bookings[b].cancelled
         /\ refunds[b] > 0

Sold(b) == bookings[b].status \in {"CONFIRMED", "COMPLETED"}

\* Requests, events and transactions implement the ledger of sales: whatever is repeated,
\* late or overlaps, each sale can be traced to a charge the provider or a request had
\* still to report, or to an event that was no report of a charge, and a refund is
\* recorded only as the sale ends.
Sales == INSTANCE SalesLedger WITH
  taken <- charges,
  receipts <- events \cup {pays[p].booking : p \in {q \in Pays : pays[q].pc = "charged"}},
  claimed <- posted,
  sold <- {b \in Booking : Sold(b)}

ImplementsSales == Sales!SalesSpec

\* A guest who paid within the hold keeps the booking: neither the sweep nor a payment
\* request that read the row before writes EXPIRED over the confirmation, until the
\* booking is cancelled or the stay is over (booking.service.ts:22-36,
\* payments.service.ts:35-42).  One confirmed after its deadline has no such right.
ConfirmedInTimeStays ==
  \A b \in Booking :
    [](bookings[b].status = "CONFIRMED" /\ ~PastHold(bookings[b])
         => [](bookings[b].status = "EXPIRED"
                 => bookings[b].cancelled \/ bookings[b].checkOut < today))

\* A hold whose guest was charged becomes a confirmed booking even if the request
\* that charged dies before it settles: the provider's event confirms it.
ChargedHoldIsConfirmed ==
  \A b \in Booking :
    charges[b] > 0 /\ bookings[b].status = "PENDING_PAYMENT"
      ~> bookings[b].status = "CONFIRMED"

==============================================================================
