---------------------------- MODULE PaymentService ----------------------------
(***************************************************************************)
(* PaymentService: POST /payments/process for a card or for M-Pesa, and    *)
(* the webhook of the payment provider.  A payment request reads the       *)
(* booking once and acts on that snapshot; the provider call lies between  *)
(* the read and the transaction that records its outcome.                  *)
(***************************************************************************)
EXTENDS BookingTables

CONSTANTS
  Pays,      \* POST /payments/process requests
  Methods,   \* the payment methods guests use in this instance
  Postable   \* bound: the bookings that events not sent by the provider name

ASSUME MethodsAssumption == Methods \subseteq {"CARD", "MPESA"}

VARIABLE pays

PayPc ==
  {"idle", "lapsed", "checked", "cleared", "charged", "done", "refused", "replayed"}

PayRequest ==
  [pc : PayPc, booking : Booking \cup {NoBooking}, key : Keys \cup {NoKey},
   method : Methods \cup {"NONE"}, paid : BOOLEAN]

PaymentServiceTypeOK ==
  /\ pays \in [Pays -> PayRequest]
  /\ \A p \in Pays : pays[p].pc # "idle" => pays[p].booking \in Booking

PaymentServiceInit ==
  pays = [p \in Pays |-> [pc |-> "idle", booking |-> NoBooking, key |-> NoKey,
                          method |-> "NONE", paid |-> FALSE]]

PayGoto(p, from, to) ==
  /\ pays[p].pc = from
  /\ pays' = [pays EXCEPT ![p].pc = to]

------------------------------------------------------------------------------
(***************************************************************************)
(* processBookingPayment.                                                  *)
(***************************************************************************)

\* Mutation: the hold is over at its deadline.
NotPayableAtDeadline(r) ==
  \/ r.status \in {"EXPIRED", "CANCELLED"}
  \/ r.expiresAt <= now /\ r.status # "CONFIRMED"

\* Mutation: a confirmed booking lapses with its deadline like a hold.
NotPayableConfirmedToo(r) == r.status \in {"EXPIRED", "CANCELLED"} \/ PastHold(r)

\* The hold can no longer be paid for, as the request sees the row.
NotPayable(r) ==
  \/ r.status \in {"EXPIRED", "CANCELLED"}
  \/ PastHold(r) /\ r.status # "CONFIRMED"

\* The request reads the booking with its payment and tests its status.
ReadToPay(p) ==
  /\ pays[p].pc = "idle"
  /\ \E b \in Booking, k \in Keys \cup {NoKey}, m \in Methods :
       /\ Exists(b)
       /\ pays' = [pays EXCEPT ![p] =
            [pc |-> IF ~NotPayable(bookings[b]) THEN "checked"
                    ELSE IF bookings[b].status = "EXPIRED" THEN "refused"
                    ELSE "lapsed",
             booking |-> b, key |-> k, method |-> m,
             paid |-> payments[b].status = "SUCCESS"]]
  /\ UNCHANGED tableVars

\* A booking seen lapsed is set to EXPIRED, whatever it has become meanwhile.
WriteLapsed(p) ==
  /\ PayGoto(p, "lapsed", "refused")
  /\ bookings' = [bookings EXCEPT ![pays[p].booking].status = "EXPIRED"]
  /\ UNCHANGED <<clockVars, property, calendar, payments, refunds, lock,
                 providerVars>>

\* Some payment row, of any booking, carries the request's idempotency key.
KeySeen(p) ==
  /\ pays[p].key # NoKey
  /\ \E b \in Booking : payments[b].key = pays[p].key

\* Mutation: a request for a booking that is paid goes on to confirm it.
LookUpKeyResumes(p) ==
  /\ PayGoto(p, "checked", IF KeySeen(p) THEN "replayed"
                           ELSE IF pays[p].paid THEN "charged"
                           ELSE "cleared")
  /\ UNCHANGED tableVars

\* The idempotency lookup, then the test of the payment read before.
LookUpKey(p) ==
  /\ PayGoto(p, "checked", IF KeySeen(p) THEN "replayed"
                           ELSE IF pays[p].paid THEN "refused"
                           ELSE "cleared")
  /\ UNCHANGED tableVars

\* The unique constraint on idempotencyKey, for a row of the request's booking.
KeyFree(p) ==
  \A b \in Booking \ {pays[p].booking} :
    pays[p].key # NoKey => payments[b].key # pays[p].key

\* Mutation: the accepted push already confirms the booking.
PushMpesaConfirms(p) ==
  /\ pays[p].method = "MPESA"
  /\ PayGoto(p, "cleared", "done")
  /\ KeyFree(p)
  /\ payments' = [payments EXCEPT ![pays[p].booking] =
                    [status |-> "PROCESSING", key |-> pays[p].key]]
  /\ bookings' = [bookings EXCEPT ![pays[p].booking].status = "CONFIRMED"]
  /\ UNCHANGED <<clockVars, property, calendar, refunds, lock, providerVars>>

\* The M-Pesa driver accepts the push; the payment is upserted as PROCESSING, the
\* update replacing the key of an existing row.
PushMpesa(p) ==
  /\ pays[p].method = "MPESA"
  /\ PayGoto(p, "cleared", "done")
  /\ KeyFree(p)
  /\ payments' = [payments EXCEPT ![pays[p].booking] =
                    [status |-> "PROCESSING", key |-> pays[p].key]]
  /\ UNCHANGED <<clockVars, property, calendar, bookings, refunds, lock,
                 providerVars>>

\* The card driver accepts the payment intent and an event about it is on its way.  The one
\* driver answers SUCCESS whenever it answers, and nobody looks at what it answered.
ChargeCard(p) ==
  /\ pays[p].method = "CARD"
  /\ PayGoto(p, "cleared", "charged")
  /\ charges' = [charges EXCEPT ![pays[p].booking] = @ + 1]
  /\ events' = events \cup {pays[p].booking}
  /\ UNCHANGED <<clockVars, rowVars, lock, posted>>

\* One transaction settles the payment and confirms the booking.  The update of an
\* existing payment leaves its key alone.
SettleCard(p) ==
  LET b == pays[p].booking
      new == payments[b].status = "ABSENT"
  IN  /\ PayGoto(p, "charged", "done")
      /\ new => KeyFree(p)
      /\ payments' = [payments EXCEPT ![b] =
           [status |-> "SUCCESS", key |-> IF new THEN pays[p].key ELSE @.key]]
      /\ bookings' = [bookings EXCEPT ![b].status = "CONFIRMED"]
      /\ UNCHANGED <<clockVars, property, calendar, refunds, lock, providerVars>>

\* The provider call or the write fails, a unique key collides, or the server dies:
\* nothing is recorded, and a charge already made is not undone.
FailPayment(p) ==
  /\ pays[p].pc \in {"cleared", "charged"}
  /\ pays' = [pays EXCEPT ![p].pc = "refused"]
  /\ UNCHANGED tableVars

------------------------------------------------------------------------------
(***************************************************************************)
(* processWebhook.  The payment row is updated where there is one, the     *)
(* booking must be there.  The route is open: it takes an event of the     *)
(* provider, late or again, and any other event of that type.              *)
(***************************************************************************)
\* Mutation: the event confirms the booking and forgets the payment.
ProcessWebhookBookingOnly(b) ==
  /\ Exists(b)
  /\ bookings' = [bookings EXCEPT ![b].status = "CONFIRMED"]
  /\ UNCHANGED <<clockVars, property, calendar, payments, refunds, lock, charges, pays>>

\* Mutation: an event without a payment row is acknowledged and dropped.
ProcessWebhookNeedsPayment(b) ==
  /\ Exists(b)
  /\ payments' = [payments EXCEPT ![b].status = IF @ = "ABSENT" THEN "ABSENT" ELSE "SUCCESS"]
  /\ bookings' = IF payments[b].status = "ABSENT" THEN bookings
                 ELSE [bookings EXCEPT ![b].status = "CONFIRMED"]
  /\ UNCHANGED <<clockVars, property, calendar, refunds, lock, charges, pays>>

ProcessWebhook(b) ==
  /\ Exists(b)
  /\ payments' = [payments EXCEPT ![b].status = IF @ = "ABSENT" THEN "ABSENT" ELSE "SUCCESS"]
  /\ bookings' = [bookings EXCEPT ![b].status = "CONFIRMED"]
  /\ UNCHANGED <<clockVars, property, calendar, refunds, lock, charges, pays>>

\* The provider repeats an event when in doubt, so a delivery may leave it in flight.
Webhook(b) ==
  /\ b \in events
  /\ ProcessWebhook(b)
  /\ events' \in {events, events \ {b}}
  /\ UNCHANGED posted

\* An event that stands for no charge in flight.
PostEvent(b) ==
  /\ b \in Postable
  /\ ProcessWebhook(b)
  /\ posted' = posted \cup {b}
  /\ UNCHANGED events

------------------------------------------------------------------------------
\* The steps of a payment request, once it has arrived.
PayStep(p) ==
  \/ WriteLapsed(p)
  \/ LookUpKey(p)
  \/ PushMpesa(p)
  \/ ChargeCard(p)
  \/ SettleCard(p)

PaymentServiceNext ==
  \/ \E p \in Pays : ReadToPay(p) \/ PayStep(p) \/ FailPayment(p)
  \/ \E b \in Booking : Webhook(b) \/ PostEvent(b)

==============================================================================
