---------------------------- MODULE AdminBookings ----------------------------
(***************************************************************************)
(* AdminService.cancelBookingByAdmin and the expiry job of the background  *)
(* worker: the two writers of bookings outside BookingService and          *)
(* PaymentService.                                                         *)
(***************************************************************************)
EXTENDS BookingTables

CONSTANT AdminCancels   \* POST /admin/bookings/:id/cancel requests

VARIABLE adminCancels

AdminCancel ==
  [pc : {"idle", "read", "done", "refused"}, booking : Booking \cup {NoBooking},
   hasPayment : BOOLEAN]

AdminBookingsTypeOK ==
  /\ adminCancels \in [AdminCancels -> AdminCancel]
  /\ \A a \in AdminCancels :
       adminCancels[a].pc # "idle" => adminCancels[a].booking \in Booking

AdminBookingsInit ==
  adminCancels = [a \in AdminCancels |->
                    [pc |-> "idle", booking |-> NoBooking, hasPayment |-> FALSE]]

ReadToAdminCancel(a) ==
  /\ adminCancels[a].pc = "idle"
  /\ \E b \in Booking :
       /\ Exists(b)
       /\ adminCancels' = [adminCancels EXCEPT ![a] =
            [pc |-> IF bookings[b].status \in {"CANCELLED", "REFUNDED"} THEN "refused" ELSE "read",
             booking |-> b, hasPayment |-> payments[b].status # "ABSENT"]]
  /\ UNCHANGED tableVars

\* One transaction cancels the booking and, if a payment was read, refunds it.
WriteAdminCancel(a) ==
  LET b == adminCancels[a].booking
      paid == adminCancels[a].hasPayment
  IN  /\ adminCancels[a].pc = "read"
      /\ adminCancels' = [adminCancels EXCEPT ![a].pc = "done"]
      /\ bookings' = [bookings EXCEPT ![b] =
           [@ EXCEPT !.status = "CANCELLED", !.cancelled = TRUE, !.refundPct = 100]]
      /\ payments' = IF paid THEN [payments EXCEPT ![b].status = "REFUNDED"] ELSE payments
      /\ refunds' = IF paid THEN [refunds EXCEPT ![b] = @ + 1] ELSE refunds
      /\ UNCHANGED <<clockVars, property, calendar, lock, providerVars>>

\* The rows the worker's query selects: it looks for PENDING only.
UnconfirmedTooLong(r) == r.status = "PENDING" /\ r.createdAt + HoldTime < now

\* processBookingExpiryJob, every five minutes.
ExpiryJob ==
  /\ bookings' = [b \in Booking |->
                    IF UnconfirmedTooLong(bookings[b])
                      THEN [bookings[b] EXCEPT !.status = "CANCELLED", !.cancelled = TRUE]
                      ELSE bookings[b]]
  /\ UNCHANGED <<clockVars, property, calendar, payments, refunds, lock,
                 providerVars, adminCancels>>

AdminBookingsNext ==
  \/ \E a \in AdminCancels : ReadToAdminCancel(a) \/ WriteAdminCancel(a)
  \/ ExpiryJob

==============================================================================
