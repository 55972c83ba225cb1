---------------------------- MODULE BookingService ----------------------------
(***************************************************************************)
(* BookingService: creation of a temporary hold, cancellation by a guest   *)
(* or host, and the two housekeeping updates that run inside requests.     *)
(*                                                                         *)
(* Each request is a process that performs one database statement per      *)
(* step, so the statements of different requests interleave as they do     *)
(* under READ COMMITTED.  A row inserted by an open transaction is not in  *)
(* bookings until it commits.                                              *)
(***************************************************************************)
EXTENDS BookingTables

CONSTANT Cancels    \* POST /bookings/:id/cancel requests

VARIABLES
  creates,          \* creation request of each booking
  cancels           \* cancellation requests

bookingServiceVars == <<creates, cancels>>

CreatePc ==
  {"new", "swept", "priced", "opened", "locked", "unblocked", "clear", "inserted",
   "done", "refused"}

\* The steps of createBooking at which its transaction holds the row lock.
InCritical == {"locked", "unblocked", "clear", "inserted"}

CreateRequest ==
  [pc : CreatePc, checkIn : Nat, checkOut : Nat, expiresAt : Nat, createdAt : Nat]

CancelRequest ==
  [pc : {"idle", "read", "done", "refused"}, booking : Booking \cup {NoBooking},
   refundPct : {0, 50, 100}]

BookingServiceTypeOK ==
  /\ creates \in [Booking -> CreateRequest]
  /\ cancels \in [Cancels -> CancelRequest]
  /\ \A x \in Cancels : cancels[x].pc # "idle" => cancels[x].booking \in Booking

BookingServiceInit ==
  /\ creates = [b \in Booking |-> [pc |-> "new", checkIn |-> 0, checkOut |-> 0,
                                   expiresAt |-> 0, createdAt |-> 0]]
  /\ cancels = [x \in Cancels |-> [pc |-> "idle", booking |-> NoBooking, refundPct |-> 0]]

------------------------------------------------------------------------------
(***************************************************************************)
(* Housekeeping.                                                           *)
(***************************************************************************)

\* A hold no payment was ever attempted for, past its deadline.
Abandoned(b) ==
  /\ bookings[b].status \in {"PENDING_PAYMENT", "PENDING"}
  /\ \/ bookings[b].expiresAt < now
     \/ bookings[b].createdAt + HoldTime < now
  /\ payments[b].status = "ABSENT"

\* The rows after expirePendingBookings.
AfterSweep ==
  [b \in Booking |->
     IF Abandoned(b)
       THEN [bookings[b] EXCEPT !.status = "EXPIRED", !.cancelled = TRUE]
       ELSE bookings[b]]

StayOver(r) == r.status \in {"CONFIRMED", "CHECKED_IN"} /\ r.checkOut < today

\* updateExpiredBookings, run by every listing of bookings.
CompleteStays ==
  /\ \E b \in Booking : StayOver(bookings[b])
  /\ bookings' = [b \in Booking |->
                    IF StayOver(bookings[b])
                      THEN [bookings[b] EXCEPT !.status = "COMPLETED"]
                      ELSE bookings[b]]
  /\ UNCHANGED <<clockVars, property, calendar, payments, refunds, lock,
                 providerVars, bookingServiceVars>>

------------------------------------------------------------------------------
(***************************************************************************)
(* createBooking.                                                          *)
(***************************************************************************)
CreateGoto(c, from, to) ==
  /\ creates[c].pc = from
  /\ creates' = [creates EXCEPT ![c].pc = to]

\* The request arrives; abandoned holds are expired by a statement of its own.
Sweep(c) ==
  /\ creates[c].pc = "new"
  /\ \E s \in Stays :
       creates' = [creates EXCEPT ![c] = [@ EXCEPT !.pc = "swept",
                                            !.checkIn = s.checkIn, !.checkOut = s.checkOut]]
  /\ bookings' = AfterSweep
  /\ UNCHANGED <<clockVars, property, calendar, payments, refunds, lock,
                 providerVars, cancels>>

\* The stay is priced, which rejects a check-in in the past, and the deadline of
\* the hold is fixed, before the transaction opens.
Price(c) ==
  /\ creates[c].pc = "swept"
  /\ creates[c].checkIn >= today
  /\ creates' = [creates EXCEPT ![c] = [@ EXCEPT !.pc = "priced",
                                                 !.expiresAt = now + HoldTime]]
  /\ UNCHANGED <<tableVars, cancels>>

\* The transaction reads the property, before it locks the row.
OpenTransaction(c) ==
  /\ property.status = "PUBLISHED"
  /\ CreateGoto(c, "priced", "opened")
  /\ UNCHANGED <<tableVars, cancels>>

\* Mutation: the property is read again without FOR UPDATE.
ReadPropertyAgain(c) ==
  /\ lock' = c
  /\ CreateGoto(c, "opened", "locked")
  /\ UNCHANGED <<clockVars, rowVars, providerVars, cancels>>

LockProperty(c) ==
  /\ lock = NoBooking
  /\ lock' = c
  /\ CreateGoto(c, "opened", "locked")
  /\ UNCHANGED <<clockVars, rowVars, providerVars, cancels>>

CheckBlockedDates(c) ==
  /\ \A d \in Days : CoversNight(creates[c], d) => calendar[d] # "blocked"
  /\ CreateGoto(c, "locked", "unblocked")
  /\ UNCHANGED <<tableVars, cancels>>

\* Mutation: holds that wait for payment do not conflict.
ConflictWithPaid(c) ==
  \E b \in Booking :
    /\ BlocksDates(bookings[b]) /\ bookings[b].status # "PENDING_PAYMENT"
    /\ Overlap(creates[c], bookings[b])

\* Some row found by the overlap query of the request c.
Conflict(c) ==
  \E b \in Booking : BlocksDates(bookings[b]) /\ Overlap(creates[c], bookings[b])

CheckOverlap(c) ==
  /\ ~Conflict(c)
  /\ CreateGoto(c, "unblocked", "clear")
  /\ UNCHANGED <<tableVars, cancels>>

\* The row is inserted, not yet visible; the notices to both parties, written through
\* a connection outside the transaction, are left out.
InsertHold(c) ==
  /\ creates[c].pc = "clear"
  /\ creates' = [creates EXCEPT ![c] = [@ EXCEPT !.pc = "inserted", !.createdAt = now]]
  /\ UNCHANGED <<tableVars, cancels>>

\* Mutation: the booking starts in the status the expiry worker looks for.
CommitPending(c) ==
  /\ CreateGoto(c, "inserted", "done")
  /\ bookings' = [bookings EXCEPT ![c] =
       [status |-> "PENDING", checkIn |-> creates[c].checkIn,
        checkOut |-> creates[c].checkOut, createdAt |-> creates[c].createdAt,
        expiresAt |-> creates[c].expiresAt, cancelled |-> FALSE, refundPct |-> 0]]
  /\ lock' = NoBooking
  /\ UNCHANGED <<clockVars, property, calendar, payments, refunds, providerVars, cancels>>

CommitHold(c) ==
  /\ CreateGoto(c, "inserted", "done")
  /\ bookings' = [bookings EXCEPT ![c] =
       [status |-> "PENDING_PAYMENT", checkIn |-> creates[c].checkIn,
        checkOut |-> creates[c].checkOut, createdAt |-> creates[c].createdAt,
        expiresAt |-> creates[c].expiresAt, cancelled |-> FALSE, refundPct |-> 0]]
  /\ lock' = NoBooking
  /\ UNCHANGED <<clockVars, property, calendar, payments, refunds, providerVars, cancels>>

\* Mutation: a refusal leaves the transaction, and with it the lock, open.
RefuseAndStayOpen(c) ==
  /\ \/ creates[c].pc \in {"swept", "priced"}
     \/ /\ creates[c].pc = "locked"
        /\ \E d \in Days : CoversNight(creates[c], d) /\ calendar[d] = "blocked"
     \/ creates[c].pc = "unblocked" /\ Conflict(c)
  /\ creates' = [creates EXCEPT ![c].pc = "refused"]
  /\ UNCHANGED <<tableVars, cancels>>

\* A check throws and the transaction rolls back, releasing the lock; before the
\* transaction the request just fails.  Pricing and the account, host and capacity
\* checks of the transaction depend on data left out here and may refuse any request.
RefuseHold(c) ==
  /\ \/ creates[c].pc \in {"swept", "priced"}
     \/ /\ creates[c].pc = "locked"
        /\ \E d \in Days : CoversNight(creates[c], d) /\ calendar[d] = "blocked"
     \/ creates[c].pc = "unblocked" /\ Conflict(c)
  /\ creates' = [creates EXCEPT ![c].pc = "refused"]
  /\ lock' = IF lock = c THEN NoBooking ELSE lock
  /\ UNCHANGED <<clockVars, rowVars, providerVars, cancels>>

\* The transaction exceeds its 15 s, loses its connection or dies with the server.
AbortHold(c) ==
  /\ creates[c].pc \in InCritical \cup {"opened"}
  /\ creates' = [creates EXCEPT ![c].pc = "refused"]
  /\ lock' = IF lock = c THEN NoBooking ELSE lock
  /\ UNCHANGED <<clockVars, rowVars, providerVars, cancels>>

\* The steps the server takes for a request without a fault.
CreateStep(c) ==
  \/ Price(c)
  \/ OpenTransaction(c)
  \/ LockProperty(c)
  \/ CheckBlockedDates(c)
  \/ CheckOverlap(c)
  \/ InsertHold(c)
  \/ CommitHold(c)
  \/ RefuseHold(c)

------------------------------------------------------------------------------
(***************************************************************************)
(* cancelBooking: one read, then one unconditional update.                 *)
(***************************************************************************)

\* daysBefore is the number of days left until check-in.
RefundPercent(policy, daysBefore) ==
  CASE policy = "FLEXIBLE" -> IF daysBefore >= 1 THEN 100 ELSE 50
    [] policy = "MODERATE" -> IF daysBefore >= 5 THEN 100 ELSE IF daysBefore >= 2 THEN 50 ELSE 0
    [] policy = "STRICT"   -> IF daysBefore >= 14 THEN 100 ELSE IF daysBefore >= 7 THEN 50 ELSE 0

\* The refund is computed from the payment and the property's policy as read.
ReadToCancel(x) ==
  /\ cancels[x].pc = "idle"
  /\ \E b \in Booking :
       /\ Exists(b)
       /\ cancels' = [cancels EXCEPT ![x] =
            [pc |-> IF bookings[b].status \in {"CANCELLED", "COMPLETED"} THEN "refused" ELSE "read",
             booking |-> b,
             refundPct |-> IF payments[b].status = "SUCCESS"
                             THEN RefundPercent(property.policy, bookings[b].checkIn - today)
                             ELSE 0]]
  /\ UNCHANGED <<tableVars, creates>>

WriteCancel(x) ==
  /\ cancels[x].pc = "read"
  /\ cancels' = [cancels EXCEPT ![x].pc = "done"]
  /\ bookings' = [bookings EXCEPT ![cancels[x].booking] =
       [@ EXCEPT !.status = "CANCELLED", !.cancelled = TRUE, !.refundPct = cancels[x].refundPct]]
  /\ UNCHANGED <<clockVars, property, calendar, payments, refunds, lock,
                 providerVars, creates>>

------------------------------------------------------------------------------
BookingServiceNext ==
  \/ CompleteStays
  \/ \E c \in Booking : Sweep(c) \/ CreateStep(c) \/ AbortHold(c)
  \/ \E x \in Cancels : ReadToCancel(x) \/ WriteCancel(x)

==============================================================================
