---------------------------- MODULE BookingProofs ----------------------------
(***************************************************************************)
(* Theorems about the booking core, for every set of requests, stays and   *)
(* keys, every hold length and every calendar.                             *)
(***************************************************************************)
EXTENDS BookingInvariants, TLAPS

(***************************************************************************)
(* Rows and requests keep their types when some of their fields are        *)
(* written.                                                                *)
(***************************************************************************)

\* A booking row with another status is a booking row.
LEMMA StatusWritten ==
  ASSUME NEW r \in BookingRow, NEW s \in ReachableStatus
  PROVE  [r EXCEPT !.status = s] \in BookingRow
BY DEF BookingRow, ReachableStatus

\* So is one that is released by the sweep or by the worker.
LEMMA RowReleased ==
  ASSUME NEW r \in BookingRow, NEW s \in ReachableStatus
  PROVE  [r EXCEPT !.status = s, !.cancelled = TRUE] \in BookingRow
BY DEF BookingRow, ReachableStatus

\* So is a table of bookings of which one is cancelled with a refund.
LEMMA TableCancelled ==
  ASSUME NEW f \in [Booking -> BookingRow], NEW b \in Booking, NEW n \in {0, 50, 100}
  PROVE  [f EXCEPT ![b] = [@ EXCEPT !.status = "CANCELLED", !.cancelled = TRUE,
                                    !.refundPct = n]] \in [Booking -> BookingRow]
<1>1. f[b] \in BookingRow
  OBVIOUS
<1>2. [f[b] EXCEPT !.status = "CANCELLED", !.cancelled = TRUE, !.refundPct = n] \in BookingRow
  BY <1>1 DEF BookingRow, ReachableStatus
<1>3. QED
  BY <1>2

\* The guest's cancellation keeps the table of bookings one.
LEMMA CancelTyped ==
  ASSUME bookings \in [Booking -> BookingRow], cancels \in [Cancels -> CancelRequest],
         NEW x \in Cancels, cancels[x].booking \in Booking, WriteCancel(x)
  PROVE  bookings' \in [Booking -> BookingRow]
<1>1. cancels[x].refundPct \in {0, 50, 100}
  BY DEF CancelRequest
<1>2. bookings[cancels[x].booking] \in BookingRow
  OBVIOUS
<1>3. [bookings[cancels[x].booking] EXCEPT !.status = "CANCELLED", !.cancelled = TRUE,
                                           !.refundPct = cancels[x].refundPct] \in BookingRow
  BY <1>1, <1>2 DEF BookingRow, ReachableStatus
<1>4. QED
  BY <1>3 DEF WriteCancel

\* A creation request that takes a stay, or fixes a time, is a creation request.
LEMMA RequestWritten ==
  ASSUME NEW r \in CreateRequest, NEW m \in Nat, NEW n \in Nat
  PROVE  /\ [r EXCEPT !.pc = "swept", !.checkIn = m, !.checkOut = n] \in CreateRequest
         /\ [r EXCEPT !.pc = "priced", !.expiresAt = n] \in CreateRequest
         /\ [r EXCEPT !.pc = "inserted", !.createdAt = n] \in CreateRequest
BY DEF CreateRequest, CreatePc

\* A counter of a booking that is counted up stays a counter.
LEMMA CountedUp ==
  ASSUME NEW f \in [Booking -> Nat], NEW b \in Booking
  PROVE  [f EXCEPT ![b] = @ + 1] \in [Booking -> Nat]
OBVIOUS

\* A payment request that has arrived and moves on keeps its type.
LEMMA PayGotoTyped ==
  ASSUME NEW p \in Pays, NEW from \in PayPc \ {"idle"}, NEW to \in PayPc,
         PaymentServiceTypeOK, PayGoto(p, from, to)
  PROVE  PaymentServiceTypeOK'
BY DEF PaymentServiceTypeOK, PayGoto, PayRequest

(***************************************************************************)
(* Type correctness.                                                       *)
(***************************************************************************)

\* The first state has the types of the rows and requests.
LEMMA InitTyped == Init => TypeOK
BY HostAssumption
   DEF TypeOK, TablesTypeOK, BookingServiceTypeOK, PaymentServiceTypeOK,
       AvailabilityServiceTypeOK, AdminBookingsTypeOK,
       Init, TablesInit, BookingServiceInit, PaymentServiceInit, AvailabilityServiceInit,
       AdminBookingsInit, AbsentBooking, AbsentPayment, BookingRow, PaymentRow,
       CreateRequest, CreatePc, CancelRequest, PayRequest, PayPc, DateEdit, AdminCancel

\* Every step keeps the types of the rows and requests.
LEMMA TypeKept ==
  ASSUME TypeOK, [Next]_vars
  PROVE  TypeOK'
<1> USE DEF TypeOK, TablesTypeOK, BookingServiceTypeOK, PaymentServiceTypeOK,
            AvailabilityServiceTypeOK, AdminBookingsTypeOK,
            tableVars, clockVars, rowVars, providerVars, bookingServiceVars
<1>1. ASSUME BookingServiceNext, UNCHANGED <<pays, dateEdits, adminCancels>>
      PROVE  TypeOK'
  <2> USE <1>1
  <2>1. CASE CompleteStays
    BY <2>1, StatusWritten DEF CompleteStays, ReachableStatus
  <2>2. ASSUME NEW c \in Booking, Sweep(c)
        PROVE  TypeOK'
    <3>1. bookings' \in [Booking -> BookingRow]
      BY <2>2, RowReleased DEF Sweep, AfterSweep, ReachableStatus
    <3>2. creates' \in [Booking -> CreateRequest]
      <4>1. PICK s \in Stays :
              creates' = [creates EXCEPT ![c] = [@ EXCEPT !.pc = "swept",
                                          !.checkIn = s.checkIn, !.checkOut = s.checkOut]]
        BY <2>2 DEF Sweep
      <4>2. s.checkIn \in Nat /\ s.checkOut \in Nat
        BY StaysAssumption
      <4>3. QED
        BY <4>1, <4>2, RequestWritten
    <3>3. QED
      BY <2>2, <3>1, <3>2 DEF Sweep
  <2>3. ASSUME NEW c \in Booking, CreateStep(c)
        PROVE  TypeOK'
    <3>1. CASE Price(c)
      <4>1. now + HoldTime \in Nat
        BY TimeAssumption
      <4>2. QED
        BY <3>1, <4>1, RequestWritten DEF Price
    <3>2. CASE OpenTransaction(c)
      BY <3>2, SMTT(30) DEF OpenTransaction, CreateGoto, CreateRequest, CreatePc
    <3>3. CASE LockProperty(c)
      BY <3>3 DEF LockProperty, CreateGoto, CreateRequest, CreatePc
    <3>4. CASE CheckBlockedDates(c)
      BY <3>4 DEF CheckBlockedDates, CreateGoto, CreateRequest, CreatePc
    <3>5. CASE CheckOverlap(c)
      BY <3>5 DEF CheckOverlap, CreateGoto, CreateRequest, CreatePc
    <3>6. CASE InsertHold(c)
      BY <3>6, RequestWritten DEF InsertHold
    <3>7. CASE CommitHold(c)
      BY <3>7 DEF CommitHold, CreateGoto, CreateRequest, CreatePc, BookingRow, ReachableStatus
    <3>8. CASE RefuseHold(c)
      BY <3>8 DEF RefuseHold, CreateRequest, CreatePc
    <3>9. QED
      BY <2>3, <3>1, <3>2, <3>3, <3>4, <3>5, <3>6, <3>7, <3>8 DEF CreateStep
  <2>4. ASSUME NEW c \in Booking, AbortHold(c)
        PROVE  TypeOK'
    BY <2>4 DEF AbortHold, CreateRequest, CreatePc
  <2>5. ASSUME NEW x \in Cancels, ReadToCancel(x)
        PROVE  TypeOK'
    BY <2>5, HostAssumption DEF ReadToCancel, RefundPercent, CancelRequest
  <2>6. ASSUME NEW x \in Cancels, WriteCancel(x)
        PROVE  TypeOK'
    <3>1. bookings' \in [Booking -> BookingRow]
      <4>1. cancels[x].booking \in Booking
        BY <2>6 DEF WriteCancel
      <4>2. QED
        BY <2>6, <4>1, CancelTyped
    <3>2. [cancels[x] EXCEPT !.pc = "done"] \in CancelRequest
      BY DEF CancelRequest
    <3>3. cancels' = [cancels EXCEPT ![x] = [cancels[x] EXCEPT !.pc = "done"]]
      BY <2>6 DEF WriteCancel
    <3>4. cancels' \in [Cancels -> CancelRequest]
      BY <3>2, <3>3
    <3>5. \A y \in Cancels : cancels'[y].pc # "idle" => cancels'[y].booking \in Booking
      BY <2>6, <3>3 DEF WriteCancel, CancelRequest
    <3>6. QED
      BY <2>6, <3>1, <3>4, <3>5 DEF WriteCancel
  <2>7. QED
    BY <2>1, <2>2, <2>3, <2>4, <2>5, <2>6 DEF BookingServiceNext
<1>2. ASSUME PaymentServiceNext, UNCHANGED <<bookingServiceVars, dateEdits, adminCancels>>
      PROVE  TypeOK'
  <2> USE <1>2
  <2>1. ASSUME NEW p \in Pays, ReadToPay(p)
        PROVE  TypeOK'
    BY <2>1 DEF ReadToPay, PayRequest, PayPc
  <2>2. ASSUME NEW p \in Pays, WriteLapsed(p)
        PROVE  TypeOK'
    <3>1. bookings' \in [Booking -> BookingRow]
      BY <2>2, StatusWritten DEF WriteLapsed, ReachableStatus
    <3>2. PaymentServiceTypeOK'
      BY <2>2, PayGotoTyped DEF WriteLapsed, PayPc
    <3>3. QED
      BY <2>2, <3>1, <3>2 DEF WriteLapsed
  <2>3. ASSUME NEW p \in Pays, LookUpKey(p)
        PROVE  TypeOK'
    BY <2>3 DEF LookUpKey, PayGoto, PayRequest, PayPc
  <2>4. ASSUME NEW p \in Pays, PushMpesa(p)
        PROVE  TypeOK'
    <3>1. payments' \in [Booking -> PaymentRow]
      BY <2>4 DEF PushMpesa, PaymentRow, PayRequest
    <3>2. PaymentServiceTypeOK'
      BY <2>4, PayGotoTyped DEF PushMpesa, PayPc
    <3>3. QED
      BY <2>4, <3>1, <3>2 DEF PushMpesa, PayGoto
  <2>5. ASSUME NEW p \in Pays, ChargeCard(p)
        PROVE  TypeOK'
    <3>1. charges' \in [Booking -> Nat]
      BY <2>5, CountedUp DEF ChargeCard, PayGoto
    <3>2. PaymentServiceTypeOK'
      BY <2>5, PayGotoTyped DEF ChargeCard, PayPc
    <3>3. QED
      BY <2>5, <3>1, <3>2 DEF ChargeCard, PayGoto
  <2>6. ASSUME NEW p \in Pays, SettleCard(p)
        PROVE  TypeOK'
    <3>1. bookings' \in [Booking -> BookingRow]
      BY <2>6, StatusWritten DEF SettleCard, ReachableStatus
    <3>2. payments' \in [Booking -> PaymentRow]
      BY <2>6 DEF SettleCard, PaymentRow, PayRequest
    <3>3. PaymentServiceTypeOK'
      BY <2>6, PayGotoTyped DEF SettleCard, PayPc
    <3>4. QED
      BY <2>6, <3>1, <3>2, <3>3 DEF SettleCard
  <2>7. ASSUME NEW p \in Pays, FailPayment(p)
        PROVE  TypeOK'
    BY <2>7, SMTT(30) DEF FailPayment, PayRequest, PayPc
  <2>8. ASSUME NEW b \in Booking, Webhook(b) \/ PostEvent(b)
        PROVE  TypeOK'
    <3>1. ProcessWebhook(b) /\ events' \subseteq Booking /\ posted' \subseteq Booking
      BY <2>8 DEF Webhook, PostEvent
    <3>2. bookings' \in [Booking -> BookingRow]
      BY <3>1, StatusWritten DEF ProcessWebhook, ReachableStatus
    <3>3. payments' \in [Booking -> PaymentRow]
      BY <3>1 DEF ProcessWebhook, PaymentRow
    <3>4. QED
      BY <3>1, <3>2, <3>3 DEF ProcessWebhook
  <2>9. QED
    BY <2>1, <2>2, <2>3, <2>4, <2>5, <2>6, <2>7, <2>8 DEF PaymentServiceNext, PayStep
<1>3. ASSUME AvailabilityServiceNext, UNCHANGED <<bookingServiceVars, pays, adminCancels>>
      PROVE  TypeOK'
  <2> USE <1>3
  <2>1. ASSUME NEW e \in DateEdits, CheckDate(e)
        PROVE  TypeOK'
    BY <2>1 DEF CheckDate, DateEdit
  <2>2. ASSUME NEW e \in DateEdits, WriteDate(e)
        PROVE  TypeOK'
    <3>1. \A row \in {"none", "open", "blocked"} :
            Edited(row, dateEdits[e].edit) \in {"none", "open", "blocked"}
      BY DEF Edited, DateEdit
    <3>2. calendar' \in [Days -> {"none", "open", "blocked"}]
      BY <2>2, <3>1 DEF WriteDate
    <3>3. dateEdits' \in [DateEdits -> DateEdit]
      BY <2>2 DEF WriteDate, DateEdit
    <3>4. QED
      BY <2>2, <3>2, <3>3 DEF WriteDate
  <2>3. QED
    BY <2>1, <2>2 DEF AvailabilityServiceNext
<1>4. ASSUME AdminBookingsNext, UNCHANGED <<bookingServiceVars, pays, dateEdits>>
      PROVE  TypeOK'
  <2> USE <1>4
  <2>1. ASSUME NEW a \in AdminCancels, ReadToAdminCancel(a)
        PROVE  TypeOK'
    BY <2>1 DEF ReadToAdminCancel, AdminCancel
  <2>2. ASSUME NEW a \in AdminCancels, WriteAdminCancel(a)
        PROVE  TypeOK'
    <3>1. bookings' \in [Booking -> BookingRow]
      BY <2>2, TableCancelled DEF WriteAdminCancel
    <3>2. payments' \in [Booking -> PaymentRow]
      BY <2>2, SMTT(30) DEF WriteAdminCancel, PaymentRow
    <3>3. refunds' \in [Booking -> Nat]
      BY <2>2, CountedUp DEF WriteAdminCancel
    <3>4. adminCancels' \in [AdminCancels -> AdminCancel]
      BY <2>2 DEF WriteAdminCancel, AdminCancel
    <3>5. QED
      BY <2>2, <3>1, <3>2, <3>3, <3>4 DEF WriteAdminCancel
  <2>3. CASE ExpiryJob
    BY <2>3, RowReleased DEF ExpiryJob, ReachableStatus
  <2>4. QED
    BY <2>1, <2>2, <2>3 DEF AdminBookingsNext
<1>5. ASSUME Tick \/ HostEditsProperty,
             UNCHANGED <<bookingServiceVars, pays, dateEdits, adminCancels>>
      PROVE  TypeOK'
  BY <1>5 DEF Tick, HostEditsProperty
<1>6. CASE UNCHANGED vars
  BY <1>6 DEF vars
<1>7. QED
  BY <1>1, <1>2, <1>3, <1>4, <1>5, <1>6 DEF Next

\* Every state of the core has the types of its rows and requests; in particular a
\* booking's status is one of the five values some code path writes.
THEOREM TypeCorrect == Spec => []TypeOK
BY InitTyped, TypeKept, PTL DEF Spec

(***************************************************************************)
(* What a step does to one row.                                            *)
(***************************************************************************)

\* Every step of the system either commits the booking b or moves its row in one of
\* the ways of RowMoves.
LEMMA RowStep ==
  ASSUME HoldInv, [Next]_vars, NEW b \in Booking
  PROVE  RowMoves(b) \/ CommitHold(b)
<1> USE DEF HoldInv
<1>t. bookings \in [Booking -> BookingRow]
  BY DEF TypeOK, TablesTypeOK
<1>f. ASSUME UNCHANGED bookings
      PROVE  RowMoves(b)
  BY <1>f DEF RowMoves, KeepsRow
<1>1. ASSUME BookingServiceNext
      PROVE  RowMoves(b) \/ CommitHold(b)
  <2>1. CASE CompleteStays
    BY <1>t, <2>1 DEF CompleteStays, StayOver, RowMoves, KeepsRow, BookingRow
  <2>2. ASSUME NEW c \in Booking, Sweep(c)
        PROVE  RowMoves(b)
    <3>1. bookings'[b] = IF Abandoned(b)
                           THEN [bookings[b] EXCEPT !.status = "EXPIRED", !.cancelled = TRUE]
                           ELSE bookings[b]
      BY <2>2 DEF Sweep, AfterSweep
    <3>2. Abandoned(b) => bookings[b].status # "ABSENT"
      BY DEF Abandoned
    <3>3. QED
      BY <1>t, <3>1, <3>2 DEF RowMoves, KeepsRow, BookingRow
  <2>3. ASSUME NEW c \in Booking, CreateStep(c)
        PROVE  RowMoves(b) \/ CommitHold(b)
    <3>1. CASE CommitHold(c) /\ c # b
      BY <1>t, <3>1 DEF CommitHold, RowMoves, KeepsRow
    <3>2. CASE ~CommitHold(c)
      BY <1>f, <2>3, <3>2 DEF CreateStep, Price, OpenTransaction, LockProperty,
         CheckBlockedDates, CheckOverlap, InsertHold, RefuseHold, tableVars, rowVars
    <3>3. QED
      BY <3>1, <3>2
  <2>4. ASSUME NEW c \in Booking, AbortHold(c)
        PROVE  RowMoves(b)
    BY <1>f, <2>4 DEF AbortHold, rowVars
  <2>5. ASSUME NEW x \in Cancels, ReadToCancel(x)
        PROVE  RowMoves(b)
    BY <1>f, <2>5 DEF ReadToCancel, tableVars, rowVars
  <2>6. ASSUME NEW x \in Cancels, WriteCancel(x)
        PROVE  RowMoves(b)
    <3>1. Exists(cancels[x].booking)
      BY <2>6 DEF WriteCancel, TargetsExist
    <3>2. QED
      BY <1>t, <2>6, <3>1 DEF WriteCancel, RowMoves, KeepsRow, BookingRow, Exists
  <2>7. QED
    BY <1>1, <2>1, <2>2, <2>3, <2>4, <2>5, <2>6 DEF BookingServiceNext
<1>2. ASSUME PaymentServiceNext
      PROVE  RowMoves(b)
  <2>1. ASSUME NEW p \in Pays, WriteLapsed(p)
        PROVE  RowMoves(b)
    <3>1. Exists(pays[p].booking) /\ Released(bookings[pays[p].booking])
      BY <2>1 DEF WriteLapsed, PayGoto, TargetsExist, LapsedReads
    <3>2. QED
      BY <1>t, <2>1, <3>1 DEF WriteLapsed, RowMoves, KeepsRow, BookingRow, Exists
  <2>2. ASSUME NEW p \in Pays, SettleCard(p)
        PROVE  RowMoves(b)
    <3>1. Exists(pays[p].booking)
      BY <2>2 DEF SettleCard, PayGoto, TargetsExist
    <3>2. QED
      BY <1>t, <2>2, <3>1 DEF SettleCard, RowMoves, KeepsRow, BookingRow, Exists
  <2>3. ASSUME NEW e \in Booking, Webhook(e) \/ PostEvent(e)
        PROVE  RowMoves(b)
    <3>1. ProcessWebhook(e)
      BY <2>3 DEF Webhook, PostEvent
    <3>2. QED
      BY <1>t, <3>1 DEF ProcessWebhook, RowMoves, KeepsRow, BookingRow, Exists
  <2>4. ASSUME NEW p \in Pays,
               ReadToPay(p) \/ LookUpKey(p) \/ PushMpesa(p) \/ ChargeCard(p) \/ FailPayment(p)
        PROVE  RowMoves(b)
    BY <1>f, <2>4 DEF ReadToPay, LookUpKey, PushMpesa, ChargeCard, FailPayment,
       tableVars, rowVars
  <2>5. QED
    BY <1>2, <2>1, <2>2, <2>3, <2>4 DEF PaymentServiceNext, PayStep
<1>3. ASSUME AvailabilityServiceNext
      PROVE  RowMoves(b)
  BY <1>f, <1>3 DEF AvailabilityServiceNext, CheckDate, WriteDate, tableVars, rowVars
<1>4. ASSUME AdminBookingsNext
      PROVE  RowMoves(b)
  <2>1. ASSUME NEW a \in AdminCancels, ReadToAdminCancel(a)
        PROVE  RowMoves(b)
    BY <1>f, <2>1 DEF ReadToAdminCancel, tableVars, rowVars
  <2>2. ASSUME NEW a \in AdminCancels, WriteAdminCancel(a)
        PROVE  RowMoves(b)
    <3>1. Exists(adminCancels[a].booking)
      BY <2>2 DEF WriteAdminCancel, TargetsExist
    <3>2. QED
      BY <1>t, <2>2, <3>1 DEF WriteAdminCancel, RowMoves, KeepsRow, BookingRow, Exists
  <2>3. CASE ExpiryJob
    <3>1. bookings'[b] = IF UnconfirmedTooLong(bookings[b])
                           THEN [bookings[b] EXCEPT !.status = "CANCELLED", !.cancelled = TRUE]
                           ELSE bookings[b]
      BY <2>3 DEF ExpiryJob
    <3>2. UnconfirmedTooLong(bookings[b]) => bookings[b].status # "ABSENT"
      BY DEF UnconfirmedTooLong
    <3>3. QED
      BY <1>t, <3>1, <3>2 DEF RowMoves, KeepsRow, BookingRow
  <2>4. QED
    BY <1>4, <2>1, <2>2, <2>3 DEF AdminBookingsNext
<1>5. ASSUME Tick \/ HostEditsProperty
      PROVE  RowMoves(b)
  BY <1>f, <1>5 DEF Tick, HostEditsProperty, rowVars
<1>6. CASE UNCHANGED vars
  BY <1>f, <1>6 DEF vars, tableVars, rowVars
<1>7. QED
  BY <1>1, <1>2, <1>3, <1>4, <1>5, <1>6 DEF Next

(***************************************************************************)
(* What a step does to creation requests, the lock and the clocks.         *)
(***************************************************************************)

\* Creation requests and the lock change only by steps of createBooking.
LEMMA RequestStep ==
  ASSUME [Next]_vars
  PROVE  \/ creates' = creates /\ lock' = lock
         \/ \E c \in Booking : Sweep(c) \/ CreateStep(c) \/ AbortHold(c)
<1>1. ASSUME BookingServiceNext
      PROVE  \/ creates' = creates /\ lock' = lock
             \/ \E c \in Booking : Sweep(c) \/ CreateStep(c) \/ AbortHold(c)
  BY <1>1 DEF BookingServiceNext, CompleteStays, ReadToCancel, WriteCancel, tableVars,
     bookingServiceVars
<1>2. ASSUME PaymentServiceNext, UNCHANGED bookingServiceVars
      PROVE  creates' = creates /\ lock' = lock
  BY <1>2 DEF PaymentServiceNext, PayStep, ReadToPay, WriteLapsed, LookUpKey, PushMpesa,
     ChargeCard, SettleCard, FailPayment, Webhook, PostEvent, ProcessWebhook, tableVars,
      bookingServiceVars
<1>3. ASSUME AvailabilityServiceNext, UNCHANGED bookingServiceVars
      PROVE  creates' = creates /\ lock' = lock
  BY <1>3 DEF AvailabilityServiceNext, CheckDate, WriteDate, tableVars, bookingServiceVars
<1>4. ASSUME AdminBookingsNext, UNCHANGED bookingServiceVars
      PROVE  creates' = creates /\ lock' = lock
  BY <1>4 DEF AdminBookingsNext, ReadToAdminCancel, WriteAdminCancel, ExpiryJob, tableVars,
     bookingServiceVars
<1>5. ASSUME Tick \/ HostEditsProperty, UNCHANGED bookingServiceVars
      PROVE  creates' = creates /\ lock' = lock
  BY <1>5 DEF Tick, HostEditsProperty, bookingServiceVars
<1>6. ASSUME UNCHANGED vars
      PROVE  creates' = creates /\ lock' = lock
  BY <1>6 DEF vars, tableVars, bookingServiceVars
<1>7. QED
  BY <1>1, <1>2, <1>3, <1>4, <1>5, <1>6 DEF Next

\* The clocks never run backwards, and run only in steps that leave rows alone.
LEMMA ClockStep ==
  ASSUME TypeOK, [Next]_vars
  PROVE  \/ now' = now /\ today' = today
         \/ now' = now + 1 /\ today' \in {today, today + 1} /\ UNCHANGED bookings
<1>1. ASSUME BookingServiceNext
      PROVE  now' = now /\ today' = today
  <2>1. ASSUME NEW c \in Booking, CreateStep(c)
        PROVE  now' = now /\ today' = today
    BY <2>1 DEF CreateStep, Price, OpenTransaction, LockProperty, CheckBlockedDates,
       CheckOverlap, InsertHold, CommitHold, RefuseHold, tableVars, clockVars
  <2>2. QED
    BY <1>1, <2>1 DEF BookingServiceNext, CompleteStays, Sweep, AbortHold, ReadToCancel,
       WriteCancel, tableVars, clockVars
<1>2. ASSUME PaymentServiceNext
      PROVE  now' = now /\ today' = today
  BY <1>2 DEF PaymentServiceNext, PayStep, ReadToPay, WriteLapsed, LookUpKey, PushMpesa,
     ChargeCard, SettleCard, FailPayment, Webhook, PostEvent, ProcessWebhook, tableVars, clockVars
<1>3. ASSUME AvailabilityServiceNext
      PROVE  now' = now /\ today' = today
  BY <1>3 DEF AvailabilityServiceNext, CheckDate, WriteDate, tableVars, clockVars
<1>4. ASSUME AdminBookingsNext
      PROVE  now' = now /\ today' = today
  BY <1>4 DEF AdminBookingsNext, ReadToAdminCancel, WriteAdminCancel, ExpiryJob, tableVars,
     clockVars
<1>5. ASSUME UNCHANGED vars
      PROVE  now' = now /\ today' = today
  BY <1>5 DEF vars, tableVars, clockVars
<1>6. QED
  BY <1>1, <1>2, <1>3, <1>4, <1>5 DEF Next, Tick, HostEditsProperty, rowVars, clockVars

(***************************************************************************)
(* The parts of the invariant, one lemma each.                             *)
(***************************************************************************)

\* The lock is held by exactly the transaction in its critical section.
LEMMA LockAgreesKept ==
  ASSUME HoldInv, [Next]_vars
  PROVE  LockAgrees'
<1> USE DEF HoldInv, LockAgrees, InCritical
<1>t. creates \in [Booking -> CreateRequest] /\ NoBooking \notin Booking
  BY NamesAssumption DEF TypeOK, BookingServiceTypeOK
<1>1. ASSUME NEW c \in Booking, Sweep(c)
      PROVE  LockAgrees'
  BY <1>t, <1>1 DEF Sweep, CreateRequest
<1>2. ASSUME NEW c \in Booking, CreateStep(c)
      PROVE  LockAgrees'
  <2>1. CASE Price(c)
    BY <1>t, <2>1 DEF Price, CreateRequest, tableVars
  <2>2. CASE OpenTransaction(c)
    BY <1>t, <2>2 DEF OpenTransaction, CreateGoto, CreateRequest, tableVars
  <2>3. CASE LockProperty(c)
    BY <1>t, <2>3 DEF LockProperty, CreateGoto, CreateRequest
  <2>4. CASE CheckBlockedDates(c)
    BY <1>t, <2>4 DEF CheckBlockedDates, CreateGoto, CreateRequest, tableVars
  <2>5. CASE CheckOverlap(c)
    BY <1>t, <2>5 DEF CheckOverlap, CreateGoto, CreateRequest, tableVars
  <2>6. CASE InsertHold(c)
    BY <1>t, <2>6 DEF InsertHold, CreateRequest, tableVars
  <2>7. CASE CommitHold(c)
    BY <1>t, <2>7 DEF CommitHold, CreateGoto, CreateRequest
  <2>8. CASE RefuseHold(c)
    BY <1>t, <2>8 DEF RefuseHold, CreateRequest
  <2>9. QED
    BY <1>2, <2>1, <2>2, <2>3, <2>4, <2>5, <2>6, <2>7, <2>8 DEF CreateStep
<1>3. ASSUME NEW c \in Booking, AbortHold(c)
      PROVE  LockAgrees'
  BY <1>t, <1>3 DEF AbortHold, CreateRequest
<1>4. CASE creates' = creates /\ lock' = lock
  BY <1>4
<1>5. QED
  BY <1>1, <1>2, <1>3, <1>4, RequestStep

\* Where one creation request stands in the next state, and where it came from.
LEMMA RequestOrigin ==
  ASSUME HoldInv, [Next]_vars, NEW b \in Booking
  PROVE  /\ creates'[b].pc = "done" => creates[b].pc = "done" \/ CommitHold(b)
         /\ creates[b].pc = "done" => creates'[b].pc = "done"
         /\ creates'[b].pc \in {"clear", "inserted"}
              => /\ creates'[b].checkIn = creates[b].checkIn
                 /\ creates'[b].checkOut = creates[b].checkOut
                 /\ creates[b].pc \in {"clear", "inserted"} \/ CheckOverlap(b)
         /\ creates'[b].pc \in {"priced", "opened"} \cup InCritical
              => \/ Price(b)
                 \/ /\ creates[b].pc \in {"priced", "opened"} \cup InCritical
                    /\ creates'[b].expiresAt = creates[b].expiresAt
         /\ creates'[b].pc = "inserted"
              => \/ InsertHold(b)
                 \/ creates[b].pc = "inserted" /\ creates'[b] = creates[b]
<1> USE DEF HoldInv, InCritical
<1>t. creates \in [Booking -> CreateRequest]
  BY DEF TypeOK, BookingServiceTypeOK
<1>1. ASSUME NEW c \in Booking, c # b, Sweep(c) \/ CreateStep(c) \/ AbortHold(c)
      PROVE  creates'[b] = creates[b]
  BY <1>t, <1>1 DEF Sweep, CreateStep, AbortHold, Price, OpenTransaction, LockProperty,
     CheckBlockedDates, CheckOverlap, InsertHold, CommitHold, RefuseHold, CreateGoto
<1>2. CASE Sweep(b)
  BY <1>t, <1>2 DEF Sweep, CreateRequest
<1>3. CASE CreateStep(b)
  <2>1. CASE Price(b)
    BY <1>t, <2>1 DEF Price, CreateRequest
  <2>2. CASE OpenTransaction(b)
    BY <1>t, <2>2 DEF OpenTransaction, CreateGoto, CreateRequest
  <2>3. CASE LockProperty(b)
    BY <1>t, <2>3 DEF LockProperty, CreateGoto, CreateRequest
  <2>4. CASE CheckBlockedDates(b)
    BY <1>t, <2>4 DEF CheckBlockedDates, CreateGoto, CreateRequest
  <2>5. CASE CheckOverlap(b)
    BY <1>t, <2>5 DEF CheckOverlap, CreateGoto, CreateRequest
  <2>6. CASE InsertHold(b)
    BY <1>t, <2>6 DEF InsertHold, CreateRequest, tableVars
  <2>7. CASE CommitHold(b)
    BY <1>t, <2>7 DEF CommitHold, CreateGoto, CreateRequest
  <2>8. CASE RefuseHold(b)
    BY <1>t, <2>8 DEF RefuseHold, CreateRequest
  <2>9. QED
    BY <1>3, <2>1, <2>2, <2>3, <2>4, <2>5, <2>6, <2>7, <2>8 DEF CreateStep
<1>4. CASE AbortHold(b)
  BY <1>t, <1>4 DEF AbortHold, CreateRequest
<1>5. CASE creates'[b] = creates[b]
  BY <1>5
<1>6. QED
  BY <1>1, <1>2, <1>3, <1>4, <1>5, RequestStep

\* A row is there exactly when its creation request committed.
LEMMA RowPerCommitKept ==
  ASSUME HoldInv, [Next]_vars
  PROVE  RowPerCommit'
<1> SUFFICES ASSUME NEW b \in Booking
             PROVE  Exists(b)' <=> creates'[b].pc = "done"
  BY DEF RowPerCommit
<1>1. CASE CommitHold(b)
  <2>1. Exists(b)'
    BY <1>1 DEF HoldInv, TypeOK, TablesTypeOK, CommitHold, Exists
  <2>2. creates'[b].pc = "done"
    BY <1>1 DEF HoldInv, TypeOK, BookingServiceTypeOK, CommitHold, CreateGoto, CreateRequest
  <2>3. QED
    BY <2>1, <2>2
<1>2. CASE ~CommitHold(b)
  <2>1. RowMoves(b)
    BY <1>2, RowStep
  <2>2. creates'[b].pc = "done" <=> creates[b].pc = "done"
    BY <1>2, RequestOrigin
  <2>3. QED
    BY <2>1, <2>2 DEF RowMoves, KeepsRow, HoldInv, RowPerCommit, Exists
<1>3. QED
  BY <1>1, <1>2

\* A recorded booking stays recorded.
LEMMA ExistsKept ==
  ASSUME HoldInv, [Next]_vars, NEW b \in Booking, Exists(b)
  PROVE  Exists(b)'
BY RowPerCommitKept, RequestOrigin DEF HoldInv, RowPerCommit

\* Only its own handler moves a cancellation, a payment request or an administrator's
\* cancellation, and only a card charge or a webhook touches the events in flight.
LEMMA OtherRequests ==
  ASSUME [Next]_vars
  PROVE  /\ \/ cancels' = cancels
            \/ \E x \in Cancels : ReadToCancel(x) \/ WriteCancel(x)
         /\ \/ pays' = pays
            \/ \E p \in Pays : ReadToPay(p) \/ PayStep(p) \/ FailPayment(p)
         /\ \/ adminCancels' = adminCancels
            \/ \E a \in AdminCancels : ReadToAdminCancel(a) \/ WriteAdminCancel(a)
         /\ \/ events' = events
            \/ \E p \in Pays : ChargeCard(p)
            \/ \E b \in Booking : Webhook(b)
<1>1. ASSUME BookingServiceNext, UNCHANGED <<pays, dateEdits, adminCancels>>
      PROVE  /\ cancels' = cancels \/ \E x \in Cancels : ReadToCancel(x) \/ WriteCancel(x)
             /\ pays' = pays /\ adminCancels' = adminCancels /\ events' = events
  <2>1. ASSUME NEW c \in Booking, CreateStep(c)
        PROVE  cancels' = cancels /\ events' = events
    BY <2>1 DEF CreateStep, Price, OpenTransaction, LockProperty, CheckBlockedDates,
       CheckOverlap, InsertHold, CommitHold, RefuseHold, tableVars, providerVars
  <2>2. QED
    BY <1>1, <2>1 DEF BookingServiceNext, CompleteStays, Sweep, AbortHold, ReadToCancel,
       WriteCancel, tableVars, providerVars, bookingServiceVars
<1>2. ASSUME PaymentServiceNext, UNCHANGED <<bookingServiceVars, dateEdits, adminCancels>>
      PROVE  /\ cancels' = cancels /\ adminCancels' = adminCancels
             /\ pays' = pays \/ \E p \in Pays : ReadToPay(p) \/ PayStep(p) \/ FailPayment(p)
             /\ \/ events' = events
                \/ \E p \in Pays : ChargeCard(p)
                \/ \E b \in Booking : Webhook(b)
  BY <1>2 DEF PaymentServiceNext, PayStep, ReadToPay, WriteLapsed, LookUpKey, PushMpesa,
     SettleCard, FailPayment, Webhook, PostEvent, ProcessWebhook, tableVars, providerVars,
      bookingServiceVars
<1>3. ASSUME AvailabilityServiceNext, UNCHANGED <<bookingServiceVars, pays, adminCancels>>
      PROVE  cancels' = cancels /\ pays' = pays /\ adminCancels' = adminCancels /\ events' = events
  BY <1>3 DEF AvailabilityServiceNext, CheckDate, WriteDate, tableVars, providerVars,
     bookingServiceVars
<1>4. ASSUME AdminBookingsNext, UNCHANGED <<bookingServiceVars, pays, dateEdits>>
      PROVE  /\ cancels' = cancels /\ pays' = pays /\ events' = events
             /\ \/ adminCancels' = adminCancels
                \/ \E a \in AdminCancels : ReadToAdminCancel(a) \/ WriteAdminCancel(a)
  BY <1>4 DEF AdminBookingsNext, ReadToAdminCancel, WriteAdminCancel, ExpiryJob, tableVars,
     providerVars, bookingServiceVars
<1>5. ASSUME Tick \/ HostEditsProperty,
             UNCHANGED <<bookingServiceVars, pays, dateEdits, adminCancels>>
      PROVE  cancels' = cancels /\ pays' = pays /\ adminCancels' = adminCancels /\ events' = events
  BY <1>5 DEF Tick, HostEditsProperty, providerVars, bookingServiceVars
<1>6. CASE UNCHANGED vars
  BY <1>6 DEF vars, tableVars, providerVars, bookingServiceVars
<1>7. QED
  BY <1>1, <1>2, <1>3, <1>4, <1>5, <1>6 DEF Next

\* A payment request keeps its booking once it has one, and finds a hold lapsed only
\* when it reads the row.
LEMMA PayOrigin ==
  ASSUME TypeOK, [Next]_vars, NEW p \in Pays, pays'[p].pc # "idle"
  PROVE  \/ ReadToPay(p)
         \/ /\ pays[p].pc # "idle"
            /\ pays'[p].booking = pays[p].booking
            /\ pays'[p].pc = "lapsed" => pays[p].pc = "lapsed"
<1>t. pays \in [Pays -> PayRequest]
  BY DEF TypeOK, PaymentServiceTypeOK
<1>1. CASE pays'[p] = pays[p]
  BY <1>1
<1>2. CASE PayStep(p)
  BY <1>t, <1>2 DEF PayStep, WriteLapsed, LookUpKey, PushMpesa, ChargeCard, SettleCard,
     PayGoto, PayRequest
<1>3. CASE FailPayment(p)
  BY <1>t, <1>3 DEF FailPayment, PayRequest
<1>4. ASSUME NEW q \in Pays, q # p, ReadToPay(q) \/ PayStep(q) \/ FailPayment(q)
      PROVE  pays'[p] = pays[p]
  BY <1>t, <1>4 DEF ReadToPay, PayStep, FailPayment, WriteLapsed, LookUpKey, PushMpesa,
     ChargeCard, SettleCard, PayGoto
<1>5. QED
  BY <1>1, <1>2, <1>3, <1>4, OtherRequests

\* Requests and events are about recorded bookings.
LEMMA TargetsExistKept ==
  ASSUME HoldInv, [Next]_vars
  PROVE  TargetsExist'
<1>t. TypeOK /\ TargetsExist
  BY DEF HoldInv
<1>e. \A b \in Booking : Exists(b) => Exists(b)'
  BY ExistsKept
<1>1. ASSUME NEW x \in Cancels, cancels'[x].pc # "idle"
      PROVE  \E b \in Booking : Exists(b) /\ cancels'[x].booking = b
  <2> USE <1>t DEF TypeOK, BookingServiceTypeOK, TargetsExist
  <2>1. CASE cancels'[x] = cancels[x]
    BY <1>1, <2>1
  <2>2. CASE ReadToCancel(x)
    BY <2>2 DEF ReadToCancel
  <2>3. CASE WriteCancel(x)
    BY <2>3 DEF WriteCancel, CancelRequest
  <2>4. ASSUME NEW y \in Cancels, y # x, ReadToCancel(y) \/ WriteCancel(y)
        PROVE  cancels'[x] = cancels[x]
    BY <2>4 DEF ReadToCancel, WriteCancel
  <2>5. QED
    BY <2>1, <2>2, <2>3, <2>4, OtherRequests
<1>2. ASSUME NEW p \in Pays, pays'[p].pc # "idle"
      PROVE  \E b \in Booking : Exists(b) /\ pays'[p].booking = b
  <2> USE <1>t DEF TypeOK, PaymentServiceTypeOK, TargetsExist
  <2>1. CASE ReadToPay(p)
    BY <2>1 DEF ReadToPay
  <2>2. CASE ~ReadToPay(p)
    BY <1>2, <2>2, PayOrigin
  <2>3. QED
    BY <2>1, <2>2
<1>3. ASSUME NEW a \in AdminCancels, adminCancels'[a].pc # "idle"
      PROVE  \E b \in Booking : Exists(b) /\ adminCancels'[a].booking = b
  <2> USE <1>t DEF TypeOK, AdminBookingsTypeOK, TargetsExist
  <2>1. CASE adminCancels'[a] = adminCancels[a]
    BY <1>3, <2>1
  <2>2. CASE ReadToAdminCancel(a)
    BY <2>2 DEF ReadToAdminCancel
  <2>3. CASE WriteAdminCancel(a)
    BY <2>3 DEF WriteAdminCancel, AdminCancel
  <2>4. ASSUME NEW y \in AdminCancels, y # a, ReadToAdminCancel(y) \/ WriteAdminCancel(y)
        PROVE  adminCancels'[a] = adminCancels[a]
    BY <2>4 DEF ReadToAdminCancel, WriteAdminCancel
  <2>5. QED
    BY <2>1, <2>2, <2>3, <2>4, OtherRequests
<1>4. ASSUME NEW b \in events'
      PROVE  b \in Booking /\ Exists(b)
  BY <1>t, <1>4, OtherRequests
     DEF ChargeCard, Webhook, PayGoto, TypeOK, TablesTypeOK, PaymentServiceTypeOK,
         TargetsExist
<1>5. QED
  BY <1>e, <1>1, <1>2, <1>3, <1>4 DEF TargetsExist, Exists

\* A row leaves the statuses of the overlap query only when its claim is given up.
LEMMA ReleasedRowsKept ==
  ASSUME HoldInv, [Next]_vars
  PROVE  ReleasedRows'
<1> USE DEF HoldInv
<1> SUFFICES ASSUME NEW b \in Booking
             PROVE  /\ bookings'[b].status = "PENDING_PAYMENT" => ~bookings'[b].cancelled
                    /\ bookings'[b].status = "CANCELLED" => bookings'[b].cancelled
                    /\ bookings'[b].status = "EXPIRED" => Released(bookings[b])'
                    /\ bookings'[b].status = "COMPLETED" => bookings'[b].checkOut < today'
  BY DEF ReleasedRows
<1>t. /\ bookings \in [Booking -> BookingRow] /\ now \in Nat /\ today \in Nat
  BY DEF TypeOK, TablesTypeOK
<1>c. now' >= now /\ today' >= today /\ now' \in Nat /\ today' \in Nat
  BY <1>t, ClockStep
<1>1. CASE CommitHold(b)
  BY <1>t, <1>1 DEF CommitHold
<1>2. CASE RowMoves(b)
  BY <1>t, <1>c, <1>2 DEF RowMoves, KeepsRow, ReleasedRows, Released, PastHold, BookingRow
<1>3. QED
  BY <1>1, <1>2, RowStep

\* A release is for ever.
LEMMA ReleaseKept ==
  ASSUME HoldInv, [Next]_vars, NEW b \in Booking, Exists(b), Released(bookings[b])
  PROVE  Released(bookings[b])'
<1>t. /\ bookings \in [Booking -> BookingRow] /\ now \in Nat /\ today \in Nat
  BY DEF HoldInv, TypeOK, TablesTypeOK
<1>c. now' >= now /\ now' \in Nat
  BY <1>t, ClockStep DEF HoldInv
<1>1. ~CommitHold(b)
  BY DEF CommitHold, CreateGoto, HoldInv, RowPerCommit
<1>2. QED
  BY <1>t, <1>c, <1>1, RowStep DEF RowMoves, KeepsRow, Released, PastHold, BookingRow

\* A payment request about to write EXPIRED is about a released row.
LEMMA LapsedReadsKept ==
  ASSUME HoldInv, [Next]_vars
  PROVE  LapsedReads'
<1> SUFFICES ASSUME NEW p \in Pays, pays'[p].pc = "lapsed"
             PROVE  Released(bookings[pays[p].booking])'
  BY DEF LapsedReads
<1>t. TypeOK /\ TargetsExist /\ LapsedReads /\ ReleasedRows
  BY DEF HoldInv
<1>1. \E b \in Booking : Exists(b) /\ Released(bookings[b]) /\ pays'[p].booking = b
  <2> USE <1>t DEF TypeOK, PaymentServiceTypeOK, TargetsExist, LapsedReads
  <2>1. CASE ReadToPay(p)
    BY <2>1 DEF ReadToPay, ReleasedRows, NotPayable, Released
  <2>2. CASE ~ReadToPay(p)
    <3>1. /\ pays[p].pc = "lapsed"
          /\ pays'[p].booking = pays[p].booking
      BY <2>2, PayOrigin
    <3>2. QED
      BY <3>1
  <2>3. QED
    BY <2>1, <2>2
<1>2. QED
  BY <1>1, ReleaseKept

\* A hold never ends later than HoldTime after its row was made.
LEMMA HoldLengthsKept ==
  ASSUME HoldInv, [Next]_vars
  PROVE  HoldLengths'
<1> USE DEF HoldInv, InCritical
<1>t. /\ bookings \in [Booking -> BookingRow] /\ creates \in [Booking -> CreateRequest]
      /\ now \in Nat /\ HoldTime \in Nat
  BY TimeAssumption DEF TypeOK, TablesTypeOK, BookingServiceTypeOK
<1>c. now' >= now /\ now' \in Nat
  BY <1>t, ClockStep
<1> SUFFICES ASSUME NEW c \in Booking
             PROVE  /\ creates'[c].pc \in {"priced", "opened"} \cup InCritical
                         => creates'[c].expiresAt <= now' + HoldTime
                    /\ creates'[c].pc = "inserted"
                         => creates'[c].expiresAt <= creates'[c].createdAt + HoldTime
                    /\ Exists(c)' => bookings'[c].expiresAt <= bookings'[c].createdAt + HoldTime
  BY DEF HoldLengths
<1>p. /\ creates[c].pc \in {"priced", "opened"} \cup InCritical
           => creates[c].expiresAt <= now + HoldTime
      /\ creates[c].pc = "inserted" => creates[c].expiresAt <= creates[c].createdAt + HoldTime
      /\ Exists(c) => bookings[c].expiresAt <= bookings[c].createdAt + HoldTime
  BY DEF HoldLengths
<1>r. creates[c] \in CreateRequest /\ bookings[c] \in BookingRow
  BY <1>t
<1>1. creates'[c].pc \in {"priced", "opened"} \cup InCritical
        => creates'[c].expiresAt <= now' + HoldTime
  <2>1. ASSUME Price(c)
        PROVE  creates'[c].expiresAt = now + HoldTime
    BY <1>t, <2>1 DEF Price, CreateRequest
  <2>2. CASE Price(c)
    BY <1>t, <1>c, <2>1, <2>2
  <2>3. ASSUME creates[c].pc \in {"priced", "opened"} \cup InCritical,
               creates'[c].expiresAt = creates[c].expiresAt
        PROVE  creates'[c].expiresAt <= now' + HoldTime
    <3>1. creates[c].expiresAt <= now + HoldTime /\ creates[c].expiresAt \in Nat
      BY <1>p, <1>r, <2>3 DEF CreateRequest
    <3>2. QED
      BY <1>t, <1>c, <2>3, <3>1
  <2>4. QED
    BY <2>2, <2>3, RequestOrigin
<1>2. ASSUME creates'[c].pc = "inserted"
      PROVE  creates'[c].expiresAt <= creates'[c].createdAt + HoldTime
  <2>1. CASE InsertHold(c)
    <3>1. /\ creates'[c].createdAt = now /\ creates'[c].expiresAt = creates[c].expiresAt
          /\ creates[c].pc = "clear"
      BY <1>t, <2>1 DEF InsertHold, CreateRequest, tableVars
    <3>2. QED
      BY <3>1, <1>p
  <2>2. CASE creates[c].pc = "inserted" /\ creates'[c] = creates[c]
    BY <2>2, <1>p
  <2>3. QED
    BY <1>2, <2>1, <2>2, RequestOrigin
<1>3. ASSUME Exists(c)'
      PROVE  bookings'[c].expiresAt <= bookings'[c].createdAt + HoldTime
  <2>1. CASE CommitHold(c)
    <3>1. /\ bookings'[c].expiresAt = creates[c].expiresAt
          /\ bookings'[c].createdAt = creates[c].createdAt
          /\ creates[c].pc = "inserted"
      BY <1>t, <2>1 DEF CommitHold, CreateGoto
    <3>2. QED
      BY <3>1, <1>p
  <2>2. CASE RowMoves(c)
    BY <1>3, <2>2, <1>p DEF RowMoves, KeepsRow, Exists
  <2>3. QED
    BY <2>1, <2>2, RowStep
<1>4. QED
  BY <1>1, <1>2, <1>3

\* Every standing claim is found by the overlap query.
LEMMA StandingVisible ==
  ASSUME HoldInv
  PROVE  StandingIsVisible
BY DEF HoldInv, TypeOK, TablesTypeOK, StandingIsVisible, Standing, BlocksDates, Occupying,
   ReleasedRows, Released, PastHold, BookingRow, ReachableStatus

\* A claim that stands after a step stood before it, unless the step commits it.
LEMMA StoodBefore ==
  ASSUME HoldInv, [Next]_vars, NEW b \in Booking, ~CommitHold(b), Standing(bookings[b])'
  PROVE  /\ Standing(bookings[b])
         /\ bookings'[b].checkIn = bookings[b].checkIn
         /\ bookings'[b].checkOut = bookings[b].checkOut
<1>t. /\ bookings[b] \in BookingRow /\ now \in Nat /\ today \in Nat
  BY DEF HoldInv, TypeOK, TablesTypeOK
<1>c. now' >= now /\ today' >= today /\ now' \in Nat /\ today' \in Nat
  BY <1>t, ClockStep DEF HoldInv
<1>1. KeepsRow(b)
  BY RowStep DEF RowMoves
<1>2. QED
  BY <1>t, <1>c, <1>1 DEF KeepsRow, Standing, BookingRow

\* Two transactions are never past the lock at once.
LEMMA OneInCritical ==
  ASSUME LockAgrees, NEW b \in Booking, NEW c \in Booking,
         creates[b].pc \in InCritical, creates[c].pc \in InCritical
  PROVE  b = c
BY DEF LockAgrees

\* A transaction past its overlap check has its nights to itself.
LEMMA ClearStaysKept ==
  ASSUME HoldInv, [Next]_vars
  PROVE  ClearStays'
<1> USE DEF HoldInv
<1> SUFFICES ASSUME NEW c \in Booking, NEW b \in Booking,
                    creates'[c].pc \in {"clear", "inserted"}, Standing(bookings[b])'
             PROVE  ~Overlap(creates'[c], bookings'[b])
  BY DEF ClearStays, Overlap
<1>1. /\ creates'[c].checkIn = creates[c].checkIn
      /\ creates'[c].checkOut = creates[c].checkOut
      /\ creates[c].pc \in {"clear", "inserted"} \/ CheckOverlap(c)
  BY RequestOrigin
<1>2. (creates[c].pc \in InCritical /\ creates[c].pc # "inserted") \/ creates[c].pc = "inserted"
  BY <1>1 DEF InCritical, CheckOverlap, CreateGoto
<1>3. ~CommitHold(b)
  <2>1. CASE b = c
    BY <2>1 DEF CommitHold, CreateGoto, TypeOK, BookingServiceTypeOK, CreateRequest
  <2>2. CASE b # c
    BY <1>2, <2>2, OneInCritical DEF CommitHold, CreateGoto, InCritical
  <2>3. QED
    BY <2>1, <2>2
<1>4. /\ Standing(bookings[b])
      /\ bookings'[b].checkIn = bookings[b].checkIn
      /\ bookings'[b].checkOut = bookings[b].checkOut
  BY <1>3, StoodBefore
<1>5. ~Overlap(creates[c], bookings[b])
  <2>1. CASE creates[c].pc \in {"clear", "inserted"}
    BY <1>4, <2>1 DEF ClearStays
  <2>2. CASE CheckOverlap(c)
    BY <1>4, <2>2, StandingVisible DEF CheckOverlap, Conflict, StandingIsVisible
  <2>3. QED
    BY <1>1, <2>1, <2>2
<1>6. QED
  BY <1>1, <1>4, <1>5 DEF Overlap

\* Holds stay disjoint: a commit brings in a stay that was clear.
LEMMA NoDoubleHoldKept ==
  ASSUME HoldInv, [Next]_vars
  PROVE  NoDoubleHold'
<1> USE DEF HoldInv
<1> SUFFICES ASSUME NEW b \in Booking, NEW c \in Booking, b # c,
                    Standing(bookings[b])', Standing(bookings[c])'
             PROVE  ~Overlap(bookings'[b], bookings'[c])
  BY DEF NoDoubleHold, Overlap
<1>1. ASSUME NEW x \in Booking, NEW y \in Booking, x # y, CommitHold(x), Standing(bookings[y])'
      PROVE  ~Overlap(bookings'[x], bookings'[y]) /\ ~Overlap(bookings'[y], bookings'[x])
  <2>1. ~CommitHold(y)
    BY <1>1, OneInCritical DEF CommitHold, CreateGoto, InCritical
  <2>2. /\ Standing(bookings[y])
        /\ bookings'[y].checkIn = bookings[y].checkIn
        /\ bookings'[y].checkOut = bookings[y].checkOut
    BY <1>1, <2>1, StoodBefore
  <2>3. ~Overlap(creates[x], bookings[y])
    BY <1>1, <2>2 DEF ClearStays, CommitHold, CreateGoto
  <2>4. /\ bookings'[x].checkIn = creates[x].checkIn
        /\ bookings'[x].checkOut = creates[x].checkOut
    BY <1>1 DEF CommitHold, TypeOK, TablesTypeOK
  <2>5. QED
    BY <2>2, <2>3, <2>4 DEF Overlap
<1>2. CASE ~CommitHold(b) /\ ~CommitHold(c)
  BY <1>2, StoodBefore DEF NoDoubleHold, Overlap
<1>3. QED
  BY <1>1, <1>2

(***************************************************************************)
(* The theorems.                                                           *)
(***************************************************************************)

\* The inductive invariant holds in every state of the core.
THEOREM HoldInvariant == Spec => []HoldInv
<1>1. Init => HoldInv
  <2>1. SUFFICES ASSUME Init
                 PROVE  HoldInv
    OBVIOUS
  <2>2. TypeOK
    BY <2>1, InitTyped
  <2>3. QED
    BY <2>1, <2>2, NamesAssumption, HostAssumption
       DEF HoldInv, Init, TablesInit, BookingServiceInit, PaymentServiceInit, AdminBookingsInit,
           AbsentBooking, LockAgrees, InCritical, RowPerCommit, Exists, TargetsExist,
           ReleasedRows, LapsedReads, HoldLengths, ClearStays, NoDoubleHold, Standing
<1>2. HoldInv /\ [Next]_vars => HoldInv'
  BY TypeKept, LockAgreesKept, RowPerCommitKept, TargetsExistKept, ReleasedRowsKept,
     LapsedReadsKept, HoldLengthsKept, ClearStaysKept, NoDoubleHoldKept
     DEF HoldInv
<1>3. QED
  BY <1>1, <1>2, PTL DEF Spec

\* No two holds that stand share a night, whatever the requests, payments,
\* cancellations, sweeps and server deaths in between.
THEOREM HoldsAreDisjoint == Spec => []NoDoubleHold
<1>1. HoldInv => NoDoubleHold
  BY DEF HoldInv
<1>2. QED
  BY <1>1, HoldInvariant, PTL

\* The overlap query finds every standing claim, in every state.
THEOREM HoldsAreVisible == Spec => []StandingIsVisible
<1>1. HoldInv => StandingIsVisible
  BY StandingVisible
<1>2. QED
  BY <1>1, HoldInvariant, PTL

\* A hold that waits for payment ends as EXPIRED only after its deadline.
THEOREM HoldsLastTheirTime == Spec => NoEarlyExpiry
<1>1. ASSUME HoldInv, [Next]_vars, NEW b \in Booking,
             bookings[b].status = "PENDING_PAYMENT", bookings'[b].status = "EXPIRED"
      PROVE  PastHold(bookings[b])
  <2>t. /\ bookings[b] \in BookingRow /\ now \in Nat /\ HoldTime \in Nat
        /\ ~bookings[b].cancelled
        /\ bookings[b].expiresAt <= bookings[b].createdAt + HoldTime
    BY <1>1, TimeAssumption
       DEF HoldInv, TypeOK, TablesTypeOK, ReleasedRows, HoldLengths, Exists
  <2>1. ~CommitHold(b)
    BY <1>1 DEF HoldInv, RowPerCommit, Exists, CommitHold, CreateGoto
  <2>2. RowMoves(b)
    BY <1>1, <2>1, RowStep
  <2>3. Abandoned(b) \/ Released(bookings[b])
    BY <1>1, <2>2 DEF RowMoves
  <2>4. QED
    BY <2>t, <2>3 DEF Abandoned, Released, PastHold, BookingRow
<1>2. HoldInv /\ [Next]_vars
        => [\A b \in Booking :
              bookings[b].status = "PENDING_PAYMENT" /\ bookings'[b].status = "EXPIRED"
                => PastHold(bookings[b])]_vars
  BY <1>1
<1>3. QED
  BY <1>2, HoldInvariant, PTL DEF Spec, NoEarlyExpiry

\* Who writes the calendar: a host's edit, which inserts a row only while no transaction
\* holds the lock of the property.
LEMMA CalendarStep ==
  ASSUME HoldInv, [Next]_vars, NEW d \in Days, calendar[d] = "none", calendar'[d] # "none"
  PROVE  lock = NoBooking
<1>t. calendar \in [Days -> {"none", "open", "blocked"}]
  BY DEF HoldInv, TypeOK, TablesTypeOK
<1>1. ASSUME NEW e \in DateEdits, WriteDate(e)
      PROVE  lock = NoBooking
  <2>1. CASE dateEdits[e].date = d
    BY <1>1, <2>1 DEF WriteDate
  <2>2. CASE dateEdits[e].date # d
    BY <1>t, <1>1, <2>2 DEF WriteDate
  <2> QED BY <2>1, <2>2
<1>2. CASE UNCHANGED calendar
  BY <1>2
<1>3. ASSUME BookingServiceNext
      PROVE  UNCHANGED calendar
  <2>1. ASSUME NEW c \in Booking, CreateStep(c)
        PROVE  UNCHANGED calendar
    BY <2>1 DEF CreateStep, Price, OpenTransaction, LockProperty, CheckBlockedDates,
       CheckOverlap, InsertHold, CommitHold, RefuseHold, tableVars, rowVars
  <2> QED BY <1>3, <2>1 DEF BookingServiceNext, CompleteStays, Sweep, AbortHold, ReadToCancel,
           WriteCancel, tableVars, rowVars
<1>4. ASSUME PaymentServiceNext
      PROVE  UNCHANGED calendar
  BY <1>4 DEF PaymentServiceNext, PayStep, ReadToPay, WriteLapsed, LookUpKey, PushMpesa,
     ChargeCard, SettleCard, FailPayment, Webhook, PostEvent, ProcessWebhook, tableVars, rowVars
<1>5. ASSUME NEW e \in DateEdits, CheckDate(e)
      PROVE  UNCHANGED calendar
  BY <1>5 DEF CheckDate, tableVars, rowVars
<1>6. ASSUME AdminBookingsNext
      PROVE  UNCHANGED calendar
  BY <1>6 DEF AdminBookingsNext, ReadToAdminCancel, WriteAdminCancel, ExpiryJob, tableVars,
     rowVars
<1>7. CASE Tick \/ HostEditsProperty \/ UNCHANGED vars
  BY <1>7 DEF Tick, HostEditsProperty, vars, tableVars, rowVars
<1> QED BY <1>1, <1>2, <1>3, <1>4, <1>5, <1>6, <1>7 DEF Next, AvailabilityServiceNext

\* No row appears on a night a transaction has found without one before the transaction
\* ends, so no host blocks a free night under a hold on the way.
THEOREM FreeNightsStayFree == Spec => NewRowsWait
<1>1. ASSUME HoldInv, [Next]_vars, NEW c \in Booking, NEW d \in Days,
             creates[c].pc \in {"unblocked", "clear", "inserted"}, calendar[d] = "none"
      PROVE  calendar'[d] = "none"
  <2>1. lock = c /\ c # NoBooking
    BY <1>1, NamesAssumption DEF HoldInv, LockAgrees, InCritical
  <2> QED BY <1>1, <2>1, CalendarStep
<1>2. HoldInv /\ [Next]_vars
        => [\A c \in Booking, d \in Days :
              ( /\ creates[c].pc \in {"unblocked", "clear", "inserted"}
                /\ CoversNight(creates[c], d)
                /\ calendar[d] = "none" )
              => calendar'[d] = "none"]_vars
  BY <1>1
<1> QED BY <1>2, HoldInvariant, PTL DEF Spec, NewRowsWait

(***************************************************************************)
(* The refund schedule.                                                    *)
(***************************************************************************)

\* Under every policy a guest who cancels later gets no larger share of the price back,
\* and on every day a stricter policy gives no larger share than a looser one: the
\* thresholds of cancelBooking's schedule are in order, also for a stay already begun.
THEOREM RefundsAreOrdered ==
  ASSUME NEW policy \in {"FLEXIBLE", "MODERATE", "STRICT"},
         NEW early \in Int, NEW late \in Int, late <= early
  PROVE  /\ RefundPercent(policy, late) <= RefundPercent(policy, early)
         /\ RefundPercent("STRICT", early) <= RefundPercent("MODERATE", early)
         /\ RefundPercent("MODERATE", early) <= RefundPercent("FLEXIBLE", early)
<1>1. CASE policy = "FLEXIBLE"
  BY <1>1 DEF RefundPercent
<1>2. CASE policy = "MODERATE"
  BY <1>2 DEF RefundPercent
<1>3. CASE policy = "STRICT"
  BY <1>3 DEF RefundPercent
<1>4. QED
  BY <1>1, <1>2, <1>3

(***************************************************************************)
(* The ledger of holds.                                                    *)
(***************************************************************************)

\* A request that arrived asks for a stay of the instance.
AsksForStay ==
  \A c \in Booking : creates[c].pc # "new" =>
    [checkIn |-> creates[c].checkIn, checkOut |-> creates[c].checkOut] \in Stays

\* A request keeps the stay it asks for.
LEMMA AsksForStayKept ==
  ASSUME TypeOK, AsksForStay, [Next]_vars
  PROVE  AsksForStay'
<1>t. creates \in [Booking -> CreateRequest]
  BY DEF TypeOK, BookingServiceTypeOK
<1> SUFFICES ASSUME NEW c \in Booking, creates'[c].pc # "new"
             PROVE  [checkIn |-> creates'[c].checkIn, checkOut |-> creates'[c].checkOut] \in Stays
  BY DEF AsksForStay
<1>1. ASSUME creates'[c].checkIn = creates[c].checkIn, creates'[c].checkOut = creates[c].checkOut,
             creates[c].pc # "new"
      PROVE  [checkIn |-> creates'[c].checkIn, checkOut |-> creates'[c].checkOut] \in Stays
  BY <1>1 DEF AsksForStay
<1>2. ASSUME NEW e \in Booking, Sweep(e)
      PROVE  [checkIn |-> creates'[c].checkIn, checkOut |-> creates'[c].checkOut] \in Stays
  <2>1. PICK s \in Stays :
          creates' = [creates EXCEPT ![e] = [@ EXCEPT !.pc = "swept",
                                      !.checkIn = s.checkIn, !.checkOut = s.checkOut]]
    BY <1>2 DEF Sweep
  <2>2. CASE e = c
    <3>1. creates'[c].checkIn = s.checkIn /\ creates'[c].checkOut = s.checkOut
      BY <1>t, <2>1, <2>2 DEF CreateRequest
    <3> QED BY <3>1, StaysAssumption
  <2>3. CASE e # c
    BY <1>t, <1>1, <2>1, <2>3
  <2> QED BY <2>2, <2>3
<1>3. ASSUME NEW e \in Booking, CreateStep(e) \/ AbortHold(e)
      PROVE  [checkIn |-> creates'[c].checkIn, checkOut |-> creates'[c].checkOut] \in Stays
  <2>1. CASE e # c
    <3>1. creates'[c] = creates[c]
      BY <1>t, <1>3, <2>1
      DEF CreateStep, Price, OpenTransaction, LockProperty, CheckBlockedDates, CheckOverlap,
          InsertHold, CommitHold, RefuseHold, AbortHold, CreateGoto
    <3> QED BY <1>1, <3>1
  <2>2. CASE e = c
    <3>1. CASE Price(c) \/ InsertHold(c)
      BY <1>t, <1>1, <3>1 DEF Price, InsertHold, CreateRequest
    <3>2. CASE \/ OpenTransaction(c) \/ LockProperty(c) \/ CheckBlockedDates(c)
               \/ CheckOverlap(c) \/ CommitHold(c)
      BY <1>t, <1>1, <3>2 DEF OpenTransaction, LockProperty, CheckBlockedDates, CheckOverlap,
         CommitHold, CreateGoto, CreateRequest
    <3>3. CASE RefuseHold(c) \/ AbortHold(c)
      BY <1>t, <1>1, <3>3 DEF RefuseHold, AbortHold, InCritical, CreateRequest
    <3> QED BY <1>3, <2>2, <3>1, <3>2, <3>3 DEF CreateStep
  <2> QED BY <2>1, <2>2
<1> QED BY <1>1, <1>2, <1>3, RequestStep

Recorded == {b \in Booking : Exists(b)}
Claims ==
  {[id |-> b, checkIn |-> bookings[b].checkIn, checkOut |-> bookings[b].checkOut] :
     b \in {x \in Booking : Standing(bookings[x])}}

\* The commit of a hold grants its claim, or records it too late to be one.
LEMMA CommitGrants ==
  ASSUME HoldInv, AsksForStay, NEW c \in Booking, CommitHold(c)
  PROVE  Ledger!Grant(c) \/ Ledger!RecordLate(c)
<1>t. /\ bookings \in [Booking -> BookingRow] /\ creates \in [Booking -> CreateRequest]
      /\ now \in Nat /\ today \in Nat
  BY DEF HoldInv, TypeOK, TablesTypeOK, BookingServiceTypeOK
<1>1. /\ \A b \in Booking \ {c} : bookings'[b] = bookings[b]
      /\ bookings'[c].status = "PENDING_PAYMENT" /\ now' = now /\ today' = today
      /\ bookings'[c].checkIn = creates[c].checkIn /\ bookings'[c].checkOut = creates[c].checkOut
      /\ creates[c].pc = "inserted"
  BY <1>t DEF CommitHold, CreateGoto, clockVars
<1>2. ~Exists(c) /\ ~Standing(bookings[c])
  BY <1>1 DEF HoldInv, RowPerCommit, Exists, Standing
<1>3. c \notin Recorded /\ Recorded' = Recorded \cup {c}
  BY <1>1, <1>2 DEF Recorded, Exists
<1>4. \A b \in Booking \ {c} : Standing(bookings[b])' <=> Standing(bookings[b])
  BY <1>1 DEF Standing
<1>5. CASE Standing(bookings[c])'
  <2> DEFINE s == [checkIn |-> creates[c].checkIn, checkOut |-> creates[c].checkOut]
             claim == [id |-> c, checkIn |-> s.checkIn, checkOut |-> s.checkOut]
  <2>1. s \in Stays
    BY <1>1 DEF AsksForStay
  <2>2. Claims' = Claims \cup {claim}
    BY <1>1, <1>2, <1>4, <1>5 DEF Claims
  <2>3. ASSUME NEW k \in Claims
        PROVE  s.checkOut <= k.checkIn \/ k.checkOut <= s.checkIn
    <3>1. PICK b \in Booking :
            /\ Standing(bookings[b])
            /\ k.checkIn = bookings[b].checkIn /\ k.checkOut = bookings[b].checkOut
      BY DEF Claims
    <3>2. ~Overlap(creates[c], bookings[b])
      BY <1>1, <3>1 DEF HoldInv, ClearStays
    <3>3. /\ creates[c].checkIn \in Nat /\ creates[c].checkOut \in Nat
          /\ bookings[b].checkIn \in Nat /\ bookings[b].checkOut \in Nat
      BY <1>t DEF BookingRow, CreateRequest
    <3> QED BY <3>1, <3>2, <3>3 DEF Overlap
  <2> HIDE DEF s
  <2> QED BY <1>3, <2>1, <2>2, <2>3
          DEF Ledger!Grant, Ledger!Disjoint, Ledger!ClaimOn, Recorded, Claims
<1>6. CASE ~Standing(bookings[c])'
  <2>1. Claims' = Claims
    BY <1>1, <1>2, <1>4, <1>6 DEF Claims
  <2> QED BY <1>3, <2>1 DEF Ledger!RecordLate, Recorded, Claims
<1> QED BY <1>5, <1>6

\* Every step is a step of the ledger or leaves it alone.
LEMMA LedgerStep ==
  ASSUME HoldInv, AsksForStay, [Next]_vars
  PROVE  Ledger!LedgerNext
<1>1. CASE \E c \in Booking : CommitHold(c)
  BY <1>1, CommitGrants DEF Ledger!LedgerNext
<1>2. CASE \A c \in Booking : ~CommitHold(c)
  <2>1. \A b \in Booking : Exists(b)' <=> Exists(b)
    BY <1>2, RowStep DEF RowMoves, KeepsRow, Exists
  <2>2. Recorded' = Recorded
    BY <2>1 DEF Recorded
  <2>3. Claims' \subseteq Claims
    BY <1>2, StoodBefore DEF Claims
  <2> QED BY <2>2, <2>3 DEF Ledger!LedgerNext, Ledger!Lapse, Recorded, Claims
<1> QED BY <1>1, <1>2

\* No booking is an empty ledger.
LEMMA LedgerStart ==
  ASSUME Init
  PROVE  Ledger!LedgerInit /\ AsksForStay
BY DEF Init, TablesInit, BookingServiceInit, AbsentBooking, Exists, Standing, AsksForStay,
       Ledger!LedgerInit

\* createBooking and everything that runs beside it implement the ledger: claims are granted
\* atomically to disjoint stays and never come back (booking.service.ts:76-160).
THEOREM LedgerImplemented == Spec => ImplementsLedger
<1>1. Init => Ledger!LedgerInit /\ AsksForStay
  BY LedgerStart
<1>2. HoldInv /\ AsksForStay /\ [Next]_vars => AsksForStay'
  BY AsksForStayKept DEF HoldInv
<1>3. HoldInv /\ AsksForStay /\ [Next]_vars => [Ledger!LedgerNext]_Ledger!ledgerVars
  BY LedgerStep
<1> QED BY <1>1, <1>2, <1>3, HoldInvariant, PTL DEF Spec, ImplementsLedger, Ledger!LedgerSpec

==============================================================================
