---------------------------- MODULE PaymentProofs ----------------------------
(***************************************************************************)
(* What holds of charges, payments and refunds, for every number of        *)
(* bookings and requests: first in the booking core, then as the checkout  *)
(* page shows it, whose steps are steps of the core or of the page alone.  *)
(***************************************************************************)
EXTENDS Checkout, BookingProofs

(***************************************************************************)
(* The booking core.                                                       *)
(***************************************************************************)

\* Behind every event in flight and every settling request is a charge, and behind every
\* confirmed row a charge or an event that was posted.
Backed ==
  /\ \A b \in events : charges[b] > 0
  /\ \A p \in Pays :
       \/ pays[p].pc = "charged"
       \/ pays[p].pc = "done" /\ pays[p].method = "CARD"
       => charges[pays[p].booking] > 0
  /\ ConfirmedWasCharged

MoneyInv == HoldInv /\ Backed /\ RefundedIsReleased

\* Before any request nothing is paid or refunded.
LEMMA MoneyInit ==
  ASSUME Init
  PROVE  Backed /\ RefundedIsReleased
BY DEF Init, TablesInit, PaymentServiceInit, Backed, ConfirmedWasCharged, RefundedIsReleased,
       AbsentBooking, AbsentPayment

\* Which steps charge a booking.
LEMMA ChargeStep ==
  ASSUME TypeOK, [Next]_vars
  PROVE  \/ charges' = charges /\ events' \subseteq events
         \/ \E p \in Pays : ChargeCard(p)
<1>1. CASE BookingServiceNext
  <2>1. ASSUME NEW c \in Booking, CreateStep(c)
        PROVE  UNCHANGED providerVars
    BY <2>1 DEF CreateStep, Price, OpenTransaction, LockProperty, CheckBlockedDates, CheckOverlap,
       InsertHold, CommitHold, RefuseHold, tableVars
  <2> QED BY <1>1, <2>1 DEF BookingServiceNext, CompleteStays, Sweep, AbortHold, ReadToCancel,
      WriteCancel, tableVars, providerVars
<1>2. CASE PaymentServiceNext
  BY <1>2 DEF PaymentServiceNext, PayStep, ReadToPay, WriteLapsed, LookUpKey, PushMpesa, SettleCard,
     FailPayment, Webhook, PostEvent, ProcessWebhook, tableVars, providerVars
<1>3. CASE \/ AvailabilityServiceNext \/ AdminBookingsNext
           \/ Tick \/ HostEditsProperty \/ UNCHANGED vars
  BY <1>3 DEF AvailabilityServiceNext, CheckDate, WriteDate, AdminBookingsNext, ReadToAdminCancel,
     WriteAdminCancel, ExpiryJob, Tick, HostEditsProperty, vars, tableVars, providerVars
<1> QED BY <1>1, <1>2, <1>3 DEF Next

\* What was posted is remembered.
LEMMA PostedGrow ==
  ASSUME [Next]_vars
  PROVE  posted \subseteq posted'
<1>1. CASE BookingServiceNext
  <2>1. ASSUME NEW c \in Booking, CreateStep(c)
        PROVE  UNCHANGED providerVars
    BY <2>1 DEF CreateStep, Price, OpenTransaction, LockProperty, CheckBlockedDates, CheckOverlap,
       InsertHold, CommitHold, RefuseHold, tableVars
  <2> QED BY <1>1, <2>1 DEF BookingServiceNext, CompleteStays, Sweep, AbortHold, ReadToCancel,
      WriteCancel, tableVars, providerVars
<1>2. CASE PaymentServiceNext
  BY <1>2 DEF PaymentServiceNext, PayStep, ReadToPay, WriteLapsed, LookUpKey, PushMpesa, ChargeCard,
     SettleCard, FailPayment, Webhook, PostEvent, tableVars, providerVars
<1>3. CASE \/ AvailabilityServiceNext \/ AdminBookingsNext
           \/ Tick \/ HostEditsProperty \/ UNCHANGED vars
  BY <1>3 DEF AvailabilityServiceNext, CheckDate, WriteDate, AdminBookingsNext, ReadToAdminCancel,
     WriteAdminCancel, ExpiryJob, Tick, HostEditsProperty, vars, tableVars, providerVars
<1> QED BY <1>1, <1>2, <1>3 DEF Next

\* A charge is never taken back.
LEMMA ChargesGrow ==
  ASSUME TypeOK, [Next]_vars, NEW b \in Booking, charges[b] > 0
  PROVE  charges'[b] > 0
<1>1. charges \in [Booking -> Nat]
  BY DEF TypeOK, TablesTypeOK
<1>2. ASSUME NEW p \in Pays, ChargeCard(p)
      PROVE  charges'[b] > 0
  BY <1>1, <1>2 DEF ChargeCard
<1> QED BY <1>2, ChargeStep

\* Nobody but the payment service confirms a booking.
LEMMA OthersConfirmNone ==
  ASSUME TypeOK, NEW b \in Booking, Sold(b)',
         \/ BookingServiceNext \/ AvailabilityServiceNext \/ AdminBookingsNext
         \/ Tick \/ HostEditsProperty \/ UNCHANGED vars
  PROVE  Sold(b)
<1> USE DEF Sold
<1>t. bookings \in [Booking -> BookingRow] /\ bookings[b] \in BookingRow
  BY DEF TypeOK, TablesTypeOK
<1>1. CASE BookingServiceNext
  <2>1. CASE CompleteStays
    BY <1>t, <2>1 DEF CompleteStays, StayOver, BookingRow, ReachableStatus
  <2>2. ASSUME NEW c \in Booking, Sweep(c)
        PROVE  Sold(b)
    <3>1. bookings'[b].status \in {"EXPIRED", bookings[b].status}
      BY <1>t, <2>2 DEF Sweep, AfterSweep, BookingRow
    <3> QED BY <3>1
  <2>3. ASSUME NEW c \in Booking, CreateStep(c)
        PROVE  Sold(b)
    <3>1. CASE CommitHold(c)
      BY <1>t, <3>1 DEF CommitHold
    <3>2. CASE ~CommitHold(c)
      BY <2>3, <3>2 DEF CreateStep, Price, OpenTransaction, LockProperty,
         CheckBlockedDates, CheckOverlap, InsertHold, RefuseHold, tableVars, rowVars
    <3> QED BY <3>1, <3>2
  <2>4. ASSUME NEW x \in Cancels, WriteCancel(x)
        PROVE  Sold(b)
    BY <1>t, <2>4 DEF WriteCancel, BookingRow
  <2> QED BY <1>1, <2>1, <2>2, <2>3, <2>4
          DEF BookingServiceNext, AbortHold, ReadToCancel, tableVars, rowVars
<1>2. CASE AvailabilityServiceNext \/ Tick \/ HostEditsProperty \/ UNCHANGED vars
  BY <1>2 DEF AvailabilityServiceNext, CheckDate, WriteDate, Tick, HostEditsProperty, vars,
     tableVars, rowVars
<1>3. CASE AdminBookingsNext
  <2>1. ASSUME NEW a \in AdminCancels, WriteAdminCancel(a)
        PROVE  Sold(b)
    BY <1>t, <2>1 DEF WriteAdminCancel, BookingRow
  <2>2. CASE ExpiryJob
    BY <1>t, <2>2 DEF ExpiryJob, BookingRow
  <2> QED BY <1>3, <2>1, <2>2 DEF AdminBookingsNext, ReadToAdminCancel, tableVars, rowVars
<1> QED BY <1>1, <1>2, <1>3

\* A row becomes confirmed or completed from a confirmed one, by a settled card or by an
\* event.
LEMMA ConfirmOrigin ==
  ASSUME TypeOK, [Next]_vars, NEW b \in Booking, Sold(b)'
  PROVE  \/ Sold(b)
         \/ \E p \in Pays : SettleCard(p) /\ pays[p].booking = b
         \/ Webhook(b) \/ PostEvent(b)
<1>t. bookings \in [Booking -> BookingRow] /\ bookings[b] \in BookingRow
  BY DEF TypeOK, TablesTypeOK
<1>1. CASE PaymentServiceNext
  <2> USE DEF Sold
  <2>1. ASSUME NEW p \in Pays, WriteLapsed(p)
        PROVE  Sold(b)
    BY <1>t, <2>1 DEF WriteLapsed, BookingRow
  <2>2. ASSUME NEW p \in Pays, SettleCard(p), pays[p].booking # b
        PROVE  Sold(b)
    BY <1>t, <2>2 DEF SettleCard
  <2>3. ASSUME NEW e \in Booking, Webhook(e) \/ PostEvent(e), e # b
        PROVE  Sold(b)
    BY <1>t, <2>3 DEF Webhook, PostEvent, ProcessWebhook
  <2>4. ASSUME NEW e \in Booking, Webhook(e) \/ PostEvent(e), e = b
        PROVE  Webhook(b) \/ PostEvent(b)
    BY <2>4
  <2>5. ASSUME NEW p \in Pays,
               ReadToPay(p) \/ LookUpKey(p) \/ PushMpesa(p) \/ ChargeCard(p) \/ FailPayment(p)
        PROVE  Sold(b)
    BY <2>5 DEF ReadToPay, LookUpKey, PushMpesa, ChargeCard, FailPayment, tableVars, rowVars
  <2> QED BY <1>1, <2>1, <2>2, <2>3, <2>4, <2>5 DEF PaymentServiceNext, PayStep
<1> QED BY <1>1, OthersConfirmNone DEF Next

\* Every step keeps bookings, payments and payment requests backed by a charge.
LEMMA BackedKept ==
  ASSUME HoldInv, Backed, [Next]_vars
  PROVE  Backed'
<1>t. TypeOK /\ pays \in [Pays -> PayRequest] /\ charges \in [Booking -> Nat]
      /\ events \subseteq Booking /\ PaymentServiceTypeOK
  BY DEF HoldInv, TypeOK, TablesTypeOK, PaymentServiceTypeOK
<1>1. \A b \in events' : charges'[b] > 0
  <2>1. ASSUME NEW p \in Pays, ChargeCard(p), NEW b \in events'
        PROVE  charges'[b] > 0
    <3>1. pays[p].booking \in Booking
      BY <1>t, <2>1 DEF ChargeCard, PayGoto, PaymentServiceTypeOK
    <3> QED BY <1>t, <2>1, <3>1 DEF ChargeCard, Backed
  <2> QED BY <1>t, <2>1, ChargeStep DEF Backed
<1>2. ASSUME NEW p \in Pays,
             \/ pays'[p].pc = "charged"
             \/ pays'[p].pc = "done" /\ pays'[p].method = "CARD"
      PROVE  charges'[pays'[p].booking] > 0
  <2>1. CASE pays' = pays
    <3>1. pays[p].booking \in Booking
      BY <1>2, <1>t, <2>1 DEF PaymentServiceTypeOK
    <3> QED BY <1>2, <1>t, <2>1, <3>1, ChargesGrow DEF Backed
  <2>2. ASSUME NEW q \in Pays, ReadToPay(q) \/ PayStep(q) \/ FailPayment(q)
        PROVE  charges'[pays'[p].booking] > 0
    <3>1. CASE q # p
      <4>1. pays'[p] = pays[p]
        BY <1>t, <2>2, <3>1 DEF ReadToPay, PayStep, WriteLapsed, LookUpKey, PushMpesa, ChargeCard,
           SettleCard, FailPayment, PayGoto
      <4>2. pays[p].booking \in Booking
        BY <1>2, <1>t, <4>1 DEF PaymentServiceTypeOK
      <4> QED BY <1>2, <1>t, <4>1, <4>2, ChargesGrow DEF Backed
    <3>2. CASE q = p /\ ChargeCard(p)
      <4>1. pays'[p].booking = pays[p].booking /\ pays[p].booking \in Booking
        BY <1>t, <3>2 DEF ChargeCard, PayGoto, PaymentServiceTypeOK, PayRequest
      <4> QED BY <1>t, <3>2, <4>1 DEF ChargeCard
    <3>3. CASE q = p /\ SettleCard(p)
      <4>1. /\ pays'[p].booking = pays[p].booking
            /\ pays[p].booking \in Booking /\ pays[p].pc = "charged"
        BY <1>t, <3>3 DEF SettleCard, PayGoto, PaymentServiceTypeOK, PayRequest
      <4> QED BY <1>t, <4>1, ChargesGrow DEF Backed
    <3>4. CASE q = p /\ ~ChargeCard(p) /\ ~SettleCard(p)
      BY <1>2, <1>t, <2>2, <3>4 DEF ReadToPay, PayStep, WriteLapsed, LookUpKey, PushMpesa,
         FailPayment, PayGoto, PayRequest
    <3> QED BY <2>2, <3>1, <3>2, <3>3, <3>4
  <2> QED BY <2>1, <2>2, OtherRequests
<1>3. ConfirmedWasCharged'
  <2> SUFFICES ASSUME NEW b \in Booking, bookings'[b].status \in {"CONFIRMED", "COMPLETED"}
               PROVE  charges'[b] > 0 \/ b \in posted'
    BY DEF ConfirmedWasCharged
  <2>1. CASE PostEvent(b)
    BY <2>1 DEF PostEvent
  <2>2. CASE ~PostEvent(b)
    <3>1. charges[b] > 0 \/ b \in posted
      BY <1>t, <2>2, ConfirmOrigin
         DEF Sold, Backed, ConfirmedWasCharged, SettleCard, Webhook, PayGoto
    <3> QED BY <1>t, <3>1, ChargesGrow, PostedGrow
  <2> QED BY <2>1, <2>2
<1> QED BY <1>1, <1>2, <1>3 DEF Backed

\* A payment becomes refunded by an administrator's cancellation only, and a Refund row
\* stays.
LEMMA RefundOrigin ==
  ASSUME TypeOK, [Next]_vars, NEW b \in Booking
  PROVE  /\ \/ payments'[b].status = "REFUNDED" => payments[b].status = "REFUNDED"
            \/ \E a \in AdminCancels : WriteAdminCancel(a) /\ adminCancels[a].booking = b
         /\ refunds[b] > 0 => refunds'[b] > 0
<1>t. payments \in [Booking -> PaymentRow] /\ refunds \in [Booking -> Nat]
  BY DEF TypeOK, TablesTypeOK
<1>1. CASE BookingServiceNext
  <2>1. ASSUME NEW c \in Booking, CreateStep(c)
        PROVE  UNCHANGED <<payments, refunds>>
    BY <2>1 DEF CreateStep, Price, OpenTransaction, LockProperty, CheckBlockedDates, CheckOverlap,
       InsertHold, CommitHold, RefuseHold, tableVars, rowVars
  <2>2. UNCHANGED <<payments, refunds>>
    BY <1>1, <2>1 DEF BookingServiceNext, CompleteStays, Sweep, AbortHold, ReadToCancel,
       WriteCancel, tableVars, rowVars
  <2> QED BY <2>2
<1>2. CASE PaymentServiceNext
  <2>1. UNCHANGED refunds
    BY <1>2 DEF PaymentServiceNext, PayStep, ReadToPay, WriteLapsed, LookUpKey, PushMpesa,
       ChargeCard, SettleCard, FailPayment, Webhook, PostEvent, ProcessWebhook, tableVars, rowVars
  <2>2. ASSUME NEW p \in Pays, PushMpesa(p) \/ SettleCard(p)
        PROVE  payments'[b].status = "REFUNDED" => payments[b].status = "REFUNDED"
    BY <1>t, <2>2 DEF PushMpesa, SettleCard, PaymentRow
  <2>3. ASSUME NEW e \in Booking, Webhook(e) \/ PostEvent(e)
        PROVE  payments'[b].status = "REFUNDED" => payments[b].status = "REFUNDED"
    BY <1>t, <2>3 DEF Webhook, PostEvent, ProcessWebhook, PaymentRow
  <2>4. ASSUME NEW p \in Pays,
               \/ ReadToPay(p) \/ WriteLapsed(p) \/ LookUpKey(p) \/ ChargeCard(p) \/ FailPayment(p)
        PROVE  UNCHANGED payments
    BY <2>4 DEF ReadToPay, WriteLapsed, LookUpKey, ChargeCard, FailPayment, tableVars, rowVars
  <2> QED BY <1>2, <2>1, <2>2, <2>3, <2>4 DEF PaymentServiceNext, PayStep
<1>3. CASE AvailabilityServiceNext \/ Tick \/ HostEditsProperty \/ UNCHANGED vars
  BY <1>3 DEF AvailabilityServiceNext, CheckDate, WriteDate, Tick, HostEditsProperty, vars,
     tableVars, rowVars
<1>4. CASE AdminBookingsNext
  <2>1. ASSUME NEW a \in AdminCancels, WriteAdminCancel(a)
        PROVE  /\ \/ payments'[b].status = "REFUNDED" => payments[b].status = "REFUNDED"
                  \/ adminCancels[a].booking = b
               /\ refunds[b] > 0 => refunds'[b] > 0
    BY <1>t, <2>1 DEF WriteAdminCancel
  <2> QED BY <1>4, <2>1 DEF AdminBookingsNext, ReadToAdminCancel, ExpiryJob, tableVars, rowVars
<1> QED BY <1>1, <1>2, <1>3, <1>4 DEF Next

\* Every step keeps refunded payments with cancelled bookings.
LEMMA RefundKept ==
  ASSUME HoldInv, RefundedIsReleased, [Next]_vars
  PROVE  RefundedIsReleased'
<1> SUFFICES ASSUME NEW b \in Booking, payments'[b].status = "REFUNDED"
             PROVE  /\ bookings'[b].status \in {"CANCELLED", "EXPIRED"}
                    /\ bookings'[b].cancelled
                    /\ refunds'[b] > 0
  BY DEF RefundedIsReleased
<1>t. /\ TypeOK /\ bookings \in [Booking -> BookingRow] /\ payments \in [Booking -> PaymentRow]
      /\ refunds \in [Booking -> Nat]
  BY DEF HoldInv, TypeOK, TablesTypeOK
<1>1. ASSUME NEW a \in AdminCancels, WriteAdminCancel(a), adminCancels[a].booking = b,
             adminCancels[a].hasPayment
      PROVE  /\ bookings'[b].status = "CANCELLED" /\ bookings'[b].cancelled
             /\ refunds'[b] > 0
  BY <1>1, <1>t DEF WriteAdminCancel, BookingRow
<1>2. ASSUME NEW a \in AdminCancels, WriteAdminCancel(a), ~adminCancels[a].hasPayment
      PROVE  UNCHANGED payments
  BY <1>2 DEF WriteAdminCancel
<1>3. CASE payments[b].status = "REFUNDED"
  <2>1. /\ bookings[b].status \in {"CANCELLED", "EXPIRED"} /\ bookings[b].cancelled
        /\ refunds[b] > 0
    BY <1>3 DEF RefundedIsReleased
  <2>2. ~CommitHold(b)
    BY <2>1 DEF HoldInv, RowPerCommit, Exists, CommitHold, CreateGoto
  <2>3. bookings'[b].status \notin {"CONFIRMED", "COMPLETED"}
    <3>1. ASSUME NEW p \in Pays, SettleCard(p), pays[p].booking = b
          PROVE  FALSE
      BY <1>t, <3>1 DEF SettleCard
    <3>2. ~Webhook(b) /\ ~PostEvent(b)
      BY <1>t DEF Webhook, PostEvent, ProcessWebhook, PaymentRow
    <3> QED BY <1>t, <2>1, <3>1, <3>2, ConfirmOrigin DEF Sold
  <2>4. RowMoves(b)
    BY <2>2, RowStep
  <2> QED BY <1>t, <2>1, <2>3, <2>4, RefundOrigin DEF RowMoves, KeepsRow
<1> QED BY <1>1, <1>2, <1>3, <1>t, RefundOrigin

\* The inductive invariant of charges and refunds.
THEOREM MoneyInvariant == Spec => []MoneyInv
<1>1. Init => Backed /\ RefundedIsReleased
  BY MoneyInit
<1>2. HoldInv /\ HoldInv' /\ Backed /\ RefundedIsReleased /\ [Next]_vars
        => Backed' /\ RefundedIsReleased'
  BY BackedKept, RefundKept
<1>3. HoldInv /\ Backed /\ RefundedIsReleased => MoneyInv
  BY DEF MoneyInv
<1> QED BY <1>1, <1>2, <1>3, HoldInvariant, PTL DEF Spec

\* A booking is confirmed only if the card provider accepted a charge for it or somebody
\* posted an event that named it, whatever requests and events overlap
\* (payments.service.ts:103-131, :158-190).
THEOREM ConfirmedCharged == Spec => []ConfirmedWasCharged
<1>1. MoneyInv => ConfirmedWasCharged
  BY DEF MoneyInv, Backed
<1> QED BY <1>1, MoneyInvariant, PTL

\* A refunded payment belongs to a released booking with a Refund row
\* (admin.service.ts:222-262).
THEOREM RefundedReleased == Spec => []RefundedIsReleased
<1>1. MoneyInv => RefundedIsReleased
  BY DEF MoneyInv
<1> QED BY <1>1, MoneyInvariant, PTL

------------------------------------------------------------------------------
(***************************************************************************)
(* Bookings confirmed in time.                                             *)
(***************************************************************************)

\* What a booking confirmed within its hold remains: confirmed, with no request about to
\* write EXPIRED over it, until it is cancelled or its stay is over.
Kept(b) ==
  /\ Exists(b)
  /\ \/ bookings[b].cancelled
     \/ bookings[b].checkOut < today
     \/ /\ bookings[b].status = "CONFIRMED"
        /\ \A p \in Pays : pays[p].pc = "lapsed" => pays[p].booking # b

\* Nobody but a payment request that found it lapsed lets a confirmed booking expire.
LEMMA ConfirmedExpiry ==
  ASSUME TypeOK, [Next]_vars, NEW b \in Booking,
         bookings[b].status = "CONFIRMED", bookings'[b].status = "EXPIRED"
  PROVE  \E p \in Pays : pays[p].pc = "lapsed" /\ pays[p].booking = b
<1>t. bookings \in [Booking -> BookingRow]
  BY DEF TypeOK, TablesTypeOK
<1>1. CASE BookingServiceNext
  <2>1. bookings'[b].status # "EXPIRED" \/ bookings' = bookings
    <3>1. ASSUME NEW c \in Booking, CreateStep(c)
          PROVE  bookings'[b].status # "EXPIRED" \/ bookings' = bookings
      BY <1>t, <3>1 DEF CreateStep, Price, OpenTransaction, LockProperty, CheckBlockedDates,
         CheckOverlap, InsertHold, CommitHold, RefuseHold, tableVars, rowVars
    <3>2. ASSUME NEW c \in Booking, Sweep(c)
          PROVE  bookings'[b].status # "EXPIRED"
      BY <1>t, <3>2 DEF Sweep, AfterSweep, Abandoned
    <3>3. ASSUME NEW x \in Cancels, WriteCancel(x)
          PROVE  bookings'[b].status # "EXPIRED"
      BY <1>t, <3>3 DEF WriteCancel, BookingRow
    <3>4. CASE CompleteStays
      BY <1>t, <3>4 DEF CompleteStays, BookingRow
    <3> QED BY <1>1, <3>1, <3>2, <3>3, <3>4
            DEF BookingServiceNext, AbortHold, ReadToCancel, tableVars, rowVars
  <2> QED BY <2>1
<1>2. CASE PaymentServiceNext
  <2>1. ASSUME NEW p \in Pays, WriteLapsed(p)
        PROVE  pays[p].pc = "lapsed" /\ pays[p].booking = b
    BY <1>t, <2>1 DEF WriteLapsed, PayGoto
  <2>2. ASSUME NEW p \in Pays, SettleCard(p)
        PROVE  FALSE
    BY <1>t, <2>2 DEF SettleCard, BookingRow
  <2>3. ASSUME NEW e \in Booking, Webhook(e) \/ PostEvent(e)
        PROVE  FALSE
    BY <1>t, <2>3 DEF Webhook, PostEvent, ProcessWebhook, BookingRow
  <2>4. ASSUME NEW p \in Pays,
               ReadToPay(p) \/ LookUpKey(p) \/ PushMpesa(p) \/ ChargeCard(p) \/ FailPayment(p)
        PROVE  FALSE
    BY <2>4 DEF ReadToPay, LookUpKey, PushMpesa, ChargeCard, FailPayment, tableVars, rowVars
  <2> QED BY <1>2, <2>1, <2>2, <2>3, <2>4 DEF PaymentServiceNext, PayStep
<1>3. CASE AvailabilityServiceNext \/ Tick \/ HostEditsProperty \/ UNCHANGED vars
  BY <1>3 DEF AvailabilityServiceNext, CheckDate, WriteDate, Tick, HostEditsProperty, vars,
     tableVars, rowVars
<1>4. CASE AdminBookingsNext
  <2>1. ASSUME NEW a \in AdminCancels, WriteAdminCancel(a)
        PROVE  FALSE
    BY <1>t, <2>1 DEF WriteAdminCancel, BookingRow
  <2>2. CASE ExpiryJob
    BY <1>t, <2>2 DEF ExpiryJob, BookingRow
  <2> QED BY <1>4, <2>1, <2>2 DEF AdminBookingsNext, ReadToAdminCancel, tableVars, rowVars
<1> QED BY <1>1, <1>2, <1>3, <1>4 DEF Next

\* No step takes a confirmation in time away, other than a cancellation or the end of the
\* stay.
LEMMA KeptKept ==
  ASSUME HoldInv, [Next]_vars, NEW b \in Booking, Kept(b)
  PROVE  Kept(b)'
<1>t. /\ TypeOK /\ bookings \in [Booking -> BookingRow] /\ pays \in [Pays -> PayRequest]
      /\ today \in Nat
  BY DEF HoldInv, TypeOK, TablesTypeOK, PaymentServiceTypeOK
<1>1. Exists(b)' /\ RowMoves(b)
  <2>1. ~CommitHold(b)
    BY DEF Kept, HoldInv, RowPerCommit, CommitHold, CreateGoto
  <2> QED BY <2>1, ExistsKept, RowStep DEF Kept
<1>2. bookings[b].checkOut < today => bookings'[b].checkOut < today'
  <2>1. bookings'[b].checkOut = bookings[b].checkOut /\ bookings[b].checkOut \in Nat
    BY <1>1, <1>t DEF RowMoves, KeepsRow, BookingRow
  <2>2. today' \in {today, today + 1}
    BY <1>t, ClockStep
  <2> QED BY <1>t, <2>1, <2>2
<1>3. CASE bookings[b].cancelled \/ bookings[b].checkOut < today
  BY <1>1, <1>2, <1>3 DEF Kept, RowMoves, KeepsRow
<1>4. CASE /\ bookings[b].status = "CONFIRMED"
           /\ \A p \in Pays : pays[p].pc = "lapsed" => pays[p].booking # b
  <2>1. \A p \in Pays : pays'[p].pc = "lapsed" => pays'[p].booking # b
    <3>1. ASSUME NEW p \in Pays, pays'[p].pc = "lapsed", ReadToPay(p)
          PROVE  pays'[p].booking # b
      BY <1>4, <1>t, <3>1 DEF ReadToPay, NotPayable
    <3> QED BY <1>4, <1>t, <3>1, PayOrigin
  <2>2. bookings'[b].status # "EXPIRED"
    BY <1>4, <1>t, ConfirmedExpiry
  <2>3. \/ bookings'[b].status = "CONFIRMED"
        \/ bookings'[b].cancelled
        \/ bookings[b].checkOut < today
    BY <1>1, <1>4, <2>2 DEF RowMoves
  <2> QED BY <1>1, <1>2, <2>1, <2>3 DEF Kept
<1> QED BY <1>3, <1>4 DEF Kept

\* A booking confirmed within its hold stays so until it is cancelled or over: a request
\* that found the hold lapsed read it after the deadline or after a release, and no later
\* one finds a confirmed booking lapsed (payments.service.ts:35-42).
THEOREM ConfirmedInTimeKept == Spec => ConfirmedInTimeStays
<1>1. ASSUME NEW b \in Booking
      PROVE  Spec => [](bookings[b].status = "CONFIRMED" /\ ~PastHold(bookings[b])
                          => [](bookings[b].status = "EXPIRED"
                                  => bookings[b].cancelled \/ bookings[b].checkOut < today))
  <2>1. HoldInv /\ bookings[b].status = "CONFIRMED" /\ ~PastHold(bookings[b]) => Kept(b)
    BY DEF HoldInv, LapsedReads, Released, Kept, Exists
  <2>2. HoldInv /\ Kept(b) /\ [Next]_vars => Kept(b)'
    BY KeptKept
  <2>3. Kept(b) => (bookings[b].status = "EXPIRED"
                      => bookings[b].cancelled \/ bookings[b].checkOut < today)
    BY DEF Kept
  <2> QED BY <2>1, <2>2, <2>3, HoldInvariant, PTL DEF Spec
<1> QED BY <1>1 DEF ConfirmedInTimeStays

------------------------------------------------------------------------------
(***************************************************************************)
(* The ledger of sales.                                                    *)
(***************************************************************************)
\* The receipts and the sales of the core, as the ledger sees them.
Receipts == events \cup {pays[p].booking : p \in {q \in Pays : pays[q].pc = "charged"}}
SoldNow == {b \in Booking : Sold(b)}

\* Steps outside the payment service end sales, and only an administrator refunds.
LEMMA OthersLapse ==
  ASSUME TypeOK, UNCHANGED pays,
         \/ BookingServiceNext \/ AvailabilityServiceNext \/ AdminBookingsNext
         \/ Tick \/ HostEditsProperty \/ UNCHANGED vars
  PROVE  Sales!SalesNext
<1>1. SoldNow' \subseteq SoldNow
  BY OthersConfirmNone DEF SoldNow
<1>2. ASSUME UNCHANGED <<charges, events, posted, refunds>>
      PROVE  Sales!Lapse
  BY <1>1, <1>2 DEF Sales!Lapse, SoldNow
<1>3. CASE BookingServiceNext
  <2>1. ASSUME NEW c \in Booking, CreateStep(c)
        PROVE  UNCHANGED <<charges, events, posted, refunds>>
    BY <2>1 DEF CreateStep, Price, OpenTransaction, LockProperty, CheckBlockedDates, CheckOverlap,
       InsertHold, CommitHold, RefuseHold, tableVars, rowVars, providerVars
  <2>2. UNCHANGED <<charges, events, posted, refunds>>
    BY <1>3, <2>1 DEF BookingServiceNext, CompleteStays, Sweep, AbortHold, ReadToCancel,
       WriteCancel, tableVars, rowVars, providerVars
  <2> QED BY <1>2, <2>2 DEF Sales!SalesNext
<1>4. CASE AvailabilityServiceNext \/ Tick \/ HostEditsProperty \/ UNCHANGED vars
  <2>1. UNCHANGED <<charges, events, posted, refunds>>
    BY <1>4 DEF AvailabilityServiceNext, CheckDate, WriteDate, Tick, HostEditsProperty, vars,
       tableVars, rowVars, providerVars
  <2> QED BY <1>2, <2>1 DEF Sales!SalesNext
<1>5. ASSUME NEW a \in AdminCancels, WriteAdminCancel(a)
      PROVE  Sales!SalesNext
  <2>1. PICK b \in Booking : b = adminCancels[a].booking /\ UNCHANGED <<charges, events, posted>>
    BY <1>5 DEF WriteAdminCancel, TypeOK, AdminBookingsTypeOK, providerVars
  <2>2. CASE ~adminCancels[a].hasPayment
    BY <1>2, <1>5, <2>1, <2>2 DEF WriteAdminCancel, Sales!SalesNext
  <2>3. CASE adminCancels[a].hasPayment
    <3>1. refunds' = [refunds EXCEPT ![b] = @ + 1]
      BY <1>5, <2>1, <2>3 DEF WriteAdminCancel
    <3>2. ~Sold(b)' /\ \A c \in Booking \ {b} : Sold(c)' <=> Sold(c)
      <4>1. bookings \in [Booking -> BookingRow]
        BY DEF TypeOK, TablesTypeOK
      <4>2. /\ bookings'[b].status = "CANCELLED"
            /\ \A c \in Booking \ {b} : bookings'[c] = bookings[c]
        BY <1>5, <2>1, <4>1 DEF WriteAdminCancel, BookingRow
      <4> QED BY <4>2 DEF Sold
    <3>3. SoldNow' = SoldNow \ {b}
      BY <2>1, <3>2 DEF SoldNow
    <3>4. Sales!Refund(b)
      BY <2>1, <3>1, <3>3 DEF Sales!Refund, SoldNow
    <3> QED BY <2>1, <3>4 DEF Sales!SalesNext
  <2> QED BY <2>2, <2>3
<1>6. CASE AdminBookingsNext
  <2>1. ASSUME ExpiryJob \/ \E a \in AdminCancels : ReadToAdminCancel(a)
        PROVE  UNCHANGED <<charges, events, posted, refunds>>
    BY <2>1 DEF ExpiryJob, ReadToAdminCancel, tableVars, rowVars, providerVars
  <2> QED BY <1>2, <1>5, <1>6, <2>1 DEF AdminBookingsNext, Sales!SalesNext
<1> QED BY <1>3, <1>4, <1>6

\* A request that was not told of a charge, and is not now, holds no receipt.
LEMMA ReceiptsKept ==
  ASSUME PaymentServiceTypeOK, NEW p \in Pays, NEW r \in PayRequest,
         pays' = [pays EXCEPT ![p] = r], r.pc # "charged", events' \subseteq events
  PROVE  Receipts' \subseteq Receipts
<1>1. \A q \in Pays : pays'[q].pc = "charged" => pays'[q] = pays[q]
  BY DEF PaymentServiceTypeOK
<1> QED BY <1>1 DEF Receipts

\* A request about to settle, and an event, are receipts for their booking.
LEMMA ReceiptsSell ==
  ASSUME TypeOK, NEW b \in Receipts \cap Booking, Receipts' \subseteq Receipts,
         bookings' = [bookings EXCEPT ![b].status = "CONFIRMED"],
         UNCHANGED <<charges, refunds, posted>>
  PROVE  Sales!SalesNext
<1>1. Sold(b)' /\ \A c \in Booking \ {b} : Sold(c)' <=> Sold(c)
  BY DEF Sold, TypeOK, TablesTypeOK, BookingRow
<1>2. SoldNow' = SoldNow \cup {b}
  BY <1>1 DEF SoldNow
<1>3. Sales!Sell(b)
  BY <1>2 DEF Sales!Sell, SoldNow, Receipts
<1> QED BY <1>3 DEF Sales!SalesNext

\* The steps of the payment service are steps of the ledger.
LEMMA PaymentsSell ==
  ASSUME TypeOK, PaymentServiceNext
  PROVE  Sales!SalesNext
<1>t. /\ PaymentServiceTypeOK /\ pays \in [Pays -> PayRequest] /\ charges \in [Booking -> Nat]
      /\ bookings \in [Booking -> BookingRow]
  BY DEF TypeOK, TablesTypeOK, PaymentServiceTypeOK
<1>1. ASSUME NEW p \in Pays, ChargeCard(p)
      PROVE  Sales!SalesNext
  <2>1. PICK b \in Booking :
        /\ b = pays[p].booking /\ pays[p].pc = "cleared" /\ UNCHANGED <<bookings, refunds, posted>>
        /\ charges' = [charges EXCEPT ![b] = @ + 1] /\ events' = events \cup {b}
    BY <1>t, <1>1 DEF ChargeCard, PayGoto, PaymentServiceTypeOK, rowVars
  <2>2. /\ pays'[p].pc = "charged" /\ pays'[p].booking = b
        /\ \A q \in Pays \ {p} : pays'[q] = pays[q]
    BY <1>t, <1>1, <2>1 DEF ChargeCard, PayGoto, PayRequest
  <2>3. Receipts' = Receipts \cup {b}
    BY <2>1, <2>2 DEF Receipts
  <2>4. SoldNow' = SoldNow
    BY <2>1 DEF SoldNow, Sold
  <2>5. Sales!Take(b)
    BY <2>1, <2>3, <2>4 DEF Sales!Take, Receipts, SoldNow
  <2> QED BY <2>1, <2>5 DEF Sales!SalesNext
<1>2. ASSUME NEW p \in Pays, SettleCard(p)
      PROVE  Sales!SalesNext
  <2> DEFINE r == [pays[p] EXCEPT !.pc = "done"]
  <2>1. PICK b \in Booking \cap Receipts :
        /\ b = pays[p].booking /\ UNCHANGED <<charges, refunds, events, posted>>
        /\ bookings' = [bookings EXCEPT ![b].status = "CONFIRMED"]
    BY <1>t, <1>2 DEF SettleCard, PayGoto, PaymentServiceTypeOK, providerVars, Receipts
  <2>2. pays' = [pays EXCEPT ![p] = r] /\ r \in PayRequest /\ r.pc # "charged"
    BY <1>t, <1>2 DEF SettleCard, PayGoto, PayRequest, PayPc
  <2> HIDE DEF r
  <2>3. Receipts' \subseteq Receipts
    BY <1>t, <2>1, <2>2, ReceiptsKept
  <2> QED BY <2>1, <2>3, ReceiptsSell
<1>3. ASSUME NEW b \in Booking, Webhook(b)
      PROVE  Sales!SalesNext
  <2>1. /\ b \in Receipts /\ UNCHANGED <<charges, refunds, pays, posted>>
        /\ events' \subseteq events
        /\ bookings' = [bookings EXCEPT ![b].status = "CONFIRMED"]
    BY <1>3 DEF Webhook, ProcessWebhook, Receipts
  <2>2. Receipts' \subseteq Receipts
    BY <2>1 DEF Receipts
  <2> QED BY <2>1, <2>2, ReceiptsSell
<1>4. ASSUME NEW p \in Pays,
             \/ ReadToPay(p) \/ WriteLapsed(p) \/ LookUpKey(p) \/ PushMpesa(p) \/ FailPayment(p)
      PROVE  Sales!SalesNext
  <2>1. UNCHANGED <<charges, refunds, events, posted>>
    BY <1>4 DEF ReadToPay, WriteLapsed, LookUpKey, PushMpesa, FailPayment, tableVars, rowVars,
       providerVars
  <2>2. PICK r \in PayRequest : pays' = [pays EXCEPT ![p] = r] /\ r.pc # "charged"
    <3>1. pays' = [pays EXCEPT ![p] = pays'[p]] /\ pays'[p].pc # "charged"
      BY <1>t, <1>4 DEF ReadToPay, WriteLapsed, LookUpKey, PushMpesa, FailPayment, PayGoto,
         PayRequest
    <3>2. pays'[p] \in PayRequest
      <4>1. CASE ReadToPay(p)
        BY <1>t, <4>1 DEF ReadToPay, PayRequest, PayPc
      <4>2. CASE WriteLapsed(p) \/ LookUpKey(p) \/ PushMpesa(p) \/ FailPayment(p)
        BY <1>t, <4>2 DEF WriteLapsed, LookUpKey, PushMpesa, FailPayment, PayGoto, PayRequest, PayPc
      <4> QED BY <1>4, <4>1, <4>2
    <3> QED BY <3>1, <3>2
  <2>3. Receipts' \subseteq Receipts
    BY <1>t, <2>1, <2>2, ReceiptsKept
  <2>4. ASSUME NEW b \in Booking, Sold(b)'
        PROVE  Sold(b)
    BY <1>t, <1>4, <2>4 DEF ReadToPay, WriteLapsed, LookUpKey, PushMpesa, FailPayment, tableVars,
       rowVars, Sold, BookingRow
  <2>5. SoldNow' \subseteq SoldNow
    BY <2>4 DEF SoldNow
  <2>6. Sales!Lapse
    BY <2>1, <2>3, <2>5 DEF Sales!Lapse, SoldNow, Receipts
  <2> QED BY <2>6 DEF Sales!SalesNext
<1>5. ASSUME NEW b \in Booking, PostEvent(b)
      PROVE  Sales!SalesNext
  <2>1. /\ UNCHANGED <<charges, refunds, pays, events>> /\ posted' = posted \cup {b}
        /\ bookings' = [bookings EXCEPT ![b].status = "CONFIRMED"]
    BY <1>5 DEF PostEvent, ProcessWebhook
  <2>2. Sold(b)' /\ \A c \in Booking \ {b} : Sold(c)' <=> Sold(c)
    BY <1>t, <2>1 DEF Sold, BookingRow
  <2>3. SoldNow' = SoldNow \cup {b} /\ Receipts' = Receipts
    BY <2>1, <2>2 DEF SoldNow, Receipts
  <2>4. Sales!SellOnClaim(b)
    BY <2>1, <2>3 DEF Sales!SellOnClaim, SoldNow, Receipts
  <2> QED BY <2>4 DEF Sales!SalesNext
<1> QED BY <1>1, <1>2, <1>3, <1>4, <1>5 DEF PaymentServiceNext, PayStep

\* The booking core implements the ledger of sales: charges leave receipts, a booking is
\* confirmed against a receipt or, visibly so, on a posted event that stands for none,
\* and a refund is recorded as the sale ends
\* (payments.service.ts:103-190, admin.service.ts:222-262).
THEOREM SalesImplemented == Spec => ImplementsSales
<1>1. Init => Sales!SalesInit
  BY DEF Init, TablesInit, PaymentServiceInit, AbsentBooking, Sold, Sales!SalesInit
<1>2. TypeOK /\ [Next]_vars => Sales!SalesNext
  BY PaymentsSell, OthersLapse DEF Next, vars
<1> QED BY <1>1, <1>2, TypeCorrect, PTL DEF Spec, ImplementsSales, Sales!SalesSpec

------------------------------------------------------------------------------
(***************************************************************************)
(* The checkout page.                                                      *)
(***************************************************************************)

\* A step of the page leaves the core alone.
PageAction ==
  \/ Reopen \/ GoForward \/ ReceiveHold \/ Countdown \/ ReceivePayment \/ LosePayment
  \/ \E s \in Stays : ChooseStay(s) \/ ReceiveQuote(s)
  \/ \E step \in {1, 3} : GoBack(step)
  \/ \E b \in Booking : InitiateHold(b)
  \/ \E p \in Pays, method \in Methods : ProcessPayment(p, method)

\* A step of the server leaves the page alone.
ServerAction ==
  \/ \E b \in Booking : ArriveHold(b)
  \/ \E p \in Pays : ArrivePayment(p) \/ FailOrder(p)
  \/ ServerStep

\* A step is one of the page or one of the services.
LEMMA CheckoutSteps ==
  ASSUME CheckoutNext
  PROVE  PageAction \/ ServerAction
BY DEF CheckoutNext, PageAction, ServerAction

\* What the page does alone changes no row.
LEMMA PageStepServes ==
  ASSUME PageAction
  PROVE  UNCHANGED vars
BY DEF PageAction, Reopen, ChooseStay, ReceiveQuote, GoForward, GoBack, InitiateHold, ReceiveHold,
       Countdown, ProcessPayment, ReceivePayment, LosePayment

\* What the services do for the page they do in the booking core.
LEMMA ServerStepServes ==
  ASSUME ServerAction
  PROVE  Next
<1>1. ASSUME NEW b \in Booking, ArriveHold(b)
      PROVE  Next
  BY <1>1 DEF ArriveHold, Next, BookingServiceNext
<1>2. ASSUME NEW p \in Pays, ArrivePayment(p)
      PROVE  Next
  BY <1>2 DEF ArrivePayment, Next, PaymentServiceNext
<1>3. ASSUME NEW p \in Pays, FailOrder(p)
      PROVE  Next
  BY <1>3 DEF FailOrder, Next, PaymentServiceNext
<1>4. CASE ServerStep
  BY <1>4 DEF ServerStep, Next, BookingServiceNext, PaymentServiceNext
<1> QED BY <1>1, <1>2, <1>3, <1>4 DEF ServerAction

\* With the page in front of it the core does nothing that it would not do without: what
\* holds of the core holds behind the page.
THEOREM CheckoutServes == CheckoutSpec => Spec
<1>1. CheckoutInit => Init
  BY DEF CheckoutInit
<1>2. [CheckoutNext]_checkoutVars => [Next]_vars
  BY CheckoutSteps, PageStepServes, ServerStepServes DEF checkoutVars
<1> QED BY <1>1, <1>2, PTL DEF CheckoutSpec, Spec

\* What the page shows and has sent.  The stay of a booking is asked for once, and until
\* the answer to it nobody has ordered a payment for it.
PageRecord ==
  [step : {1, 3, 4, 5}, stay : Stays, price : Stays \cup {NoStay}, calculating : BOOLEAN,
   holding : Booking \cup {NoBooking}, created : Booking \cup {NoBooking},
   paying : Pays \cup {NoPay}, confirmed : Booking \cup {NoBooking}, counting : BOOLEAN]

Sent ==
  /\ page \in PageRecord
  /\ page.step = 5 => page.confirmed \in Booking /\ charges[page.confirmed] > 0
  /\ quotes \subseteq Stays
  /\ asked \in [Booking -> Stays \cup {NoStay}]
  /\ ordered \in [Pays -> [booking : Booking \cup {NoBooking}, method : Methods \cup {"NONE"}]]
  /\ fault \in BOOLEAN
  /\ \A p \in Pays :
       /\ pays[p].pc # "idle" => ordered[p] # NoOrder /\ pays[p].booking = ordered[p].booking
       /\ ordered[p] # NoOrder =>
            ordered[p].booking \in Booking /\ asked[ordered[p].booking] # NoStay
  /\ page.created \in Booking => asked[page.created] # NoStay
  /\ page.holding \in Booking =>
       /\ asked[page.holding] # NoStay /\ page.created # page.holding
       /\ \A p \in Pays : ordered[p].booking # page.holding

\* A payment that was ordered and not answered by the server.
Waiting(p) == ordered[p] # NoOrder /\ pays[p].pc \notin {"done", "refused"}

\* As long as nothing was lost, a booking has one payment that waits, and for the booking
\* on the page it is the one the page waits for.
OneWaits ==
  ~fault =>
    /\ \A p \in Pays : Waiting(p) /\ ordered[p].booking = page.created => page.paying = p
    /\ \A p, q \in Pays :
         Waiting(p) /\ Waiting(q) /\ ordered[p].booking = ordered[q].booking => p = q

\* And a request that is going to charge has a booking without a charge: a charge is on
\* record, or about to be recorded, and the request would have seen it.
ChargedOnce ==
  ~fault =>
    /\ \A b \in Booking :
         /\ charges[b] <= 1
         /\ charges[b] > 0 =>
              \/ payments[b].status = "SUCCESS"
              \/ \E p \in Pays : pays[p].pc = "charged" /\ pays[p].booking = b
    /\ \A p \in Pays :
         pays[p].pc = "cleared" \/ (pays[p].pc = "checked" /\ ~pays[p].paid)
         => charges[pays[p].booking] = 0

CheckoutInv == Sent /\ OneWaits /\ ChargedOnce

\* The invariant contains what the run checks of the page.
LEMMA CheckoutInvImplies ==
  ASSUME CheckoutInv
  PROVE  CheckoutTypeOK /\ ConfirmationWasCharged /\ ChargedOnceWithoutFaults
BY NamesAssumption DEF CheckoutInv, Sent, PageRecord, CheckoutTypeOK, ConfirmationWasCharged,
   ChargedOnce, ChargedOnceWithoutFaults

\* A page just opened satisfies the invariant.
LEMMA CheckoutInvInit ==
  ASSUME CheckoutInit
  PROVE  CheckoutInv
<1> USE NamesAssumption DEF CheckoutInit
<1>1. PICK stay \in Stays : page = OpenPage(stay, 1) /\ quotes = {stay}
  OBVIOUS
<1>2. \A p \in Pays : ordered[p] = NoOrder /\ pays[p].pc = "idle"
  BY DEF Init, PaymentServiceInit
<1>3. \A b \in Booking : charges[b] = 0
  BY DEF Init, TablesInit
<1>4. Sent
  <2>1. /\ page \in PageRecord /\ page.step = 1
        /\ page.created = NoBooking /\ page.holding = NoBooking
    BY <1>1 DEF OpenPage, PageRecord
  <2>2. /\ ordered \in [Pays -> [booking : Booking \cup {NoBooking},
                                method : Methods \cup {"NONE"}]]
        /\ asked \in [Booking -> Stays \cup {NoStay}] /\ fault \in BOOLEAN /\ quotes \subseteq Stays
    BY <1>1 DEF NoOrder
  <2> QED BY <1>2, <2>1, <2>2 DEF Sent
<1>5. OneWaits
  BY <1>2 DEF OneWaits, Waiting
<1>6. ChargedOnce
  BY <1>2, <1>3 DEF ChargedOnce
<1> QED BY <1>4, <1>5, <1>6 DEF CheckoutInv

------------------------------------------------------------------------------
\* The page while the server works: what was charged stays charged.
LEMMA ServerKeepsSent ==
  ASSUME MoneyInv, MoneyInv', Sent, ServerAction
  PROVE  Sent'
<1>t. /\ TypeOK /\ pays \in [Pays -> PayRequest] /\ charges \in [Booking -> Nat]
      /\ PaymentServiceTypeOK
  BY DEF MoneyInv, HoldInv, TypeOK, TablesTypeOK, PaymentServiceTypeOK
<1>1. UNCHANGED <<page, quotes, asked, ordered>> /\ fault' \in BOOLEAN
  BY DEF ServerAction, ArriveHold, ArrivePayment, FailOrder, ServerStep, pageVars, Sent
<1>2. ASSUME NEW p \in Pays, pays'[p].pc # "idle"
      PROVE  ordered[p] # NoOrder /\ pays'[p].booking = ordered[p].booking
  <2>1. CASE ArrivePayment(p)
    BY <1>t, <2>1 DEF ArrivePayment, ReadToPay
  <2>2. CASE ~ArrivePayment(p)
    <3>1. pays[p].pc # "idle" /\ pays'[p].booking = pays[p].booking
      <4>1. ASSUME NEW q \in Pays, ArrivePayment(q), q # p
            PROVE  pays'[p] = pays[p]
        BY <1>t, <4>1 DEF ArrivePayment, ReadToPay
      <4>2. ASSUME NEW q \in Pays, FailOrder(q)
            PROVE  pays[p].pc # "idle" /\ pays'[p].booking = pays[p].booking
        BY <1>2, <1>t, <4>2 DEF FailOrder, FailPayment, PayRequest
      <4>3. ASSUME NEW q \in Pays, PayStep(q)
            PROVE  pays[p].pc # "idle" /\ pays'[p].booking = pays[p].booking
        BY <1>2, <1>t, <4>3 DEF PayStep, WriteLapsed, LookUpKey, PushMpesa, ChargeCard, SettleCard,
           PayGoto, PayRequest
      <4>4. ASSUME NEW b \in Booking, ArriveHold(b) \/ Webhook(b) \/ PostEvent(b)
            PROVE  UNCHANGED pays
        BY <4>4 DEF ArriveHold, Webhook, PostEvent, ProcessWebhook
      <4> QED BY <1>2, <2>2, <4>1, <4>2, <4>3, <4>4 DEF ServerAction, ServerStep
    <3> QED BY <3>1 DEF Sent
  <2> QED BY <2>1, <2>2
<1>3. page.step = 5 => page.confirmed \in Booking /\ charges'[page.confirmed] > 0
  BY <1>t, ServerStepServes, ChargesGrow DEF Sent
<1> QED BY <1>1, <1>2, <1>3 DEF Sent

\* How the server moves the payments that wait.
LEMMA PayMoves ==
  ASSUME TypeOK, ServerAction, NEW p \in Pays
  PROVE  \/ pays'[p] = pays[p]
         \/ pays[p].pc \notin {"done", "refused"}
BY DEF TypeOK, PaymentServiceTypeOK, ServerAction, ServerStep, ArriveHold, ArrivePayment, ReadToPay,
       FailOrder, FailPayment, PayStep, WriteLapsed, LookUpKey, PushMpesa, ChargeCard, SettleCard,
       PayGoto, Webhook, PostEvent, ProcessWebhook

\* A request that fails after its charge is a fault; no step undoes one.
LEMMA Faults ==
  ASSUME ServerAction
  PROVE  /\ UNCHANGED <<page, asked, ordered>>
         /\ fault => fault'
         /\ \A p \in Pays : FailOrder(p) /\ pays[p].pc = "charged" => fault'
<1>1. UNCHANGED <<page, asked, ordered>>
  BY DEF ServerAction, ArriveHold, ArrivePayment, FailOrder, ServerStep, pageVars
<1>2. ASSUME NEW p \in Pays, FailOrder(p)
      PROVE  fault' = (fault \/ pays[p].pc = "charged")
  BY <1>2 DEF FailOrder
<1>3. \/ UNCHANGED fault
      \/ \E p \in Pays : FailOrder(p)
  BY DEF ServerAction, ArriveHold, ArrivePayment, ServerStep, pageVars
<1>4. fault => fault'
  BY <1>2, <1>3, Zenon
<1>5. ASSUME NEW p \in Pays, FailOrder(p), pays[p].pc = "charged"
      PROVE  fault'
  BY <1>2, <1>5, Zenon
<1> QED BY <1>1, <1>4, <1>5

\* The services make no request of the page wait.
LEMMA ServerKeepsWaits ==
  ASSUME MoneyInv, OneWaits, ServerAction
  PROVE  OneWaits'
<1>1. \A p \in Pays : Waiting(p)' => Waiting(p)
  BY PayMoves, Faults DEF MoneyInv, HoldInv, Waiting
<1> QED BY <1>1, Faults DEF OneWaits

\* A step that neither reads to pay nor charges nor settles.
LEMMA QuietKeepsCharges ==
  ASSUME ChargedOnce, UNCHANGED charges, fault => fault',
         \A b \in Booking : payments[b].status = "SUCCESS" => payments'[b].status = "SUCCESS",
         ~fault' => \A p \in Pays :
           /\ pays[p].pc = "charged" => pays'[p] = pays[p]
           /\ \/ pays'[p] = pays[p]
              \/ pays'[p].pc \notin {"cleared", "checked"}
              \/ pays'[p].pc = "cleared" /\ pays[p].pc = "checked" /\ ~pays[p].paid
                   /\ pays'[p].booking = pays[p].booking
  PROVE  ChargedOnce'
BY DEF ChargedOnce

\* The services charge at most once for the attempt that waits.
LEMMA ServerKeepsCharges ==
  ASSUME MoneyInv, Sent, OneWaits, ChargedOnce, ServerAction
  PROVE  ChargedOnce'
<1> SUFFICES ASSUME ~fault'
             PROVE  ChargedOnce'
  BY DEF ChargedOnce
<1>t. /\ pays \in [Pays -> PayRequest] /\ charges \in [Booking -> Nat]
      /\ payments \in [Booking -> PaymentRow] /\ bookings \in [Booking -> BookingRow]
      /\ \A p \in Pays : pays[p].pc # "idle" => pays[p].booking \in Booking
  BY DEF MoneyInv, HoldInv, TypeOK, TablesTypeOK, PaymentServiceTypeOK
<1>f. ~fault
  BY Faults
<1>w. \A p, q \in Pays :
        Waiting(p) /\ Waiting(q) /\ ordered[p].booking = ordered[q].booking => p = q
  BY <1>f DEF OneWaits
<1>b. \A p \in Pays : pays[p].pc \in {"checked", "cleared", "charged"} =>
        Waiting(p) /\ pays[p].booking = ordered[p].booking
  BY DEF Sent, Waiting
<1>c. \A p \in Pays : pays[p].pc = "cleared" => charges[pays[p].booking] = 0
  BY <1>f DEF ChargedOnce
<1>1. ASSUME NEW b \in Booking, ArriveHold(b)
      PROVE  ChargedOnce'
  <2>1. UNCHANGED <<pays, charges, payments, fault>>
    BY <1>1 DEF ArriveHold, Sweep, providerVars, pageVars
  <2> QED BY <2>1, QuietKeepsCharges
<1>2. ASSUME NEW p \in Pays, ArrivePayment(p)
      PROVE  ChargedOnce'
  <2>1. UNCHANGED <<charges, payments>>
    BY <1>2 DEF ArrivePayment, ReadToPay, tableVars, rowVars, providerVars
  <2>2. \A q \in Pays : q # p => pays'[q] = pays[q]
    BY <1>2, <1>t DEF ArrivePayment, ReadToPay
  <2>3. /\ pays[p].pc = "idle" /\ Waiting(p) /\ pays'[p].pc \notin {"cleared", "charged"}
        /\ pays'[p].booking = ordered[p].booking /\ pays'[p].booking \in Booking
        /\ ~pays'[p].paid => payments[pays'[p].booking].status # "SUCCESS"
    <3>1. PICK b \in Booking, k \in Keys \cup {NoKey}, m \in Methods :
            /\ Exists(b)
            /\ pays' = [pays EXCEPT ![p] =
                 [pc |-> IF ~NotPayable(bookings[b]) THEN "checked"
                         ELSE IF bookings[b].status = "EXPIRED" THEN "refused"
                         ELSE "lapsed",
                  booking |-> b, key |-> k, method |-> m,
                  paid |-> payments[b].status = "SUCCESS"]]
      BY <1>2, Zenon DEF ArrivePayment, ReadToPay
    <3>2. pays[p].pc = "idle" /\ Waiting(p) /\ pays'[p].booking = ordered[p].booking
      BY <1>2 DEF ArrivePayment, ReadToPay, Waiting
    <3>3. pays'[p].pc \notin {"cleared", "charged"} /\ pays'[p].booking = b
      BY <1>t, <3>1
    <3>4. pays'[p].paid <=> payments[b].status = "SUCCESS"
      BY <1>t, <3>1
    <3> QED BY <3>2, <3>3, <3>4
  <2>4. ~pays'[p].paid => charges[pays'[p].booking] = 0
    <3> SUFFICES ASSUME ~pays'[p].paid, charges[pays'[p].booking] # 0
                 PROVE  FALSE
      OBVIOUS
    <3>1. PICK q \in Pays : pays[q].pc = "charged" /\ pays[q].booking = pays'[p].booking
      BY <1>t, <1>f, <2>3 DEF ChargedOnce
    <3> QED BY <1>w, <1>b, <2>3, <3>1
  <2>5. \A b \in Booking :
          \/ payments[b].status = "SUCCESS" \/ charges[b] = 0
          \/ \E q \in Pays : pays'[q].pc = "charged" /\ pays'[q].booking = b
    BY <1>t, <1>f, <2>2, <2>3 DEF ChargedOnce
  <2> QED BY <1>t, <1>f, <2>1, <2>2, <2>3, <2>4, <2>5 DEF ChargedOnce
<1>3. ASSUME NEW p \in Pays, FailOrder(p)
      PROVE  ChargedOnce'
  <2>1. pays[p].pc # "charged"
    BY <1>3, Faults
  <2>2. UNCHANGED <<charges, payments>> /\ pays'[p].pc = "refused"
        /\ \A q \in Pays \ {p} : pays'[q] = pays[q]
    BY <1>3, <1>t DEF FailOrder, FailPayment, tableVars, rowVars, providerVars, PayRequest
  <2> QED BY <1>f, <2>1, <2>2, QuietKeepsCharges
<1>4. ASSUME NEW p \in Pays, WriteLapsed(p) \/ LookUpKey(p)
      PROVE  ChargedOnce'
  <2>1. UNCHANGED <<charges, payments>>
    BY <1>4 DEF WriteLapsed, LookUpKey, tableVars, rowVars, providerVars
  <2>2. \A q \in Pays \ {p} : pays'[q] = pays[q]
    BY <1>4, <1>t DEF WriteLapsed, LookUpKey, PayGoto
  <2>3. /\ pays[p].pc \in {"lapsed", "checked"}
        /\ \/ pays'[p].pc \in {"refused", "replayed"}
           \/ /\ pays'[p].pc = "cleared" /\ pays[p].pc = "checked" /\ ~pays[p].paid
              /\ pays'[p].booking = pays[p].booking
    BY <1>4, <1>t DEF WriteLapsed, LookUpKey, PayGoto, PayRequest
  <2> QED BY <1>f, <2>1, <2>2, <2>3, QuietKeepsCharges
<1>5. ASSUME NEW p \in Pays, PushMpesa(p)
      PROVE  ChargedOnce'
  <2> DEFINE target == pays[p].booking
  <2>1. /\ pays[p].pc = "cleared" /\ pays'[p].pc = "done"
        /\ \A q \in Pays \ {p} : pays'[q] = pays[q]
        /\ UNCHANGED charges
        /\ \A b \in Booking \ {target} : payments'[b] = payments[b]
    BY <1>5, <1>t DEF PushMpesa, PayGoto, PayRequest, providerVars
  <2>2. target \in Booking /\ charges[target] = 0
    BY <1>t, <1>c, <2>1
  <2> HIDE DEF target
  <2> QED BY <1>t, <1>f, <2>1, <2>2 DEF ChargedOnce
<1>6. ASSUME NEW p \in Pays, ChargeCard(p)
      PROVE  ChargedOnce'
  <2> DEFINE target == pays[p].booking
  <2>1. /\ pays[p].pc = "cleared" /\ pays'[p].pc = "charged" /\ pays'[p].booking = target
        /\ \A q \in Pays \ {p} : pays'[q] = pays[q]
        /\ UNCHANGED payments
    BY <1>6, <1>t DEF ChargeCard, PayGoto, PayRequest, rowVars
  <2>2. target \in Booking /\ charges[target] = 0
    BY <1>t, <1>c, <2>1
  <2>3. charges' = [charges EXCEPT ![target] = charges[target] + 1]
    BY <1>6 DEF ChargeCard
  <2>4. charges'[target] = 1 /\ \A b \in Booking \ {target} : charges'[b] = charges[b]
    BY <1>t, <2>2, <2>3
  <2>5. ASSUME NEW q \in Pays \ {p}, pays[q].pc \in {"checked", "cleared"}
        PROVE  pays[q].booking # target
    BY <1>w, <1>b, <2>1, <2>5
  <2> HIDE DEF target
  <2>6. \A b \in Booking :
          /\ charges'[b] <= 1
          /\ charges'[b] > 0 =>
               \/ payments'[b].status = "SUCCESS"
               \/ \E q \in Pays : pays'[q].pc = "charged" /\ pays'[q].booking = b
    BY <1>t, <1>f, <2>1, <2>4 DEF ChargedOnce
  <2>7. \A q \in Pays :
          pays'[q].pc = "cleared" \/ (pays'[q].pc = "checked" /\ ~pays'[q].paid)
          => charges'[pays'[q].booking] = 0
    BY <1>t, <1>f, <2>1, <2>4, <2>5 DEF ChargedOnce
  <2> QED BY <2>6, <2>7 DEF ChargedOnce
<1>7. ASSUME NEW p \in Pays, SettleCard(p)
      PROVE  ChargedOnce'
  <2> DEFINE target == pays[p].booking
  <2>1. /\ pays[p].pc = "charged" /\ pays'[p].pc = "done"
        /\ \A q \in Pays \ {p} : pays'[q] = pays[q]
        /\ UNCHANGED charges
    BY <1>7, <1>t DEF SettleCard, PayGoto, PayRequest, providerVars
  <2>2. target \in Booking
    BY <1>t, <2>1
  <2>3. payments'[target].status = "SUCCESS"
        /\ \A b \in Booking \ {target} : payments'[b] = payments[b]
    BY <1>7, <1>t, <2>2 DEF SettleCard
  <2> HIDE DEF target
  <2>4. \A b \in Booking :
          charges[b] > 0 =>
             \/ payments'[b].status = "SUCCESS"
             \/ \E q \in Pays : pays'[q].pc = "charged" /\ pays'[q].booking = b
    BY <1>f, <2>1, <2>3 DEF ChargedOnce, target
  <2> QED BY <1>t, <1>f, <2>1, <2>4 DEF ChargedOnce
<1>8. CASE ServerStep
  <2>1. ASSUME NEW b \in Booking, Webhook(b) \/ PostEvent(b)
        PROVE  ChargedOnce'
    <3>1. ProcessWebhook(b)
      BY <2>1 DEF Webhook, PostEvent
    <3> QED BY <1>f, <1>t, <3>1, QuietKeepsCharges DEF ProcessWebhook, PaymentRow
  <2>2. ASSUME NEW b \in Booking, CreateStep(b) \/ AbortHold(b), UNCHANGED pays
        PROVE  ChargedOnce'
    <3>1. UNCHANGED <<charges, payments>>
      BY <2>2 DEF CreateStep, Price, OpenTransaction, LockProperty, CheckBlockedDates, CheckOverlap,
         InsertHold, CommitHold, RefuseHold, AbortHold, tableVars, rowVars, providerVars
    <3> QED BY <1>f, <2>2, <3>1, QuietKeepsCharges
  <2>3. CASE Tick /\ UNCHANGED pays
    BY <1>f, <2>3, QuietKeepsCharges DEF Tick, rowVars, providerVars
  <2> QED BY <1>4, <1>5, <1>6, <1>7, <1>8, <2>1, <2>2, <2>3 DEF ServerStep, PayStep
<1> QED BY <1>1, <1>2, <1>3, <1>8 DEF ServerAction

------------------------------------------------------------------------------
\* The page by itself, while the core rests.
LEMMA PageKeepsCharges ==
  ASSUME ChargedOnce, UNCHANGED vars, fault => fault'
  PROVE  ChargedOnce'
BY DEF ChargedOnce, vars, tableVars, rowVars, providerVars

\* Steps that order nothing: the page keeps its booking and its payment, or forgets both.
LEMMA IdlePage ==
  ASSUME Sent, OneWaits, ChargedOnce, UNCHANGED vars,
         page' \in PageRecord, quotes' \subseteq Stays, UNCHANGED <<asked, ordered, fault>>,
         page'.step = 5 => page'.confirmed \in Booking /\ charges[page'.confirmed] > 0,
         \/ page'.created = page.created /\ page'.paying = page.paying
         \/ page'.created = NoBooking,
         page'.holding \in {page.holding, NoBooking}
  PROVE  CheckoutInv'
<1>1. UNCHANGED <<pays, charges, payments>>
  BY DEF vars, tableVars, rowVars, providerVars
<1>2. Sent'
  <2>1. page'.created \in Booking => page'.created = page.created
    BY NamesAssumption
  <2>2. page'.holding \in Booking => page'.holding = page.holding
    BY NamesAssumption
  <2> QED BY <1>1, <2>1, <2>2, NamesAssumption DEF Sent, PageRecord
<1>3. OneWaits'
  <2>1. \A p \in Pays : ordered[p] # NoOrder => ordered[p].booking # NoBooking
    BY NamesAssumption DEF Sent
  <2> QED BY <1>1, <2>1 DEF OneWaits, Waiting
<1>4. ChargedOnce'
  BY PageKeepsCharges
<1> QED BY <1>2, <1>3, <1>4 DEF CheckoutInv

\* Choosing a stay, going forward, the countdown and reopening keep the invariant.
LEMMA BrowseKeeps ==
  ASSUME CheckoutInv,
         \/ Reopen \/ GoForward \/ Countdown
         \/ \E s \in Stays : ChooseStay(s) \/ ReceiveQuote(s)
         \/ \E step \in {1, 3} : GoBack(step)
  PROVE  CheckoutInv'
<1>t. Sent /\ OneWaits /\ ChargedOnce /\ page \in PageRecord
  BY DEF CheckoutInv, Sent
<1>1. UNCHANGED vars
  BY PageStepServes DEF PageAction
<1>2. CASE Reopen
  BY <1>t, <1>1, <1>2, IdlePage DEF Reopen, OpenPage, PageRecord, Sent
<1>3. CASE GoForward
  BY <1>t, <1>1, <1>3, IdlePage DEF GoForward, PageRecord, Sent
<1>4. CASE Countdown
  <2>1. PICK counting \in BOOLEAN, step \in {1, 4} :
          page' = [page EXCEPT !.counting = counting, !.step = step]
    <3>1. CASE page' = [page EXCEPT !.counting = FALSE, !.step = 1]
      BY <3>1
    <3>2. CASE page' = [page EXCEPT !.counting = TRUE]
      <4>1. page' = [page EXCEPT !.counting = TRUE, !.step = 4]
        BY <1>t, <1>4, <3>2 DEF Countdown, PageRecord
      <4> QED BY <4>1
    <3> QED BY <1>4, <3>1, <3>2 DEF Countdown
  <2>2. /\ page' \in PageRecord /\ page'.step = step /\ page'.created = page.created
        /\ page'.paying = page.paying /\ page'.holding = page.holding
    <3>1. page'.step = step /\ page'.counting = counting
      BY <1>t, <2>1 DEF PageRecord
    <3> QED BY <1>t, <2>1, <3>1 DEF PageRecord
  <2>3. UNCHANGED <<quotes, asked, ordered, fault>>
    BY <1>4 DEF Countdown
  <2> QED BY <1>t, <1>1, <2>2, <2>3, IdlePage DEF Sent
<1>5. ASSUME NEW s \in Stays, ChooseStay(s)
      PROVE  CheckoutInv'
  BY <1>t, <1>1, <1>5, IdlePage DEF ChooseStay, PageRecord, Sent
<1>6. ASSUME NEW s \in Stays, ReceiveQuote(s)
      PROVE  CheckoutInv'
  <2>1. PICK price \in {s, NoStay} :
          page' = [page EXCEPT !.price = price, !.calculating = FALSE]
    BY <1>6 DEF ReceiveQuote
  <2>2. /\ page' \in PageRecord /\ page'.step = page.step /\ page'.confirmed = page.confirmed
        /\ page'.created = page.created /\ page'.paying = page.paying
        /\ page'.holding = page.holding
    BY <1>t, <2>1 DEF PageRecord
  <2>3. quotes' \subseteq Stays /\ UNCHANGED <<asked, ordered, fault>>
    BY <1>t, <1>6 DEF ReceiveQuote, Sent
  <2> QED BY <1>t, <1>1, <2>2, <2>3, IdlePage DEF Sent
<1>7. ASSUME NEW step \in {1, 3}, GoBack(step)
      PROVE  CheckoutInv'
  BY <1>t, <1>1, <1>7, IdlePage DEF GoBack, PageRecord, Sent
<1> QED BY <1>2, <1>3, <1>4, <1>5, <1>6, <1>7

\* A hold is asked for: the booking has been on no page before.
LEMMA InitiateKeeps ==
  ASSUME CheckoutInv, NEW b \in Booking, InitiateHold(b)
  PROVE  CheckoutInv'
<1>t. Sent /\ OneWaits /\ ChargedOnce /\ page \in PageRecord
  BY DEF CheckoutInv, Sent
<1>1. UNCHANGED <<vars, quotes, ordered, fault>> /\ UNCHANGED <<pays, charges>>
  BY DEF InitiateHold, vars, tableVars, providerVars
<1>2. /\ page' \in PageRecord /\ page'.step = 3 /\ page'.created = page.created
      /\ page'.paying = page.paying /\ page'.holding = b
  BY <1>t DEF InitiateHold, PageRecord
<1>3. asked[b] = NoStay /\ asked' = [asked EXCEPT ![b] = page.stay] /\ page.stay \in Stays
  BY <1>t DEF InitiateHold, PageRecord
<1>4. \A c \in Booking : asked[c] # NoStay => asked'[c] # NoStay
  BY <1>t, <1>3, CheckoutAssumption DEF Sent
<1>5. asked' \in [Booking -> Stays \cup {NoStay}] /\ asked'[b] # NoStay
  BY <1>t, <1>3, CheckoutAssumption DEF Sent
<1>6. page.created # b /\ \A p \in Pays : ordered[p].booking # b
  BY <1>t, <1>3, NamesAssumption DEF Sent, NoOrder
<1>7. Sent'
  BY <1>t, <1>1, <1>2, <1>4, <1>5, <1>6 DEF Sent
<1>8. OneWaits'
  BY <1>t, <1>1, <1>2 DEF OneWaits, Waiting
<1>9. ChargedOnce'
  BY <1>t, <1>1, PageKeepsCharges
<1> QED BY <1>7, <1>8, <1>9 DEF CheckoutInv

\* The answer to a hold: the booking is on the page, and has no payment yet.
LEMMA ReceiveHoldKeeps ==
  ASSUME CheckoutInv, ReceiveHold
  PROVE  CheckoutInv'
<1>t. Sent /\ OneWaits /\ ChargedOnce /\ page \in PageRecord
  BY DEF CheckoutInv, Sent
<1>1. UNCHANGED <<vars, quotes, asked, ordered, fault>> /\ UNCHANGED <<pays, charges>>
  BY DEF ReceiveHold, vars, tableVars, providerVars
<1>2. page.holding \in Booking
  BY <1>t DEF ReceiveHold, PageRecord
<1>3. CASE page' = [page EXCEPT !.holding = NoBooking]
  BY <1>t, <1>1, <1>3, IdlePage DEF PageRecord, Sent
<1>4. CASE page' = [page EXCEPT !.holding = NoBooking, !.created = page.holding, !.step = 4]
  <2>1. /\ page' \in PageRecord /\ page'.step = 4 /\ page'.created = page.holding
        /\ page'.paying = page.paying /\ page'.holding = NoBooking
    BY <1>t, <1>4 DEF PageRecord
  <2>2. Sent'
    BY <1>t, <1>1, <1>2, <2>1, NamesAssumption DEF Sent
  <2>3. OneWaits'
    BY <1>t, <1>1, <1>2, <2>1 DEF OneWaits, Waiting, Sent
  <2> QED BY <1>t, <1>1, <2>2, <2>3, PageKeepsCharges DEF CheckoutInv
<1> QED BY <1>3, <1>4 DEF ReceiveHold

\* A payment is ordered, while no other for the booking waits.
LEMMA ProcessKeeps ==
  ASSUME CheckoutInv, NEW p \in Pays, NEW method \in Methods, ProcessPayment(p, method)
  PROVE  CheckoutInv'
<1>t. Sent /\ OneWaits /\ ChargedOnce /\ page \in PageRecord
  BY DEF CheckoutInv, Sent
<1> DEFINE order == [booking |-> page.created, method |-> method]
<1>1. UNCHANGED <<vars, quotes, asked, fault>> /\ UNCHANGED <<pays, charges>>
  BY DEF ProcessPayment, vars, tableVars, providerVars
<1>2. /\ page' \in PageRecord /\ page'.step = 4 /\ page'.created = page.created
      /\ page'.paying = p /\ page'.holding = page.holding /\ page.paying = NoPay
      /\ page.created \in Booking
  BY <1>t DEF ProcessPayment, PageRecord
<1>3. ordered[p] = NoOrder /\ ordered' = [ordered EXCEPT ![p] = order]
  BY DEF ProcessPayment
<1>4. /\ order \in [booking : Booking \cup {NoBooking}, method : Methods \cup {"NONE"}]
      /\ order # NoOrder /\ order.booking = page.created
  BY <1>2, NamesAssumption DEF NoOrder
<1> HIDE DEF order
<1>5. /\ ordered' \in [Pays -> [booking : Booking \cup {NoBooking}, method : Methods \cup {"NONE"}]]
      /\ ordered'[p] = order /\ \A q \in Pays \ {p} : ordered'[q] = ordered[q]
  BY <1>t, <1>3, <1>4 DEF Sent
<1>6. pays[p].pc = "idle"
  BY <1>t, <1>3 DEF Sent
<1>7. Sent'
  BY <1>t, <1>1, <1>2, <1>4, <1>5, <1>6 DEF Sent
<1>8. OneWaits'
  <2> SUFFICES ASSUME ~fault
               PROVE  OneWaits'
    BY <1>1 DEF OneWaits
  <2>1. ASSUME NEW q \in Pays, Waiting(q), ordered[q].booking = page.created
        PROVE  FALSE
    BY <1>t, <1>2, <2>1, CheckoutAssumption DEF OneWaits
  <2>2. \A q \in Pays \ {p} : Waiting(q)' <=> Waiting(q)
    BY <1>1, <1>5 DEF Waiting
  <2> QED BY <1>t, <1>2, <1>4, <1>5, <2>1, <2>2 DEF OneWaits
<1>9. ChargedOnce'
  BY <1>t, <1>1, PageKeepsCharges
<1> QED BY <1>7, <1>8, <1>9 DEF CheckoutInv

\* The answer to a payment: it waits no longer, and what the page confirms is charged.
LEMMA ReceivePaymentKeeps ==
  ASSUME MoneyInv, CheckoutInv, ReceivePayment
  PROVE  CheckoutInv'
<1>t. Sent /\ OneWaits /\ ChargedOnce /\ page \in PageRecord
  BY DEF CheckoutInv, Sent
<1> DEFINE p == page.paying
<1>1. UNCHANGED <<vars, quotes, asked, ordered, fault>> /\ UNCHANGED <<pays, charges>>
  BY DEF ReceivePayment, vars, tableVars, providerVars
<1>2. p \in Pays /\ pays[p].pc \in {"done", "refused"}
  BY <1>t DEF ReceivePayment, PageRecord
<1>3. pays[p].booking \in Booking
  BY <1>2 DEF MoneyInv, HoldInv, TypeOK, PaymentServiceTypeOK
<1>4. /\ page' \in PageRecord /\ page'.created = page.created /\ page'.holding = page.holding
      /\ \/ page'.step = page.step /\ page'.confirmed = page.confirmed
         \/ page'.confirmed = pays[p].booking /\ pays[p].pc = "done" /\ pays[p].method = "CARD"
  BY <1>t, <1>3 DEF ReceivePayment, PageRecord
<1>5. page'.step = 5 => page'.confirmed \in Booking /\ charges[page'.confirmed] > 0
  BY <1>t, <1>2, <1>3, <1>4 DEF Sent, MoneyInv, Backed
<1>6. Sent'
  BY <1>t, <1>1, <1>4, <1>5 DEF Sent
<1>7. ~Waiting(p)
  BY <1>2 DEF Waiting
<1>8. OneWaits'
  BY <1>t, <1>1, <1>4, <1>7 DEF OneWaits, Waiting
<1>9. ChargedOnce'
  BY <1>t, <1>1, PageKeepsCharges
<1> QED BY <1>6, <1>8, <1>9 DEF CheckoutInv

\* A lost answer is a fault, after which the property promises nothing.
LEMMA LosePaymentKeeps ==
  ASSUME CheckoutInv, LosePayment
  PROVE  CheckoutInv'
<1>t. Sent /\ page \in PageRecord
  BY DEF CheckoutInv, Sent
<1>1. UNCHANGED <<vars, quotes, asked, ordered>> /\ UNCHANGED <<pays, charges>> /\ fault' = TRUE
  BY DEF LosePayment, vars, tableVars, providerVars
<1>2. /\ page' \in PageRecord /\ page'.step = page.step /\ page'.confirmed = page.confirmed
      /\ page'.created = page.created /\ page'.holding = page.holding
  BY <1>t DEF LosePayment, PageRecord
<1> QED BY <1>t, <1>1, <1>2 DEF CheckoutInv, Sent, OneWaits, ChargedOnce

\* Every step keeps the invariant.
LEMMA CheckoutInvKept ==
  ASSUME MoneyInv, MoneyInv', CheckoutInv, [CheckoutNext]_checkoutVars
  PROVE  CheckoutInv'
<1>1. CASE UNCHANGED checkoutVars
  BY <1>1 DEF checkoutVars, pageVars, vars, tableVars, rowVars, providerVars, CheckoutInv, Sent,
     OneWaits, Waiting, ChargedOnce
<1>2. CASE PageAction
  BY <1>2, BrowseKeeps, InitiateKeeps, ReceiveHoldKeeps, ProcessKeeps, ReceivePaymentKeeps,
     LosePaymentKeeps DEF PageAction
<1>3. CASE ServerAction
  BY <1>3, ServerKeepsSent, ServerKeepsWaits, ServerKeepsCharges DEF CheckoutInv
<1> QED BY <1>1, <1>2, <1>3, CheckoutSteps

\* The invariant of the page holds behind any number of holds, payments and answers.
THEOREM CheckoutInvariance == CheckoutSpec => []CheckoutInv
<1>1. CheckoutInit => CheckoutInv
  BY CheckoutInvInit
<1>2. MoneyInv /\ MoneyInv' /\ CheckoutInv /\ [CheckoutNext]_checkoutVars => CheckoutInv'
  BY CheckoutInvKept
<1> QED BY <1>1, <1>2, CheckoutServes, MoneyInvariant, PTL DEF CheckoutSpec

\* The page and its requests keep their types; a confirmation names a booking.
THEOREM CheckoutTyped == CheckoutSpec => []CheckoutTypeOK
<1> QED BY CheckoutInvariance, CheckoutInvImplies, PTL

\* A page confirms only what was charged (CheckoutPage.tsx:197-201).
THEOREM ConfirmationCharged == CheckoutSpec => []ConfirmationWasCharged
<1> QED BY CheckoutInvariance, CheckoutInvImplies, PTL

\* Without a lost answer or a request that dies after its charge nobody pays twice
\* (CheckoutPage.tsx:189).
THEOREM NobodyPaysTwice == CheckoutSpec => []ChargedOnceWithoutFaults
<1> QED BY CheckoutInvariance, CheckoutInvImplies, PTL

==============================================================================
