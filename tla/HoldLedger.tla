------------------------------ MODULE HoldLedger ------------------------------
(***************************************************************************)
(* What the booking core promises about temporary holds, without requests, *)
(* locks or statements: a ledger of claims on nights of one property.  A   *)
(* claim is granted in one step and only where no other claim stands, it   *)
(* may lapse at any time, and a booking is granted a claim at most once in *)
(* its life.  A hold may reach the ledger too late to be a claim at all.   *)
(***************************************************************************)
EXTENDS Integers

CONSTANTS
  Booking,    \* who may hold nights
  Stays       \* the stays that may be asked for

VARIABLES
  recorded,   \* bookings that were ever recorded
  claims      \* the standing claims, [id, checkIn, checkOut]

ledgerVars == <<recorded, claims>>

ClaimOn(b, s) == [id |-> b, checkIn |-> s.checkIn, checkOut |-> s.checkOut]

Disjoint(x, y) == x.checkOut <= y.checkIn \/ y.checkOut <= x.checkIn

LedgerInit == recorded = {} /\ claims = {}

\* A new booking takes its nights, which nobody claims.
Grant(b) ==
  /\ b \notin recorded
  /\ recorded' = recorded \cup {b}
  /\ \E s \in Stays :
       /\ \A k \in claims : Disjoint(s, k)
       /\ claims' = claims \cup {ClaimOn(b, s)}

\* A booking is recorded whose hold is over already.
RecordLate(b) ==
  /\ b \notin recorded
  /\ recorded' = recorded \cup {b}
  /\ UNCHANGED claims

\* Any claims end: by time, by cancellation, or as the stay passes.
Lapse ==
  /\ claims' \in SUBSET claims
  /\ UNCHANGED recorded

LedgerNext == Lapse \/ \E b \in Booking : Grant(b) \/ RecordLate(b)

LedgerSpec == LedgerInit /\ [][LedgerNext]_ledgerVars

==============================================================================
