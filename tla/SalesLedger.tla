----------------------------- MODULE SalesLedger -----------------------------
(***************************************************************************)
(* What the booking core promises about money, without requests, events or *)
(* transactions.  Every charge leaves a receipt; a booking is sold against *)
(* a receipt, or on the mere claim that it was paid, and the claim stays   *)
(* on record; a refund ends the sale it is for; sales end and receipts are *)
(* lost at any time.  A receipt may be presented again, so that a refunded *)
(* booking may be sold once more, but not without a receipt or a claim.    *)
(***************************************************************************)
EXTENDS Integers

CONSTANT Booking

VARIABLES
  taken,       \* how often the guest of each booking was charged
  receipts,    \* bookings some charge of which may still be reported
  claimed,     \* bookings sold, once or more, on a claim
  sold,        \* bookings that are sold
  refunds      \* how often each booking was refunded

salesVars == <<taken, receipts, claimed, sold, refunds>>

SalesInit ==
  /\ taken = [b \in Booking |-> 0] /\ receipts = {}
  /\ claimed = {} /\ sold = {} /\ refunds = [b \in Booking |-> 0]

Take(b) ==
  /\ taken' = [taken EXCEPT ![b] = @ + 1]
  /\ receipts' = receipts \cup {b}
  /\ UNCHANGED <<claimed, sold, refunds>>

\* A receipt is presented, and may be kept to be presented again.
Sell(b) ==
  /\ b \in receipts
  /\ sold' = sold \cup {b}
  /\ receipts' \in SUBSET receipts
  /\ UNCHANGED <<taken, claimed, refunds>>

SellOnClaim(b) ==
  /\ claimed' = claimed \cup {b}
  /\ sold' = sold \cup {b}
  /\ UNCHANGED <<taken, receipts, refunds>>

Refund(b) ==
  /\ refunds' = [refunds EXCEPT ![b] = @ + 1]
  /\ sold' = sold \ {b}
  /\ UNCHANGED <<taken, receipts, claimed>>

\* Sales are called off without a refund on record, and receipts are lost.
Lapse ==
  /\ sold' \in SUBSET sold
  /\ receipts' \in SUBSET receipts
  /\ UNCHANGED <<taken, claimed, refunds>>

SalesNext == Lapse \/ \E b \in Booking : Take(b) \/ Sell(b) \/ SellOnClaim(b) \/ Refund(b)

SalesSpec == SalesInit /\ [][SalesNext]_salesVars

==============================================================================
