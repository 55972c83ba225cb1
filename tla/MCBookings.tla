------------------------------ MODULE MCBookings ------------------------------
(***************************************************************************)
(* Finite instances of the booking core for TLC.                           *)
(***************************************************************************)
EXTENDS BookingClaims, BookingInvariants

\* Two overlapping stays, the first of which is over within the time bound.
MCShortStays == {[checkIn |-> 0, checkOut |-> 1], [checkIn |-> 0, checkOut |-> 2]}

MCOneStay == {[checkIn |-> 0, checkOut |-> 1]}

MCNoRows == [d \in Days |-> "none"]

==============================================================================
