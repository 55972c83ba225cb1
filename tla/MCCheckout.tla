------------------------------ MODULE MCCheckout ------------------------------
(***************************************************************************)
(* Finite instances of Checkout.                                           *)
(***************************************************************************)
EXTENDS Checkout, TLC

\* Two stays that share their first night.
MCStays == {[checkIn |-> 0, checkOut |-> 1], [checkIn |-> 0, checkOut |-> 2]}
MCOneStay == {[checkIn |-> 0, checkOut |-> 1]}

MCSymmetry == Permutations(Booking) \cup Permutations(Pays)

MCNoRows == [d \in Days |-> "none"]

==============================================================================
