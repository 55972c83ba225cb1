-------------------------------- MODULE MCStays --------------------------------
(***************************************************************************)
(* Finite instances of Stays.                                              *)
(***************************************************************************)
EXTENDS Stays, TLC

MCCheckOut == [b \in Bookings |-> 1]
MCSymmetry == Permutations(Bookings) \cup Permutations(Pages) \cup Permutations(Requesters)

==============================================================================
